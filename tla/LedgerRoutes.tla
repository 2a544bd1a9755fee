---------------------------- MODULE LedgerRoutes ----------------------------
(***************************************************************************)
(* The HTTP routes that read the action-record ledger                      *)
(* (policy/src/recorder/action-record-routes.ts): /ledger/head,            *)
(* /audit/ledger/head, /records, /records/:id, /records/:id/verify and     *)
(* /records/chain/verify, with the middleware in front of them.            *)
(*                                                                         *)
(* A reader asks for a head and then, under that snapshot, for pages, for  *)
(* a record or for a verdict; every query of a request is a step.  Rows    *)
(* are appended meanwhile: records under the chain lock of their agent,    *)
(* reservations of the cumulative tracker in transactions of their own, so *)
(* that a lower id may commit later.  A row may also be removed from the   *)
(* table behind the ledger's back, which is what verification is for.  The *)
(* hash of a record stands for its id, 0 for the empty hash.               *)
(***************************************************************************)
EXTENDS Integers, FiniteSets, Sequences

CONSTANTS
    LrReaders,      \* requests in flight
    LrAgents,       \* business agents
    LrGovernor,     \* SESSION_GOVERNOR_DID
    LrPrincipalOf,  \* agent -> the principal of its identity document
    LrSubjects,     \* subjects of governor rows: [agent, principal]
    LrScopes,       \* allowedRequesterScopes: requester -> [agents, principals, anyPrincipal]
    LrQueries,      \* requests: [route, requester, signer, target, agent, principal, record]
    PageLimit,      \* limit of a page
    AnchorTtl,      \* BOOTSTRAP_TOKEN_TTL_MS
    SkewWindow,     \* the window of X-Audit-Timestamp
    MaxLrRows,      \* bound: ids of the table
    MaxLrTime,      \* bound: clock
    MaxLrRemovals,  \* bound: rows removed behind the ledger's back
    MaxLrAsked      \* bound: requests

VARIABLES
    lrRows,      \* policy.action_records: id -> row
    lrNext,      \* the sequence of ids
    lrRemoved,   \* ids that were removed
    anchorCache, \* makeHandleSignedLedgerHead: query -> [anchor, expires]
    reader,      \* requests in flight
    lrAsked,     \* requests made (bound)
    lrNow        \* clock

lrVars == <<lrRows, lrNext, lrRemoved, anchorCache, reader, lrAsked, lrNow>>

LrNone == "none"
LrRoutes == {"list", "get", "verify", "chain"}

\* parseQueryParams takes a limit of at least 1, an anchor lives for some time, the governor is no
\* business agent, and a scope is written over names
ASSUME LrAssumption ==
    /\ MaxLrRows \in Nat /\ MaxLrTime \in Nat /\ MaxLrRemovals \in Nat /\ MaxLrAsked \in Nat
    /\ PageLimit \in Nat \ {0} /\ AnchorTtl \in Nat \ {0} /\ SkewWindow \in Nat
    /\ LrGovernor \notin LrAgents
    /\ LrQueries # {} /\ \A q \in LrQueries : q.route \in LrRoutes
    /\ \A s \in LrSubjects : s.agent # LrNone /\ s.principal # LrNone
    /\ \A w \in DOMAIN LrScopes : LrNone \notin LrScopes[w].agents /\ LrNone \notin LrScopes[w].principals

LrOwners == LrAgents \cup {LrGovernor}
LrIds == 1..MaxLrRows
NoSubject == [agent |-> LrNone, principal |-> LrNone]
LrRow == [state : {"open", "committed"}, owner : LrOwners, kind : {"record", "reservation"},
          subject : LrSubjects \cup {NoSubject}, at : 0..MaxLrTime, prev : 0..MaxLrRows]
NoLrRow == [state |-> "absent", owner |-> LrGovernor, kind |-> "record", subject |-> NoSubject,
            at |-> 0, prev |-> 0]
NoCursor == [at |-> 0, id |-> 0]
LrAnchor == [anchor : 0..MaxLrRows, expires : 0..(MaxLrTime + AnchorTtl)]
NoAnchor == [anchor |-> 0, expires |-> 0]
LrReaderState ==
    [pc : {"idle", "anchor", "head", "headed", "checked", "probed", "shown", "valid", "invalid"},
     q : LrQueries, head : 0..MaxLrRows, cursor : [at : 0..MaxLrTime, id : 0..MaxLrRows],
     got : Seq(LrIds), known : SUBSET LrIds, inOrder : BOOLEAN, start : 0..1,
     anchored : LrAnchor, at : 0..MaxLrTime]
IdleReader == [pc |-> "idle", q |-> CHOOSE q \in LrQueries : TRUE, head |-> 0, cursor |-> NoCursor,
               got |-> <<>>, known |-> {}, inOrder |-> FALSE, start |-> 0, anchored |-> NoAnchor, at |-> 0]

\* The table, the cache and the requests keep their types.
LrTypeOK ==
    /\ lrRows \in [LrIds -> LrRow \cup {NoLrRow}]
    /\ lrNext \in 1..(MaxLrRows + 1) /\ lrRemoved \subseteq LrIds
    /\ anchorCache \in [LrQueries -> LrAnchor]
    /\ reader \in [LrReaders -> LrReaderState]
    /\ lrAsked \in 0..MaxLrAsked /\ lrNow \in 0..MaxLrTime

LrInit ==
    /\ lrRows = [i \in LrIds |-> NoLrRow]
    /\ lrNext = 1 /\ lrRemoved = {}
    /\ anchorCache = [q \in LrQueries |-> NoAnchor]
    /\ reader = [r \in LrReaders |-> IdleReader]
    /\ lrAsked = 0 /\ lrNow = 0

-----------------------------------------------------------------------------
(* The table                                                               *)

InTable(i) == lrRows[i].state = "committed"
RowsOf(a) == {i \in LrIds : InTable(i) /\ lrRows[i].owner = a}
MaxOf(S) == IF S = {} THEN 0 ELSE CHOOSE i \in S : \A j \in S : j <= i

\* ORDER BY created_at, id
StampedBefore(i, j) ==
    lrRows[i].at < lrRows[j].at \/ (lrRows[i].at = lrRows[j].at /\ i < j)
SortRows(S) == CHOOSE s \in [1..Cardinality(S) -> S] :
                   \A i, j \in 1..Cardinality(S) : i < j => StampedBefore(s[i], s[j])

\* loadPreviousRecordHash: the agent's last row by stamp
LastHash(a) == IF RowsOf(a) = {} THEN 0
               ELSE CHOOSE i \in RowsOf(a) : \A j \in RowsOf(a) \ {i} : StampedBefore(j, i)

\* ActionRecorder under its chain lock: the stamp was taken before the lock
AppendRecord(a, subject, at) ==
    /\ lrNext <= MaxLrRows
    /\ (a = LrGovernor) <=> (subject # NoSubject)
    /\ lrRows' = [lrRows EXCEPT ![lrNext] = [state |-> "committed", owner |-> a, kind |-> "record",
                                             subject |-> subject, at |-> at, prev |-> LastHash(a)]]
    /\ lrNext' = lrNext + 1
    /\ UNCHANGED <<lrRemoved, anchorCache, reader, lrAsked, lrNow>>

\* the tracker's INSERT takes an id, its COMMIT comes later
InsertReservationRow(a) ==
    /\ lrNext <= MaxLrRows
    /\ lrRows' = [lrRows EXCEPT ![lrNext] = [state |-> "open", owner |-> a, kind |-> "reservation",
                                             subject |-> NoSubject, at |-> lrNow, prev |-> 0]]
    /\ lrNext' = lrNext + 1
    /\ UNCHANGED <<lrRemoved, anchorCache, reader, lrAsked, lrNow>>

CommitReservationRow(i) ==
    /\ lrRows[i].state = "open"
    /\ lrRows' = [lrRows EXCEPT ![i] = [lrRows[i] EXCEPT !.state = "committed"]]
    /\ UNCHANGED <<lrNext, lrRemoved, anchorCache, reader, lrAsked, lrNow>>

\* a record disappears from the table
RemoveRow(i) ==
    /\ InTable(i) /\ lrRows[i].kind = "record" /\ Cardinality(lrRemoved) < MaxLrRemovals
    /\ lrRows' = [lrRows EXCEPT ![i] = NoLrRow]
    /\ lrRemoved' = lrRemoved \cup {i}
    /\ UNCHANGED <<lrNext, anchorCache, reader, lrAsked, lrNow>>

LrTick ==
    /\ lrNow < MaxLrTime /\ lrNow' = lrNow + 1
    /\ UNCHANGED <<lrRows, lrNext, lrRemoved, anchorCache, reader, lrAsked>>

-----------------------------------------------------------------------------
(* Who may ask                                                             *)

\* the query a reader may send: its filters name one subject, or none
CheckPrincipal(q) ==
    /\ q.target # LrGovernor
    /\ LrPrincipalOf[q.target] = q.requester
    /\ q.principal = LrNone

\* mutant: the scope's principals are not compared
CheckControlPlane_AgentOnly(q) ==
    /\ q.target = LrGovernor
    /\ q.requester \in DOMAIN LrScopes
    /\ q.agent \in LrScopes[q.requester].agents

CheckControlPlane(q) ==
    /\ q.target = LrGovernor
    /\ q.requester \in DOMAIN LrScopes
    /\ q.agent \in LrScopes[q.requester].agents
    /\ \/ LrScopes[q.requester].anyPrincipal
       \/ q.principal \in LrScopes[q.requester].principals

\* the query's parameters, each optional
RowMatches(i, q) ==
    /\ q.agent # LrNone => lrRows[i].subject.agent = q.agent
    /\ q.principal # LrNone => lrRows[i].subject.principal = q.principal

\* the single gate of a control-plane row
RecordVisibleToScope(i, q) ==
    /\ q.agent # LrNone /\ lrRows[i].subject.agent = q.agent
    /\ q.principal # LrNone => lrRows[i].subject.principal = q.principal

\* parseQueryParams: known parameters, each a single well-formed value
ParseQueryParams(q) ==
    /\ q.target \in LrOwners
    /\ q.agent \in LrAgents \cup {LrNone}
    /\ q.record \in LrIds

\* some X-Audit-Timestamp near the clock and not before the head
StampAccepted(head) ==
    \E stamp \in 0..(MaxLrTime + SkewWindow) :
        /\ stamp - lrNow <= SkewWindow /\ lrNow - stamp <= SkewWindow
        /\ lrRows[head].at <= stamp

\* makeAuditMiddleware: the snapshot's row exists and is the target's, the signature is the
\* requester's, the lane's checker allows the query
SignatureHolds(q, head) ==
    /\ ParseQueryParams(q)
    /\ head # 0 /\ InTable(head) /\ lrRows[head].owner = q.target
    /\ StampAccepted(head)
    /\ q.signer = q.requester
    /\ CheckPrincipal(q) \/ CheckControlPlane(q)

-----------------------------------------------------------------------------
(* Heads                                                                   *)

LrGoto(r, s) == reader' = [reader EXCEPT ![r] = s]
AtHead(s, head, known) == [[[s EXCEPT !.pc = "headed"] EXCEPT !.head = head] EXCEPT !.known = known]
Told(s, pc, got) == [[s EXCEPT !.pc = pc] EXCEPT !.got = got]

StampsFollowIds(a) == \A i, j \in RowsOf(a) : i < j => lrRows[i].at <= lrRows[j].at

\* GET /ledger/head, unsigned, for business agents; the ghosts keep what the snapshot then holds
\* and whether its stamps follow its ids
LedgerHead(r, q, start) ==
    /\ reader[r].pc = "idle" /\ q.target # LrGovernor
    /\ start # 0 => q.route = "chain"
    /\ lrAsked < MaxLrAsked /\ lrAsked' = lrAsked + 1
    /\ RowsOf(q.target) # {}
    /\ LrGoto(r, [pc |-> "headed", q |-> q, head |-> MaxOf(RowsOf(q.target)), cursor |-> NoCursor, got |-> <<>>,
                  known |-> {i \in RowsOf(q.target) : RowMatches(i, q)}, inOrder |-> StampsFollowIds(q.target),
                  start |-> start, anchored |-> NoAnchor, at |-> 0])
    /\ UNCHANGED <<lrRows, lrNext, lrRemoved, anchorCache, lrNow>>

SubjectRows(q) == {i \in RowsOf(LrGovernor) : RowMatches(i, q)}
AnchorAlive(q) == anchorCache[q].anchor # 0 /\ lrNow < anchorCache[q].expires

\* a signed question and the anchor that was found for it
Asking(pc, q, anchored) ==
    [pc |-> pc, q |-> q, head |-> 0, cursor |-> NoCursor, got |-> <<>>, known |-> {}, inOrder |-> FALSE,
     start |-> 0, anchored |-> anchored, at |-> lrNow]

\* GET /audit/ledger/head: the request is the requester's and within its scope; a live anchor is
\* used, otherwise the newest one is looked up
SignedLedgerHead(r, q) ==
    /\ reader[r].pc = "idle"
    /\ lrAsked < MaxLrAsked /\ lrAsked' = lrAsked + 1
    /\ ParseQueryParams(q) /\ q.signer = q.requester /\ CheckControlPlane(q)
    /\ LrGoto(r, IF AnchorAlive(q) THEN Asking("head", q, anchorCache[q]) ELSE Asking("anchor", q, NoAnchor))
    /\ UNCHANGED <<lrRows, lrNext, lrRemoved, anchorCache, lrNow>>

\* SELECT MAX(id): the answer comes back after the query ran
SelectMaxId(r) ==
    LET newest == MaxOf(SubjectRows(reader[r].q))
    IN  /\ reader[r].pc = "anchor" /\ reader[r].head = 0
        /\ LrGoto(r, IF newest = 0 THEN IdleReader ELSE [reader[r] EXCEPT !.head = newest])
        /\ UNCHANGED <<lrRows, lrNext, lrRemoved, anchorCache, lrAsked, lrNow>>

\* mutant: an anchor in the cache is replaced
GetOrCacheAnchor_Overwrite(q, fresh) == [anchor |-> fresh, expires |-> lrNow + AnchorTtl]

\* another request may have cached an anchor during the query
GetOrCacheAnchor(q, fresh) ==
    IF AnchorAlive(q) THEN anchorCache[q] ELSE [anchor |-> fresh, expires |-> lrNow + AnchorTtl]

CacheAnchor(r) ==
    LET q == reader[r].q
        chosen == GetOrCacheAnchor(q, reader[r].head)
    IN  /\ reader[r].pc = "anchor" /\ reader[r].head # 0
        /\ anchorCache' = [anchorCache EXCEPT ![q] = chosen]
        /\ LrGoto(r, Asking("head", q, chosen))
        /\ UNCHANGED <<lrRows, lrNext, lrRemoved, lrAsked, lrNow>>

\* the newest row of the subject up to the anchor
SelectHead(r) ==
    LET q == reader[r].q
        rows == {i \in SubjectRows(q) : i <= reader[r].anchored.anchor}
    IN  /\ reader[r].pc = "head"
        /\ LrGoto(r, IF rows = {} THEN IdleReader
                     ELSE AtHead(reader[r], MaxOf(rows), rows))
        /\ UNCHANGED <<lrRows, lrNext, lrRemoved, anchorCache, lrAsked, lrNow>>

-----------------------------------------------------------------------------
(* Records                                                                 *)

\* a request under the snapshot passes the middleware or ends
Authorize(r) ==
    /\ reader[r].pc = "headed"
    /\ LrGoto(r, IF SignatureHolds(reader[r].q, reader[r].head) THEN [reader[r] EXCEPT !.pc = "checked"]
                 ELSE IdleReader)
    /\ UNCHANGED <<lrRows, lrNext, lrRemoved, anchorCache, lrAsked, lrNow>>

EncodeCursor(i) == [at |-> lrRows[i].at, id |-> i]

\* mutant: the cursor compares the stamp without the id
AfterPage_TimeOnly(i, cursor) == cursor = NoCursor \/ lrRows[i].at > cursor.at

\* (created_at, id) > cursor; the cursor carries the stamp and the id of the page's last row
AfterPage(i, cursor) ==
    \/ cursor.at < lrRows[i].at
    \/ cursor.at = lrRows[i].at /\ cursor.id < i

\* rows of the snapshot, in order, one more than the page to know whether there are more
HandleList(r) ==
    LET q == reader[r].q
        rows == SortRows({i \in RowsOf(q.target) : /\ i <= reader[r].head /\ RowMatches(i, q)
                                                  /\ AfterPage(i, reader[r].cursor)})
        page == SubSeq(rows, 1, IF Len(rows) < PageLimit THEN Len(rows) ELSE PageLimit)
        hasMore == Len(rows) > PageLimit
    IN  /\ reader[r].pc = "checked" /\ q.route = "list"
        /\ LrGoto(r, IF hasMore
                     THEN [Told(reader[r], "headed", reader[r].got \o page)
                              EXCEPT !.cursor = EncodeCursor(page[Len(page)])]
                     ELSE Told(reader[r], "shown", reader[r].got \o page))
        /\ UNCHANGED <<lrRows, lrNext, lrRemoved, anchorCache, lrAsked, lrNow>>

\* makeRecordExistenceGuard fetched the row; it is the target's, inside the snapshot and, on the
\* control plane, of the subject
HandleGet(r) ==
    LET q == reader[r].q
        i == q.record
    IN  /\ reader[r].pc = "checked" /\ q.route = "get"
        /\ LrGoto(r, IF /\ i \in RowsOf(q.target) /\ i <= reader[r].head
                        /\ q.target = LrGovernor => RecordVisibleToScope(i, q)
                     THEN Told(reader[r], "shown", <<i>>) ELSE IdleReader)
        /\ UNCHANGED <<lrRows, lrNext, lrRemoved, anchorCache, lrAsked, lrNow>>

\* the stored hash is the hash of the payload and both signatures verify: not for a reservation
HashAndSignaturesValid(i) == lrRows[i].kind = "record"

HandleVerify(r) ==
    LET q == reader[r].q
        i == q.record
    IN  /\ reader[r].pc = "checked" /\ q.route = "verify"
        /\ LrGoto(r, IF /\ i \in RowsOf(q.target) /\ i <= reader[r].head
                        /\ q.target = LrGovernor => RecordVisibleToScope(i, q)
                     THEN Told(reader[r], IF HashAndSignaturesValid(i) THEN "valid" ELSE "invalid", <<i>>)
                     ELSE IdleReader)
        /\ UNCHANGED <<lrRows, lrNext, lrRemoved, anchorCache, lrAsked, lrNow>>

\* mutant: a page may begin with any record
LinksFrom_AnyGenesis(chain) ==
    \A k \in DOMAIN chain : (k > 1 => lrRows[chain[k]].prev = chain[k - 1]) /\ HashAndSignaturesValid(chain[k])

\* every record names its predecessor, the first one none
LinksFrom(chain) ==
    \A k \in DOMAIN chain :
        /\ lrRows[chain[k]].prev = IF k = 1 THEN 0 ELSE chain[k - 1]
        /\ HashAndSignaturesValid(chain[k])

SnapshotRows(k) == {i \in RowsOf(k.q.target) : i <= k.head}

\* business lane only; a first query refuses a start after the first record
ProbeGenesis(r) ==
    LET snapshot == SnapshotRows(reader[r])
        genesis == CHOOSE i \in snapshot : \A j \in snapshot : i <= j
    IN  /\ reader[r].pc = "checked" /\ reader[r].q.route = "chain"
        /\ LrGoto(r, IF \/ reader[r].q.target = LrGovernor
                        \/ snapshot # {} /\ lrRows[genesis].at < reader[r].start
                     THEN IdleReader ELSE [reader[r] EXCEPT !.pc = "probed"])
        /\ UNCHANGED <<lrRows, lrNext, lrRemoved, anchorCache, lrAsked, lrNow>>

\* the rows come with a query of their own, and are replayed
HandleChainVerify(r) ==
    LET chain == SortRows({i \in SnapshotRows(reader[r]) : lrRows[i].at >= reader[r].start})
    IN  /\ reader[r].pc = "probed"
        /\ LrGoto(r, [reader[r] EXCEPT !.pc = IF LinksFrom(chain) THEN "valid" ELSE "invalid"])
        /\ UNCHANGED <<lrRows, lrNext, lrRemoved, anchorCache, lrAsked, lrNow>>

\* the answer is sent; a database error ends a request at any of its queries
EndRequest(r) ==
    /\ reader[r].pc # "idle"
    /\ LrGoto(r, IdleReader)
    /\ UNCHANGED <<lrRows, lrNext, lrRemoved, anchorCache, lrAsked, lrNow>>

-----------------------------------------------------------------------------
LrNext ==
    \/ \E a \in LrAgents, at \in {lrNow, lrNow - 1} \cap Nat : AppendRecord(a, NoSubject, at)
    \/ \E s \in LrSubjects, at \in {lrNow, lrNow - 1} \cap Nat : AppendRecord(LrGovernor, s, at)
    \/ \E a \in LrAgents : InsertReservationRow(a)
    \/ \E i \in LrIds : CommitReservationRow(i) \/ RemoveRow(i)
    \/ LrTick
    \/ \E r \in LrReaders :
          \/ \E q \in LrQueries : \/ \E start \in 0..1 : LedgerHead(r, q, start)
                                  \/ SignedLedgerHead(r, q)
          \/ SelectMaxId(r) \/ CacheAnchor(r) \/ SelectHead(r) \/ Authorize(r)
          \/ HandleList(r) \/ HandleGet(r) \/ HandleVerify(r)
          \/ ProbeGenesis(r) \/ HandleChainVerify(r) \/ EndRequest(r)

LrSpec == LrInit /\ [][LrNext]_lrVars

-----------------------------------------------------------------------------
\* The pages read under one snapshot hold every row the snapshot held when its head was read
\* and that is still there, none of them twice and none past the head, although rows with equal
\* stamps span pages and rows are appended meanwhile (the cursor of /records).
PagesCoverTheSnapshot ==
    \A r \in LrReaders : (reader[r].pc = "shown" /\ reader[r].q.route = "list") =>
        LET got == reader[r].got
        IN  /\ \A i, j \in DOMAIN got : i # j => got[i] # got[j]
            /\ reader[r].known \ lrRemoved \subseteq {got[i] : i \in DOMAIN got}
            /\ \A i \in DOMAIN got : got[i] <= reader[r].head

\* Whatever route it came through, a row that was shown or judged belongs to an agent of the
\* requester, or to a subject within the requester's scope: its agent and, where the scope names
\* principals, its principal too (the two checkers, recordVisibleToScope, the list's filters).
RowsShownAreTheRequesters ==
    \A r \in LrReaders : \A k \in DOMAIN reader[r].got :
        LET row == lrRows[reader[r].got[k]]
            who == reader[r].q.requester
        IN  \/ reader[r].got[k] \in lrRemoved
            \/ row.owner \in LrAgents /\ LrPrincipalOf[row.owner] = who
            \/ /\ row.owner = LrGovernor /\ who \in DOMAIN LrScopes
               /\ row.subject.agent \in LrScopes[who].agents
               /\ LrScopes[who].anyPrincipal \/ row.subject.principal \in LrScopes[who].principals

\* Two signed heads for the same question, given while the anchor of one was alive, have the
\* same anchor, although both requests may have missed the cache (getOrCacheAnchor: "eliminating
\* head drift across retries").
HeadsDoNotDrift ==
    \A r, s \in LrReaders :
        ( /\ reader[r].anchored # NoAnchor /\ reader[s].anchored # NoAnchor
          /\ reader[r].q = reader[s].q
          /\ reader[r].at < reader[s].anchored.expires /\ reader[s].at < reader[r].anchored.expires )
        => reader[r].anchored.anchor = reader[s].anchored.anchor

\* A chain reported valid whose rows include the snapshot's head has lost none of the records it
\* had when the head was read, whatever was removed since, between the probe for the first record
\* and the SELECT of the rows too (/records/chain/verify).  Two limits are
\* needed: a head stamped before `start` is not among the rows that are verified, and a record
\* stamped before its predecessor is no row's predecessor, so nothing misses it.
ValidMeansNothingRemoved ==
    [][\A r \in LrReaders :
          (reader[r].inOrder /\ reader[r].pc = "probed" /\ reader'[r].pc = "valid"
             /\ reader[r].head \notin lrRemoved /\ lrRows[reader[r].head].at >= reader[r].start)
          => \A i \in reader[r].known : i \notin lrRemoved]_lrVars

=============================================================================
