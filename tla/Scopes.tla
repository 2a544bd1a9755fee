------------------------------- MODULE Scopes -------------------------------
(***************************************************************************)
(* The scopes of a capability token: what ScopeEvaluator lets a request do *)
(* under them (policy/src/guard/scope-evaluator.ts) and when               *)
(* validateAttenuation takes one list of capabilities for a narrowing of   *)
(* another (identity/src/token-issuer.ts).                                 *)
(*                                                                         *)
(* The day has MinutesPerDay minutes and the week DaysPerWeek days, so     *)
(* that a window can cross midnight in a small model.  A time zone is its  *)
(* offset in minutes.  An optional field is a set with at most one element.*)
(* A request names its action, a string field `target', a number `amount'  *)
(* (Absent when the field is missing), the amount `used' that the tracker  *)
(* has already counted for it, and the time it arrives.                    *)
(***************************************************************************)
EXTENDS Integers, FiniteSets

CONSTANTS MinutesPerDay, DaysPerWeek,
          MaxDelegationDepth     \* MAX_DELEGATION_DEPTH

ASSUME ScopesAssumption ==
    /\ MinutesPerDay \in Nat \ {0} /\ DaysPerWeek \in Nat \ {0}
    /\ MaxDelegationDepth \in Nat

Absent == -1
NoTarget == "none"

AllowlistScope(values) == [type |-> "allowlist", field |-> "target", values |-> values]
NumericLimitScope(max) == [type |-> "numeric_limit", field |-> "amount", max |-> max]
TemporalScope(nb, na, rw) ==
    [type |-> "temporal_scope", notBefore |-> nb, notAfter |-> na, recurringWindow |-> rw]
RecurringWindow(start, end, days, zone) ==
    [startTime |-> start, endTime |-> end, daysOfWeek |-> days, timezone |-> zone]
CumulativeLimitScope(source, metric, window, max, currency) ==
    [type |-> "cumulative_limit", source |-> source, metric |-> metric,
     window |-> window, max |-> max, currency |-> currency]

(* What the schema of a token lets through: a window starts and ends at a  *)
(* minute of the day, limits and times are numbers.                        *)
IsRecurringWindow(rw) ==
    /\ rw.startTime \in 0..(MinutesPerDay - 1) /\ rw.endTime \in 0..(MinutesPerDay - 1)
    /\ \A days, others \in rw.daysOfWeek : days = others
    /\ rw.timezone \in Int

IsScope(scope) ==
    \/ scope.type = "allowlist"
    \/ scope.type \in {"numeric_limit", "cumulative_limit"} /\ scope.max \in Int
    \/ /\ scope.type = "temporal_scope" /\ scope.notBefore \in Int /\ scope.notAfter \in Int
       /\ \A rw \in scope.recurringWindow : IsRecurringWindow(rw)
       /\ \A rw, others \in scope.recurringWindow : rw = others

-----------------------------------------------------------------------------
(* ScopeEvaluator *)

(* '*suffix' matches every value that ends in the suffix; here the suffix  *)
(* of a value is all of it but its first letter.                           *)
Suffix(v) == CASE v = "ax" -> "*x" [] v = "bx" -> "*x" [] OTHER -> "*y"
MatchAllowlistValue(actual, candidate) ==
    actual = candidate \/ candidate = Suffix(actual)

EvaluateAllowlist(scope, request) ==
    /\ scope.values # {}
    /\ request.target # NoTarget
    /\ \E candidate \in scope.values : MatchAllowlistValue(request.target, candidate)

(* A request without the field is not limited by it.                       *)
EvaluateNumericLimit(scope, request) ==
    request.amount = Absent \/ request.amount <= scope.max

LocalMinute(t, zone) == (t + zone) % MinutesPerDay
LocalDay(t, zone) == ((t + zone) \div MinutesPerDay) % DaysPerWeek

CrossesMidnight(rw) == rw.startTime > rw.endTime

InWindow(rw, minute) ==
    IF CrossesMidnight(rw) THEN minute >= rw.startTime \/ minute < rw.endTime
                           ELSE minute >= rw.startTime /\ minute < rw.endTime

(* After midnight a window that began the evening before counts for the    *)
(* day it began on.                                                        *)
EffectiveDay(rw, t) ==
    IF CrossesMidnight(rw) /\ LocalMinute(t, rw.timezone) < rw.endTime
    THEN (LocalDay(t, rw.timezone) + DaysPerWeek - 1) % DaysPerWeek
    ELSE LocalDay(t, rw.timezone)

EvaluateRecurringWindow(rw, t) ==
    /\ InWindow(rw, LocalMinute(t, rw.timezone))
    /\ \A days \in rw.daysOfWeek : EffectiveDay(rw, t) \in days

EvaluateTemporalScope(scope, t) ==
    /\ t >= scope.notBefore
    /\ t < scope.notAfter
    /\ \A rw \in scope.recurringWindow : EvaluateRecurringWindow(rw, t)

(* Only the ledger is a source of metered amounts; the reservation is      *)
(* taken when the amount used and the amount asked for fit the limit.      *)
EvaluateCumulativeLimit(scope, request) ==
    /\ scope.source = "action_record"
    /\ scope.metric = "count" \/ request.amount # Absent
    /\ LET asked == IF scope.metric = "count" THEN 1 ELSE request.amount
       IN  request.used + asked <= scope.max

Evaluate(scope, request) ==
    \/ scope.type = "allowlist" /\ EvaluateAllowlist(scope, request)
    \/ scope.type = "numeric_limit" /\ EvaluateNumericLimit(scope, request)
    \/ scope.type = "temporal_scope" /\ EvaluateTemporalScope(scope, request.at)
    \/ scope.type = "cumulative_limit" /\ EvaluateCumulativeLimit(scope, request)

(* RuntimeGuard and the orchestrator take the capabilities of the action,  *)
(* refuse when there is none, and evaluate all their scopes.               *)
Matching(capabilities, action) == {c \in capabilities : c.action = action}
Permits(capabilities, request) ==
    /\ Matching(capabilities, request.action) # {}
    /\ \A c \in Matching(capabilities, request.action) : Evaluate(c.scope, request)

TimeWindows(capabilities) ==
    UNION {c.scope.recurringWindow : c \in {d \in capabilities : d.scope.type = "temporal_scope"}}

(* A window of the parent ends after midnight and one of the child does    *)
(* not, so the early hours count for another day of the week.              *)
DayMoves(parent, child) ==
    \E p \in TimeWindows(parent), c \in TimeWindows(child) :
        p.daysOfWeek # {} /\ CrossesMidnight(p) /\ ~ CrossesMidnight(c)

-----------------------------------------------------------------------------
(* validateAttenuation *)

ScopeMatchKey(scope) ==
    CASE scope.type = "temporal_scope" -> <<scope.type>>
      [] scope.type = "cumulative_limit" -> <<scope.type, scope.metric, scope.window>>
      [] OTHER -> <<scope.type, scope.field>>

ExpandToMinuteSet(start, end) ==
    IF start <= end THEN start .. (end - 1)
                    ELSE (start .. (MinutesPerDay - 1)) \cup (0 .. (end - 1))

\* mutant: a window without days is within any window
IsWindowSubset_DaysOptional(child, parent) ==
    /\ child.timezone = parent.timezone
    /\ \A days \in parent.daysOfWeek :
          \A own \in child.daysOfWeek : own \subseteq days
    /\ ExpandToMinuteSet(child.startTime, child.endTime)
          \subseteq ExpandToMinuteSet(parent.startTime, parent.endTime)

IsWindowSubset(child, parent) ==
    /\ child.timezone = parent.timezone
    /\ \A days \in parent.daysOfWeek :
          /\ child.daysOfWeek # {}
          /\ \A own \in child.daysOfWeek : own \subseteq days
    /\ ExpandToMinuteSet(child.startTime, child.endTime)
          \subseteq ExpandToMinuteSet(parent.startTime, parent.endTime)

IsTemporalSubset(child, parent) ==
    /\ child.notBefore >= parent.notBefore
    /\ child.notAfter <= parent.notAfter
    /\ \A prw \in parent.recurringWindow :
          /\ child.recurringWindow # {}
          /\ \A crw \in child.recurringWindow : IsWindowSubset(crw, prw)

IsCumulativeSubset(child, parent) ==
    /\ child.source = parent.source
    /\ child.metric = parent.metric
    /\ child.max <= parent.max
    /\ child.window = parent.window
    /\ child.currency = parent.currency

IsScopeSubset(child, parent) ==
    /\ child.type = parent.type
    /\ CASE child.type = "allowlist" ->
              child.field = parent.field /\ child.values \subseteq parent.values
         [] child.type = "numeric_limit" ->
              child.field = parent.field /\ child.max <= parent.max
         [] child.type = "temporal_scope" -> IsTemporalSubset(child, parent)
         [] child.type = "cumulative_limit" -> IsCumulativeSubset(child, parent)

NoEmptyAllowlist(capabilities) ==
    \A c \in capabilities : c.scope.type = "allowlist" => c.scope.values # {}

NoDuplicateDimension(capabilities) ==
    \A c, d \in capabilities :
        c # d /\ c.action = d.action => ScopeMatchKey(c.scope) # ScopeMatchKey(d.scope)

\* mutant: only the dimensions the child names are compared
NarrowsDimensions_Own(parent, child) ==
    \A c \in child :
       \E p \in parent : /\ p.action = c.action
                         /\ ScopeMatchKey(p.scope) = ScopeMatchKey(c.scope)
                         /\ IsScopeSubset(c.scope, p.scope)

(* Every action of the child is an action of the parent; on it the child   *)
(* restricts the same dimensions, each at least as much.                   *)
NarrowsDimensions(parent, child) ==
    \A action \in {c.action : c \in child} :
       /\ \A p \in Matching(parent, action) :
             \E c \in Matching(child, action) :
                /\ ScopeMatchKey(c.scope) = ScopeMatchKey(p.scope)
                /\ IsScopeSubset(c.scope, p.scope)
       /\ \A c \in Matching(child, action) :
             \E p \in Matching(parent, action) :
                ScopeMatchKey(c.scope) = ScopeMatchKey(p.scope)

ValidateAttenuation(parent, child) ==
    /\ NoEmptyAllowlist(parent) /\ NoEmptyAllowlist(child)
    /\ NoDuplicateDimension(parent) /\ NoDuplicateDimension(child)
    /\ {c.action : c \in child} \subseteq {p.action : p \in parent}
    /\ NarrowsDimensions(parent, child)

-----------------------------------------------------------------------------
(* Narrowing, as one relation: it is transitive, and what the evaluator    *)
(* permits follows it.                                                     *)

\* A holder's capabilities against those of whoever granted them: on every action they name,
\* each scope of the grantor has one at least as narrow.
Narrows(child, parent) ==
    \A action \in {c.action : c \in child} :
       /\ Matching(parent, action) # {}
       /\ \A p \in Matching(parent, action) :
             \E c \in Matching(child, action) : IsScopeSubset(c.scope, p.scope)

WellScoped(capabilities) == \A c \in capabilities : IsScope(c.scope)

LEMMA MinuteIs == \A t, zone \in Int : LocalMinute(t, zone) \in 0..(MinutesPerDay - 1)
  BY ScopesAssumption DEF LocalMinute

\* The evaluator and the issuer read a window as the same minutes of the day.
LEMMA MinutesAgree ==
    ASSUME NEW rw, IsRecurringWindow(rw), NEW minute \in 0..(MinutesPerDay - 1)
    PROVE  InWindow(rw, minute) <=> minute \in ExpandToMinuteSet(rw.startTime, rw.endTime)
  BY ScopesAssumption DEF IsRecurringWindow, InWindow, CrossesMidnight, ExpandToMinuteSet

LEMMA WindowReflexive == ASSUME NEW w, IsRecurringWindow(w) PROVE IsWindowSubset(w, w)
  BY DEF IsRecurringWindow, IsWindowSubset

LEMMA WindowTransitive ==
    ASSUME NEW u, NEW v, NEW w, IsWindowSubset(u, v), IsWindowSubset(v, w)
    PROVE  IsWindowSubset(u, w)
<1>1. u.timezone = w.timezone
  BY DEF IsWindowSubset
<1>2. ASSUME NEW days \in w.daysOfWeek
      PROVE  u.daysOfWeek # {} /\ \A own \in u.daysOfWeek : own \subseteq days
  <2>1. PICK mid \in v.daysOfWeek : mid \subseteq days
    BY DEF IsWindowSubset
  <2> QED BY <2>1 DEF IsWindowSubset
<1>3. ExpandToMinuteSet(u.startTime, u.endTime) \subseteq ExpandToMinuteSet(w.startTime, w.endTime)
  BY DEF IsWindowSubset
<1> QED BY <1>1, <1>2, <1>3 DEF IsWindowSubset

LEMMA ScopeReflexive == ASSUME NEW s, IsScope(s) PROVE IsScopeSubset(s, s)
<1>1. CASE s.type = "allowlist"
  BY <1>1 DEF IsScopeSubset
<1>2. CASE s.type = "numeric_limit"
  BY <1>2 DEF IsScope, IsScopeSubset
<1>3. CASE s.type = "cumulative_limit"
  BY <1>3 DEF IsScope, IsScopeSubset, IsCumulativeSubset
<1>4. CASE s.type = "temporal_scope"
  <2>1. /\ s.notBefore \in Int /\ s.notAfter \in Int /\ \A rw \in s.recurringWindow : IsRecurringWindow(rw)
        /\ \A rw, others \in s.recurringWindow : rw = others
    BY <1>4 DEF IsScope
  <2>2. \A rw, others \in s.recurringWindow : IsWindowSubset(rw, others)
    BY <2>1, WindowReflexive
  <2>3. IsTemporalSubset(s, s)
    BY <2>1, <2>2 DEF IsTemporalSubset
  <2> QED BY <1>4, <2>3 DEF IsScopeSubset
<1> QED BY <1>1, <1>2, <1>3, <1>4 DEF IsScope

LEMMA ScopeTransitive ==
    ASSUME NEW s, NEW t, NEW u, IsScope(s), IsScope(t), IsScope(u), IsScopeSubset(s, t), IsScopeSubset(t, u)
    PROVE  IsScopeSubset(s, u)
<1>0. s.type = t.type /\ t.type = u.type
  BY DEF IsScopeSubset
<1>1. CASE s.type = "allowlist"
  BY <1>0, <1>1 DEF IsScopeSubset
<1>2. CASE s.type = "numeric_limit"
  BY <1>0, <1>2 DEF IsScope, IsScopeSubset
<1>3. CASE s.type = "cumulative_limit"
  BY <1>0, <1>3 DEF IsScope, IsScopeSubset, IsCumulativeSubset
<1>4. CASE s.type = "temporal_scope"
  <2>1. IsTemporalSubset(s, t) /\ IsTemporalSubset(t, u)
    BY <1>0, <1>4 DEF IsScopeSubset
  <2>2. /\ s.notBefore \in Int /\ t.notBefore \in Int /\ u.notBefore \in Int
        /\ s.notAfter \in Int /\ t.notAfter \in Int /\ u.notAfter \in Int
    BY <1>0, <1>4 DEF IsScope
  <2>3. s.notBefore >= u.notBefore /\ s.notAfter <= u.notAfter
    BY <2>1, <2>2 DEF IsTemporalSubset
  <2>4. ASSUME NEW prw \in u.recurringWindow
        PROVE  s.recurringWindow # {} /\ \A crw \in s.recurringWindow : IsWindowSubset(crw, prw)
    <3>1. PICK mid \in t.recurringWindow : IsWindowSubset(mid, prw)
      BY <2>1 DEF IsTemporalSubset
    <3>2. s.recurringWindow # {} /\ \A crw \in s.recurringWindow : IsWindowSubset(crw, mid)
      BY <2>1, <3>1 DEF IsTemporalSubset
    <3> QED BY <3>1, <3>2, WindowTransitive
  <2>5. IsTemporalSubset(s, u)
    BY <2>3, <2>4 DEF IsTemporalSubset
  <2> QED BY <1>0, <1>4, <2>5 DEF IsScopeSubset
<1> QED BY <1>1, <1>2, <1>3, <1>4 DEF IsScope

\* Of two windows across midnight the inner one has its early hours within those of the outer.
LEMMA EarlyHoursAgree ==
    ASSUME NEW c, NEW p, IsRecurringWindow(c), IsRecurringWindow(p), CrossesMidnight(c), CrossesMidnight(p),
           NEW minute \in 0..(MinutesPerDay - 1), minute \in ExpandToMinuteSet(c.startTime, c.endTime),
           ExpandToMinuteSet(c.startTime, c.endTime) \subseteq ExpandToMinuteSet(p.startTime, p.endTime)
    PROVE  minute < c.endTime <=> minute < p.endTime
<1>1. /\ c.startTime \in 0..(MinutesPerDay - 1) /\ c.endTime \in 0..(MinutesPerDay - 1) /\ c.startTime > c.endTime
      /\ p.startTime \in 0..(MinutesPerDay - 1) /\ p.endTime \in 0..(MinutesPerDay - 1) /\ p.startTime > p.endTime
      /\ MinutesPerDay \in Nat /\ minute \in Nat
  BY ScopesAssumption DEF IsRecurringWindow, CrossesMidnight
<1>2. /\ \A m \in 0..(MinutesPerDay - 1) :
            m \in ExpandToMinuteSet(c.startTime, c.endTime) <=> (m >= c.startTime \/ m < c.endTime)
      /\ \A m \in 0..(MinutesPerDay - 1) :
            m \in ExpandToMinuteSet(p.startTime, p.endTime) <=> (m >= p.startTime \/ m < p.endTime)
  BY <1>1 DEF ExpandToMinuteSet
<1>3. p.endTime \notin ExpandToMinuteSet(p.startTime, p.endTime)
  BY <1>1, <1>2
<1>4. ~(p.endTime >= c.startTime \/ p.endTime < c.endTime)
  BY <1>1, <1>2, <1>3
<1>5. minute >= c.startTime \/ minute < c.endTime
  BY <1>2
<1> QED BY <1>1, <1>4, <1>5, <1>2

\* A window across midnight with early hours is within no window of one day.
LEMMA LateWindowStaysLate ==
    ASSUME NEW c, NEW p, IsRecurringWindow(c), IsRecurringWindow(p), CrossesMidnight(c), ~CrossesMidnight(p),
           ExpandToMinuteSet(c.startTime, c.endTime) \subseteq ExpandToMinuteSet(p.startTime, p.endTime)
    PROVE  c.endTime = 0
<1>1. /\ c.startTime \in 0..(MinutesPerDay - 1) /\ c.endTime \in 0..(MinutesPerDay - 1) /\ c.startTime > c.endTime
      /\ p.startTime \in 0..(MinutesPerDay - 1) /\ p.endTime \in 0..(MinutesPerDay - 1) /\ p.startTime <= p.endTime
      /\ MinutesPerDay \in Nat
  BY ScopesAssumption DEF IsRecurringWindow, CrossesMidnight
<1>2. MinutesPerDay - 1 \in ExpandToMinuteSet(c.startTime, c.endTime)
  BY <1>1 DEF ExpandToMinuteSet
<1>3. MinutesPerDay - 1 \notin ExpandToMinuteSet(p.startTime, p.endTime)
  BY <1>1 DEF ExpandToMinuteSet
<1> QED BY <1>2, <1>3

\* What an inner window permits its outer one permits, unless only the outer one crosses midnight.
LEMMA WindowPermits ==
    ASSUME NEW c, NEW p, IsRecurringWindow(c), IsRecurringWindow(p), IsWindowSubset(c, p),
           p.daysOfWeek = {} \/ ~CrossesMidnight(p) \/ CrossesMidnight(c),
           NEW t \in Int, EvaluateRecurringWindow(c, t)
    PROVE  EvaluateRecurringWindow(p, t)
<1>1. PICK minute : minute = LocalMinute(t, c.timezone)
  OBVIOUS
<1>2. minute = LocalMinute(t, p.timezone) /\ minute \in 0..(MinutesPerDay - 1)
  BY <1>1, MinuteIs DEF IsWindowSubset, IsRecurringWindow
<1>3. minute \in ExpandToMinuteSet(c.startTime, c.endTime)
  BY <1>1, <1>2, MinutesAgree DEF EvaluateRecurringWindow
<1>4. ExpandToMinuteSet(c.startTime, c.endTime) \subseteq ExpandToMinuteSet(p.startTime, p.endTime)
  BY DEF IsWindowSubset
<1>5. InWindow(p, LocalMinute(t, p.timezone))
  BY <1>2, <1>3, <1>4, MinutesAgree
<1>6. ASSUME NEW days \in p.daysOfWeek PROVE EffectiveDay(p, t) \in days
  <2>1. PICK own \in c.daysOfWeek : own \subseteq days
    BY DEF IsWindowSubset
  <2>2. EffectiveDay(c, t) \in days
    BY <2>1 DEF EvaluateRecurringWindow
  <2>3. CrossesMidnight(c) /\ minute < c.endTime <=> CrossesMidnight(p) /\ minute < p.endTime
    <3>1. CASE CrossesMidnight(c) /\ CrossesMidnight(p)
      BY <3>1, <1>2, <1>3, <1>4, EarlyHoursAgree
    <3>2. CASE CrossesMidnight(c) /\ ~CrossesMidnight(p)
      <4>1. c.endTime = 0
        BY <3>2, <1>4, LateWindowStaysLate
      <4> QED BY <3>2, <4>1, <1>2, ScopesAssumption
    <3>3. CASE ~CrossesMidnight(c)
      BY <3>3, <1>6
    <3> QED BY <3>1, <3>2, <3>3
  <2>4. LocalDay(t, c.timezone) = LocalDay(t, p.timezone)
    BY DEF IsWindowSubset
  <2>5. EffectiveDay(c, t) = EffectiveDay(p, t)
    BY <2>3, <2>4, <1>1, <1>2 DEF EffectiveDay
  <2> QED BY <2>2, <2>5
<1> QED BY <1>5, <1>6 DEF EvaluateRecurringWindow

\* What a narrower scope permits the wider one permits.
LEMMA ScopePermits ==
    ASSUME NEW c, NEW p, IsScope(c), IsScope(p), IsScopeSubset(c, p),
           NEW r, r.amount \in Int, r.used \in Int, r.at \in Int, Evaluate(c, r),
           c.type = "temporal_scope" =>
             \A crw \in c.recurringWindow, prw \in p.recurringWindow :
                prw.daysOfWeek = {} \/ ~CrossesMidnight(prw) \/ CrossesMidnight(crw)
    PROVE  Evaluate(p, r)
<1>0. c.type = p.type
  BY DEF IsScopeSubset
<1>1. CASE c.type = "allowlist"
  <2>1. c.values \subseteq p.values /\ EvaluateAllowlist(c, r)
    BY <1>1 DEF IsScopeSubset, Evaluate
  <2>2. EvaluateAllowlist(p, r)
    BY <2>1 DEF EvaluateAllowlist
  <2> QED BY <1>0, <1>1, <2>2 DEF Evaluate
<1>2. CASE c.type = "numeric_limit"
  <2>1. c.max <= p.max /\ c.max \in Int /\ p.max \in Int /\ EvaluateNumericLimit(c, r)
    BY <1>0, <1>2 DEF IsScope, IsScopeSubset, Evaluate
  <2>2. EvaluateNumericLimit(p, r)
    BY <2>1 DEF EvaluateNumericLimit
  <2> QED BY <1>0, <1>2, <2>2 DEF Evaluate
<1>3. CASE c.type = "cumulative_limit"
  <2>1. /\ c.max <= p.max /\ c.max \in Int /\ p.max \in Int /\ EvaluateCumulativeLimit(c, r)
        /\ c.source = p.source /\ c.metric = p.metric
    BY <1>0, <1>3 DEF IsScope, IsScopeSubset, IsCumulativeSubset, Evaluate
  <2>2. EvaluateCumulativeLimit(p, r)
    BY <2>1 DEF EvaluateCumulativeLimit
  <2> QED BY <1>0, <1>3, <2>2 DEF Evaluate
<1>4. CASE c.type = "temporal_scope"
  <2>1. IsTemporalSubset(c, p) /\ EvaluateTemporalScope(c, r.at)
    BY <1>0, <1>4 DEF IsScopeSubset, Evaluate
  <2>2. /\ c.notBefore \in Int /\ p.notBefore \in Int /\ c.notAfter \in Int /\ p.notAfter \in Int
        /\ \A rw \in c.recurringWindow : IsRecurringWindow(rw)
        /\ \A rw \in p.recurringWindow : IsRecurringWindow(rw)
    BY <1>0, <1>4 DEF IsScope
  <2>3. r.at >= p.notBefore /\ r.at < p.notAfter
    BY <2>1, <2>2 DEF IsTemporalSubset, EvaluateTemporalScope
  <2>4. ASSUME NEW prw \in p.recurringWindow PROVE EvaluateRecurringWindow(prw, r.at)
    <3>1. PICK crw \in c.recurringWindow : IsWindowSubset(crw, prw)
      BY <2>1 DEF IsTemporalSubset
    <3>2. EvaluateRecurringWindow(crw, r.at)
      BY <2>1, <3>1 DEF EvaluateTemporalScope
    <3> QED BY <1>4, <2>2, <3>1, <3>2, WindowPermits
  <2>5. EvaluateTemporalScope(p, r.at)
    BY <2>3, <2>4 DEF EvaluateTemporalScope
  <2> QED BY <1>0, <1>4, <2>5 DEF Evaluate
<1> QED BY <1>1, <1>2, <1>3, <1>4 DEF IsScope

LEMMA NarrowsItself == ASSUME NEW g, WellScoped(g) PROVE Narrows(g, g)
  BY ScopeReflexive DEF Narrows, WellScoped, Matching

\* What validateAttenuation takes for a narrowing is one, and narrowings compose.
LEMMA NarrowsOnwards ==
    ASSUME NEW root, NEW leaf, NEW next, WellScoped(root), WellScoped(leaf), WellScoped(next),
           Narrows(leaf, root), ValidateAttenuation(leaf, next)
    PROVE  Narrows(next, root)
<1> SUFFICES ASSUME NEW action \in {c.action : c \in next}
             PROVE  /\ Matching(root, action) # {}
                    /\ \A p \in Matching(root, action) :
                          \E c \in Matching(next, action) : IsScopeSubset(c.scope, p.scope)
  BY DEF Narrows
<1>1. action \in {c.action : c \in leaf}
  BY DEF ValidateAttenuation
<1>2. \A m \in Matching(leaf, action) : \E c \in Matching(next, action) : IsScopeSubset(c.scope, m.scope)
  BY DEF ValidateAttenuation, NarrowsDimensions
<1>3. Matching(root, action) # {}
  BY <1>1 DEF Narrows
<1>4. ASSUME NEW p \in Matching(root, action)
      PROVE  \E c \in Matching(next, action) : IsScopeSubset(c.scope, p.scope)
  <2>1. PICK m \in Matching(leaf, action) : IsScopeSubset(m.scope, p.scope)
    BY <1>1 DEF Narrows
  <2>2. PICK c \in Matching(next, action) : IsScopeSubset(c.scope, m.scope)
    BY <1>2
  <2>3. IsScope(c.scope) /\ IsScope(m.scope) /\ IsScope(p.scope)
    BY DEF WellScoped, Matching
  <2> QED BY <2>1, <2>2, <2>3, ScopeTransitive
<1> QED BY <1>3, <1>4

\* What narrower capabilities permit the wider ones permit, unless a day moves.
LEMMA NarrowerPermits ==
    ASSUME NEW root, NEW leaf, WellScoped(root), WellScoped(leaf), Narrows(leaf, root), ~DayMoves(root, leaf),
           NEW r, r.amount \in Int, r.used \in Int, r.at \in Int, Permits(leaf, r)
    PROVE  Permits(root, r)
<1>2. PICK a : a = r.action
  OBVIOUS
<1>3. a \in {c.action : c \in leaf}
  BY <1>2 DEF Permits, Matching
<1>4. Matching(root, a) # {}
  BY <1>3 DEF Narrows
<1>5. ASSUME NEW p \in Matching(root, a) PROVE Evaluate(p.scope, r)
  <2>1. PICK c \in Matching(leaf, a) : IsScopeSubset(c.scope, p.scope)
    BY <1>3 DEF Narrows
  <2>2. IsScope(c.scope) /\ IsScope(p.scope) /\ c \in leaf /\ p \in root
    BY DEF WellScoped, Matching
  <2>3. Evaluate(c.scope, r)
    BY <1>2 DEF Permits
  <2>4. ASSUME c.scope.type = "temporal_scope", NEW crw \in c.scope.recurringWindow, NEW prw \in p.scope.recurringWindow
        PROVE  prw.daysOfWeek = {} \/ ~CrossesMidnight(prw) \/ CrossesMidnight(crw)
    <3>1. p.scope.type = "temporal_scope"
      BY <2>1, <2>4 DEF IsScopeSubset
    <3>2. crw \in TimeWindows(leaf) /\ prw \in TimeWindows(root)
      BY <2>2, <2>4, <3>1 DEF TimeWindows
    <3> QED BY <3>2 DEF DayMoves
  <2> QED BY <2>1, <2>2, <2>3, <2>4, ScopePermits
<1> QED BY <1>2, <1>4, <1>5 DEF Permits

\* So does what one check of validateAttenuation took for a narrowing.
LEMMA AttenuatedPermits ==
    ASSUME NEW parent, NEW child, WellScoped(parent), WellScoped(child), ValidateAttenuation(parent, child),
           ~DayMoves(parent, child), NEW r, r.amount \in Int, r.used \in Int, r.at \in Int, Permits(child, r)
    PROVE  Permits(parent, r)
  BY NarrowsItself, NarrowsOnwards, NarrowerPermits
=============================================================================
