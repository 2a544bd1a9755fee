-------------------------------- MODULE Sums --------------------------------
(***************************************************************************)
(* Sums over finite sets, for the proofs about totals: those of the        *)
(* cumulative limits (CumulativeTracker) and of the bridge's value         *)
(* counters (McpBridge).  A sum is the value at S of a function on the     *)
(* subsets of S that is defined by recursion; that there is one, and that  *)
(* it does not matter which element is taken first, is shown on a least    *)
(* counterexample.                                                         *)
(***************************************************************************)
EXTENDS Integers, FiniteSets, Functions, FiniteSetTheorems, WellFoundedInduction, TLAPS

\* A set of natural numbers has a least element.
LEMMA LeastNat ==
    ASSUME NEW T \in SUBSET Nat, T # {}
    PROVE  \E n \in T : \A m \in T : n <= m
<1> DEFINE R == {p \in Nat \X Nat : p[1] < p[2]}
<1>1. R = OpToRel(<, Nat)
  BY Zenon DEF OpToRel
<1>2. IsWellFoundedOn(R, Nat)
  BY <1>1, NatLessThanWellFounded, Zenon
<1> HIDE DEF R
<1>3. \E x \in T : \A y \in T : ~(<<y, x>> \in R)
  BY <1>2, WFMin, Zenon
<1>4. \A x, y \in Nat : y < x => <<y, x>> \in R
  BY DEF R
<1>5. PICK x \in T : \A y \in T : ~(<<y, x>> \in R)
  BY <1>3
<1>6. ASSUME NEW y \in T PROVE x <= y
  <2>1. x \in Nat /\ y \in Nat /\ ~(y < x)
    BY <1>4, <1>5
  <2> QED BY <2>1
<1> QED BY <1>6

One(s) == CHOOSE x \in s : TRUE
SumsBy(g, f, s) == IF s = {} THEN 0 ELSE f[One(s)] + g[s \ {One(s)}]
Partials(f, S) == CHOOSE g : g = [s \in SUBSET S |-> SumsBy(g, f, s)]

LEMMA SumUnfolds ==
    ASSUME NEW f, NEW S
    PROVE  SumFunctionOnSet(f, S) = Partials(f, S)[S]
BY DEF SumFunctionOnSet, FoldFunctionOnSet, MapThenFoldSet, Partials, SumsBy, One

LEMMA OneIn == ASSUME NEW s, s # {} PROVE One(s) \in s
BY DEF One

\* Taking an element away makes a finite set smaller.
LEMMA LessOne ==
    ASSUME NEW S, IsFiniteSet(S), NEW s \in SUBSET S, NEW x \in s
    PROVE  /\ IsFiniteSet(s) /\ Cardinality(s) \in Nat /\ Cardinality(s) > 0
           /\ s \ {x} \in SUBSET S /\ IsFiniteSet(s \ {x}) /\ Cardinality(s \ {x}) = Cardinality(s) - 1
<1>1. IsFiniteSet(s)
  BY FS_Subset
<1>2. Cardinality(s) \in Nat /\ Cardinality(s \ {x}) = Cardinality(s) - 1 /\ IsFiniteSet(s \ {x})
  BY <1>1, FS_CardinalityType, FS_RemoveElement
<1>3. Cardinality(s \ {x}) \in Nat
  BY <1>2, FS_CardinalityType
<1> QED BY <1>1, <1>2, <1>3

\* The partial sums.
LEMMA PartialSums ==
    ASSUME NEW f, NEW S, IsFiniteSet(S)
    PROVE  \A s \in SUBSET S : Partials(f, S)[s] = SumsBy(Partials(f, S), f, s)
<1> DEFINE D(n) == {s \in SUBSET S : Cardinality(s) <= n}
           Good(n) == \E g : g = [s \in D(n) |-> SumsBy(g, f, s)]
           T == {n \in Nat : ~Good(n)}
<1>1. ASSUME NEW n \in Nat, n = 0 \/ Good(n - 1) PROVE Good(n)
  <2> PICK g : n # 0 => g = [s \in D(n - 1) |-> SumsBy(g, f, s)]
    BY <1>1
  <2> DEFINE h == [s \in D(n) |-> SumsBy(g, f, s)]
  <2>1. ASSUME NEW s \in D(n) PROVE SumsBy(g, f, s) = SumsBy(h, f, s)
    <3>1. CASE s = {}
      BY <3>1 DEF SumsBy
    <3>2. CASE s # {}
      <4> DEFINE t == s \ {One(s)}
      <4>1. t \in SUBSET S /\ Cardinality(t) = Cardinality(s) - 1 /\ Cardinality(s) \in Nat /\ Cardinality(s) > 0
        BY <3>2, OneIn, LessOne
      <4>2. n # 0 /\ t \in D(n - 1) /\ t \in D(n)
        BY <4>1
      <4>3. g[t] = SumsBy(g, f, t)
        BY <4>2
      <4>4. h[t] = SumsBy(g, f, t)
        BY <4>2
      <4> HIDE DEF h
      <4> QED BY <3>2, <4>3, <4>4 DEF SumsBy
    <3> QED BY <3>1, <3>2
  <2>2. h = [s \in D(n) |-> SumsBy(h, f, s)]
    <3> DEFINE k == [s \in D(n) |-> SumsBy(h, f, s)]
    <3>1. \A s \in D(n) : h[s] = k[s]
      BY <2>1
    <3> QED BY <3>1
  <2> HIDE DEF h
  <2> QED BY <2>2
<1>2. T = {}
  <2> SUFFICES ASSUME T # {} PROVE FALSE
    OBVIOUS
  <2>1. PICK n \in T : \A m \in T : n <= m
    <3>1. T \in SUBSET Nat
      OBVIOUS
    <3> HIDE DEF T
    <3> QED BY <3>1, LeastNat, Zenon
  <2>2. n = 0 \/ Good(n - 1)
    <3> HIDE DEF Good
    <3> QED BY <2>1
  <2>3. n \in Nat /\ ~Good(n)
    <3> HIDE DEF Good
    <3> QED OBVIOUS
  <2> HIDE DEF Good, T
  <2> QED BY <1>1, <2>2, <2>3
<1>3. Cardinality(S) \in Nat
  BY FS_CardinalityType
<1>4. D(Cardinality(S)) = SUBSET S
  <2>1. \A s \in SUBSET S : Cardinality(s) <= Cardinality(S)
    BY FS_Subset
  <2> QED BY <2>1
<1>5. Good(Cardinality(S))
  <2> HIDE DEF Good
  <2>1. \A n \in Nat : Good(n)
    BY <1>2
  <2> QED BY <1>3, <2>1
<1>6. \E g : g = [s \in SUBSET S |-> SumsBy(g, f, s)]
  BY <1>4, <1>5
<1> DEFINE p == Partials(f, S)
<1>7. p = [s \in SUBSET S |-> SumsBy(p, f, s)]
  BY <1>6 DEF Partials
<1> HIDE DEF p
<1>8. \A s \in SUBSET S : p[s] = SumsBy(p, f, s)
  BY <1>7
<1> QED BY <1>8 DEF p

\* Sums of one function over a set and over a larger one begin alike; so do those of two functions
\* that agree.
LEMMA PartialsAgree ==
    ASSUME NEW f, NEW h, NEW S, IsFiniteSet(S), NEW T \in SUBSET S, \A x \in T : f[x] = h[x]
    PROVE  \A s \in SUBSET T : Partials(f, S)[s] = Partials(h, T)[s]
<1> DEFINE g == Partials(f, S)
           k == Partials(h, T)
           Bad == {n \in Nat : \E s \in SUBSET T : Cardinality(s) = n /\ g[s] # k[s]}
<1>1. IsFiniteSet(T)
  BY FS_Subset
<1>2. \A s \in SUBSET T : g[s] = SumsBy(g, f, s) /\ k[s] = SumsBy(k, h, s)
  BY <1>1, PartialSums
<1> HIDE DEF g, k
<1>3. Bad = {}
  <2> SUFFICES ASSUME Bad # {} PROVE FALSE
    OBVIOUS
  <2>1. PICK n \in Bad : \A m \in Bad : n <= m
    <3>1. Bad \in SUBSET Nat
      OBVIOUS
    <3> HIDE DEF Bad
    <3> QED BY <3>1, LeastNat, Zenon
  <2>2. PICK s \in SUBSET T : Cardinality(s) = n /\ g[s] # k[s]
    BY <2>1
  <2>3. s # {}
    BY <1>2, <2>2 DEF SumsBy
  <2> DEFINE t == s \ {One(s)}
  <2>4. One(s) \in s
    BY <2>3, OneIn
  <2>5. t \in SUBSET T /\ Cardinality(t) = Cardinality(s) - 1 /\ Cardinality(t) \in Nat
    BY <1>1, <2>4, LessOne, FS_CardinalityType
  <2>6. g[t] = k[t]
    BY <2>1, <2>2, <2>5
  <2>7. f[One(s)] = h[One(s)]
    BY <2>4
  <2> QED BY <1>2, <2>2, <2>3, <2>6, <2>7 DEF SumsBy
<1>4. ASSUME NEW s \in SUBSET T PROVE g[s] = k[s]
  <2>1. Cardinality(s) \in Nat
    BY <1>1, FS_Subset, FS_CardinalityType
  <2> QED BY <1>3, <2>1
<1> QED BY <1>4 DEF g, k

\* The sum of nothing.
LEMMA SumEmpty ==
    ASSUME NEW f
    PROVE  SumFunctionOnSet(f, {}) = 0
<1>1. IsFiniteSet({})
  BY FS_EmptySet
<1>2. Partials(f, {})[{}] = SumsBy(Partials(f, {}), f, {})
  BY <1>1, PartialSums
<1> QED BY <1>2, SumUnfolds DEF SumsBy

\* Functions that agree on a set have the same sum over it.
LEMMA SumAgrees ==
    ASSUME NEW S, IsFiniteSet(S), NEW f, NEW h, \A x \in S : f[x] = h[x]
    PROVE  SumFunctionOnSet(f, S) = SumFunctionOnSet(h, S)
<1>1. Partials(f, S)[S] = Partials(h, S)[S]
  BY PartialsAgree
<1> QED BY <1>1, SumUnfolds

\* A sum is a number.
LEMMA SumType ==
    ASSUME NEW S, IsFiniteSet(S), NEW f, \A x \in S : f[x] \in Nat
    PROVE  \A s \in SUBSET S : Partials(f, S)[s] \in Nat
<1> DEFINE g == Partials(f, S)
           Bad == {n \in Nat : \E s \in SUBSET S : Cardinality(s) = n /\ g[s] \notin Nat}
<1>2. \A s \in SUBSET S : g[s] = SumsBy(g, f, s)
  BY PartialSums
<1> HIDE DEF g
<1>3. Bad = {}
  <2> SUFFICES ASSUME Bad # {} PROVE FALSE
    OBVIOUS
  <2>1. PICK n \in Bad : \A m \in Bad : n <= m
    <3>1. Bad \in SUBSET Nat
      OBVIOUS
    <3> HIDE DEF Bad
    <3> QED BY <3>1, LeastNat, Zenon
  <2>2. PICK s \in SUBSET S : Cardinality(s) = n /\ g[s] \notin Nat
    BY <2>1
  <2>3. s # {}
    <3>1. SumsBy(g, f, {}) = 0 /\ 0 \in Nat
      BY DEF SumsBy
    <3>2. {} \in SUBSET S
      OBVIOUS
    <3>3. g[{}] \in Nat
      BY <1>2, <3>1, <3>2
    <3> QED BY <2>2, <3>3
  <2> DEFINE t == s \ {One(s)}
  <2>4. One(s) \in s
    BY <2>3, OneIn
  <2>5. t \in SUBSET S /\ Cardinality(t) = Cardinality(s) - 1 /\ Cardinality(t) \in Nat
    BY <2>4, LessOne, FS_CardinalityType
  <2>6. g[t] \in Nat
    BY <2>1, <2>2, <2>5
  <2>7. f[One(s)] \in Nat
    BY <2>4
  <2> QED BY <1>2, <2>2, <2>3, <2>6, <2>7 DEF SumsBy
<1>4. ASSUME NEW s \in SUBSET S PROVE g[s] \in Nat
  <2>1. Cardinality(s) \in Nat
    BY FS_Subset, FS_CardinalityType
  <2> QED BY <1>3, <2>1
<1> QED BY <1>4 DEF g

\* Any element may be taken first.
LEMMA SumTakesAny ==
    ASSUME NEW S, IsFiniteSet(S), NEW f, \A x \in S : f[x] \in Nat
    PROVE  \A s \in SUBSET S : \A x \in s : Partials(f, S)[s] = f[x] + Partials(f, S)[s \ {x}]
<1> DEFINE g == Partials(f, S)
           Bad == {n \in Nat : \E s \in SUBSET S : Cardinality(s) = n /\ \E x \in s : g[s] # f[x] + g[s \ {x}]}
<1>1. \A s \in SUBSET S : g[s] = SumsBy(g, f, s)
  BY PartialSums
<1>2. \A s \in SUBSET S : g[s] \in Nat
  BY SumType
<1> HIDE DEF g
<1>3. Bad = {}
  <2> SUFFICES ASSUME Bad # {} PROVE FALSE
    OBVIOUS
  <2>1. PICK n \in Bad : \A m \in Bad : n <= m
    <3>1. Bad \in SUBSET Nat
      OBVIOUS
    <3> HIDE DEF Bad
    <3> QED BY <3>1, LeastNat, Zenon
  <2>2. PICK s \in SUBSET S : Cardinality(s) = n /\ \E x \in s : g[s] # f[x] + g[s \ {x}]
    BY <2>1
  <2>3. PICK x \in s : g[s] # f[x] + g[s \ {x}]
    BY <2>2
  <2> DEFINE c == One(s)
             t == s \ {c}
             u == s \ {x}
             w == s \ {c, x}
  <2>4. c \in s /\ g[s] = f[c] + g[t]
    BY <1>1, OneIn DEF SumsBy
  <2>5. c # x
    BY <2>3, <2>4
  <2>6. /\ t \in SUBSET S /\ Cardinality(t) = n - 1 /\ Cardinality(t) \in Nat /\ x \in t /\ w = t \ {x}
        /\ u \in SUBSET S /\ Cardinality(u) = n - 1 /\ Cardinality(u) \in Nat /\ c \in u /\ w = u \ {c}
    BY <2>2, <2>4, <2>5, LessOne, FS_CardinalityType
  <2>7. n - 1 \notin Bad
    BY <2>1
  <2>8. n - 1 \in Nat
    BY <2>6
  <2>9. g[t] = f[x] + g[w] /\ g[u] = f[c] + g[w]
    <3>1. \A v \in SUBSET S : Cardinality(v) = n - 1 => \A y \in v : g[v] = f[y] + g[v \ {y}]
      BY <2>7, <2>8
    <3> HIDE DEF t, u, w, c, Bad
    <3>2. g[t] = f[x] + g[t \ {x}]
      BY <3>1, <2>6
    <3>3. g[u] = f[c] + g[u \ {c}]
      BY <3>1, <2>6
    <3>4. t \ {x} = w /\ u \ {c} = w
      BY <2>6
    <3> QED BY <3>2, <3>3, <3>4
  <2>10. f[x] \in Nat /\ f[c] \in Nat /\ g[w] \in Nat /\ w \in SUBSET S
    BY <1>2, <2>4, <2>6
  <2> QED BY <2>3, <2>4, <2>9, <2>10
<1>4. ASSUME NEW s \in SUBSET S, NEW x \in s PROVE g[s] = f[x] + g[s \ {x}]
  <2>1. Cardinality(s) \in Nat
    BY FS_Subset, FS_CardinalityType
  <2>2. \A n \in Nat : \A v \in SUBSET S : Cardinality(v) = n => \A y \in v : g[v] = f[y] + g[v \ {y}]
    BY <1>3
  <2> HIDE DEF Bad
  <2> QED BY <2>1, <2>2
<1> QED BY <1>4 DEF g

\* A sum over a finite set of numbers is one of them and the sum of the others.
LEMMA SumOne ==
    ASSUME NEW S, IsFiniteSet(S), NEW f, \A x \in S : f[x] \in Nat, NEW x \in S
    PROVE  /\ SumFunctionOnSet(f, S) \in Nat /\ SumFunctionOnSet(f, S \ {x}) \in Nat
           /\ SumFunctionOnSet(f, S) = f[x] + SumFunctionOnSet(f, S \ {x})
<1>1. Partials(f, S)[S] = f[x] + Partials(f, S)[S \ {x}]
  BY SumTakesAny
<1>2. Partials(f, S)[S \ {x}] = Partials(f, S \ {x})[S \ {x}]
  BY PartialsAgree
<1>3. Partials(f, S)[S \ {x}] \in Nat /\ Partials(f, S)[S] \in Nat
  BY SumType
<1> QED BY <1>1, <1>2, <1>3, SumUnfolds

LEMMA SumNat ==
    ASSUME NEW S, IsFiniteSet(S), NEW f, \A x \in S : f[x] \in Nat
    PROVE  SumFunctionOnSet(f, S) \in Nat
BY SumType, SumUnfolds

\* A sum over a part is no larger.
LEMMA SumSubset ==
    ASSUME NEW S, IsFiniteSet(S), NEW f, \A x \in S : f[x] \in Nat, NEW T \in SUBSET S
    PROVE  SumFunctionOnSet(f, T) <= SumFunctionOnSet(f, S)
<1>0. ASSUME NEW s \in SUBSET S, NEW x \in s
      PROVE  Partials(f, S)[s] = f[x] + Partials(f, S)[s \ {x}]
  BY SumTakesAny
<1> DEFINE g == Partials(f, S)
           Bad == {n \in Nat : \E s \in SUBSET S : Cardinality(s) = n /\ T \subseteq s /\ ~(g[T] <= g[s])}
<1>1. \A s \in SUBSET S : \A x \in s : g[s] = f[x] + g[s \ {x}]
  BY <1>0
<1>2. \A s \in SUBSET S : g[s] \in Nat
  BY SumType
<1>a. g[S] = SumFunctionOnSet(f, S) /\ g[T] = SumFunctionOnSet(f, T)
  <2>1. Partials(f, S)[T] = Partials(f, T)[T]
    BY PartialsAgree
  <2> QED BY <2>1, SumUnfolds
<1> HIDE DEF g
<1>3. Bad = {}
  <2> SUFFICES ASSUME Bad # {} PROVE FALSE
    OBVIOUS
  <2>1. PICK n \in Bad : \A m \in Bad : n <= m
    <3>1. Bad \in SUBSET Nat
      OBVIOUS
    <3> HIDE DEF Bad
    <3> QED BY <3>1, LeastNat, Zenon
  <2>2. PICK s \in SUBSET S : Cardinality(s) = n /\ T \subseteq s /\ ~(g[T] <= g[s])
    BY <2>1
  <2>3. s # T
    BY <1>2, <2>2
  <2>4. PICK x \in s : x \notin T
    BY <2>2, <2>3
  <2> DEFINE t == s \ {x}
  <2>5. t \in SUBSET S /\ Cardinality(t) = n - 1 /\ Cardinality(t) \in Nat /\ T \subseteq t
    BY <2>2, <2>4, LessOne, FS_CardinalityType
  <2>6. g[T] <= g[t]
    BY <2>1, <2>5
  <2>7. g[s] = f[x] + g[t] /\ f[x] \in Nat /\ g[t] \in Nat /\ g[T] \in Nat
    BY <1>1, <1>2, <2>4, <2>5
  <2> QED BY <2>2, <2>6, <2>7
<1>4. Cardinality(S) \in Nat
  BY FS_CardinalityType
<1> QED BY <1>3, <1>4, <1>a

\* A sum over a part of a set, of a function that agrees there, is no larger.
LEMMA SumLess ==
    ASSUME NEW S, IsFiniteSet(S), NEW f, \A x \in S : f[x] \in Nat,
           NEW T \in SUBSET S, NEW g, \A x \in T : g[x] = f[x]
    PROVE  SumFunctionOnSet(g, T) <= SumFunctionOnSet(f, S)
<1>1. IsFiniteSet(T)
  BY FS_Subset
<1>2. SumFunctionOnSet(g, T) = SumFunctionOnSet(f, T)
  BY <1>1, SumAgrees
<1> QED BY <1>2, SumSubset
=============================================================================
