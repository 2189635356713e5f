----------------------- MODULE MarketAssessmentProofs -----------------------
(* Proofs about MarketAssessment: a scan makes and pays no more calls than    *)
(* its plan, what it publishes claims and ranks no more than its evidence,    *)
(* the trace of a score adds up to it, stale archetypes do not move it, and   *)
(* an assessed market names where its figures came from.  That evidence which *)
(* lacks a group ranks no higher for it is in WithheldEvidenceProofs.         *)
(*                                                                           *)
(* The module begins with what the operators of the model compute: sums over  *)
(* finite sets, ranks and rounding.  The library's induction theorems take an *)
(* operator; SetInduction and SubsetInduction are stated with sets instead.   *)
EXTENDS MarketAssessment, FiniteSetTheorems, SequenceTheorems, WellFoundedInduction, TLAPS

---------------------------------------------------------------------------
(* Sums                                                                      *)

\* A set of naturals with 0 and the successor of each of its members is Nat
LEMMA SetInduction ==
  ASSUME NEW A, 0 \in A, \A n \in Nat : n \in A => n + 1 \in A
  PROVE  \A n \in Nat : n \in A
<1> DEFINE D == {n \in Nat : n \notin A}
           R == {ss \in Nat \X Nat : ss[1] < ss[2]}
<1>1. SUFFICES ASSUME D # {} PROVE FALSE
  OBVIOUS
<1>2. IsWellFoundedOn(R, Nat)
  BY NatLessThanWellFounded DEF OpToRel
<1>3. \E x \in D : \A y \in D : ~(<<y, x>> \in R)
  <2> HIDE DEF R, D
  <2> QED BY <1>1, <1>2, WFMin DEF D
<1>4. PICK x \in D : \A y \in D : ~(y < x)
  BY <1>3
<1>5. x # 0 /\ x - 1 \in Nat /\ x - 1 \notin D
  BY <1>4
<1> QED
  BY <1>5, <1>4

\* A family of subsets of a finite set that has every set of which it has all the
\* sets with one element less has the set itself
LEMMA SubsetInduction ==
  ASSUME NEW S, IsFiniteSet(S), NEW P,
         \A s \in SUBSET S : (\A x \in s : s \ {x} \in P) => s \in P
  PROVE  S \in P
<1> DEFINE A == {n \in Nat : \A s \in SUBSET S : Cardinality(s) = n => s \in P}
<1>1. 0 \in A
  <2>1. \A s \in SUBSET S : Cardinality(s) = 0 => s = {}
    BY FS_Subset, FS_EmptySet
  <2> QED BY <2>1
<1>2. \A n \in Nat : n \in A => n + 1 \in A
  <2>1. SUFFICES ASSUME NEW n \in Nat, n \in A, NEW s \in SUBSET S, Cardinality(s) = n + 1
                 PROVE  \A x \in s : s \ {x} \in P
    OBVIOUS
  <2>2. IsFiniteSet(s)
    BY <2>1, FS_Subset
  <2>3. \A x \in s : Cardinality(s \ {x}) = Cardinality(s) - 1
    BY <2>2, FS_RemoveElement
  <2> QED BY <2>1, <2>3
<1>3. \A n \in Nat : n \in A
  <2> HIDE DEF A
  <2> QED BY <1>1, <1>2, SetInduction
<1> QED BY <1>3, FS_CardinalityType

\* The recursion of SumFunctionOnSet, on the sets of at most n elements
Sums(f, S, n, g) ==
    g = [s \in {t \in SUBSET S : Cardinality(t) <= n} |->
            IF s = {} THEN 0
            ELSE f[CHOOSE x \in s : TRUE] + g[s \ {CHOOSE x \in s : TRUE}]]

LEMMA IterExists ==
  ASSUME NEW f, NEW S, IsFiniteSet(S)
  PROVE  \E g : Sums(f, S, Cardinality(S), g)
<1> DEFINE c(s) == CHOOSE x \in s : TRUE
           D(n) == {s \in SUBSET S : Cardinality(s) <= n}
           A == {n \in Nat : \E g : Sums(f, S, n, g)}
<1>0. \A s \in SUBSET S : IsFiniteSet(s) /\ Cardinality(s) \in Nat /\ (Cardinality(s) = 0 <=> s = {})
  BY FS_Subset, FS_EmptySet, FS_CardinalityType
<1>1. 0 \in A
  <2> DEFINE g == [s \in D(0) |-> 0]
  <2>1. \A s \in D(0) : s = {}
    BY <1>0
  <2>2. Sums(f, S, 0, g)
    BY <2>1 DEF Sums
  <2> HIDE DEF g
  <2> QED BY <2>2
<1>2. \A n \in Nat : n \in A => n + 1 \in A
  <2>1. SUFFICES ASSUME NEW n \in Nat, n \in A
                 PROVE  n + 1 \in A
    OBVIOUS
  <2>2. PICK g : Sums(f, S, n, g)
    BY <2>1
  <2> DEFINE h == [s \in D(n + 1) |-> IF s = {} THEN 0 ELSE f[c(s)] + g[s \ {c(s)}]]
  <2>3. \A s \in D(n + 1) : s # {} => s \ {c(s)} \in D(n)
    <3>1. SUFFICES ASSUME NEW s \in D(n + 1), s # {} PROVE s \ {c(s)} \in D(n)
      OBVIOUS
    <3>2. c(s) \in s
      BY <3>1
    <3>3. Cardinality(s \ {c(s)}) = Cardinality(s) - 1
      <4> HIDE DEF c
      <4> QED BY <3>2, <1>0, FS_RemoveElement
    <3> QED BY <3>3, <1>0
  <2>4. \A s \in D(n) : s \in D(n + 1)
    BY <1>0
  <2>5. \A s \in D(n) : g[s] = h[s]
    BY <2>2, <2>4 DEF Sums
  <2>6. h = [s \in D(n + 1) |-> IF s = {} THEN 0 ELSE f[c(s)] + h[s \ {c(s)}]]
    <3> HIDE DEF D, c
    <3> SUFFICES ASSUME NEW s \in D(n + 1)
                 PROVE  h[s] = IF s = {} THEN 0 ELSE f[c(s)] + h[s \ {c(s)}]
      BY Zenon
    <3> QED BY <2>3, <2>5
  <2>7. Sums(f, S, n + 1, h)
    BY <2>6 DEF Sums
  <2> HIDE DEF h
  <2> QED BY <2>7
<1>3. \A n \in Nat : n \in A
  <2> HIDE DEF A
  <2> QED BY <1>1, <1>2, SetInduction
<1> QED BY <1>3, <1>0

\* The function that a sum over S is computed with
Iterates(f, S, g) ==
    \A s \in SUBSET S : g[s] =
        IF s = {} THEN 0 ELSE f[CHOOSE x \in s : TRUE] + g[s \ {CHOOSE x \in s : TRUE}]

LEMMA SumIter ==
  ASSUME NEW f, NEW S, IsFiniteSet(S)
  PROVE  \E g : SumFunctionOnSet(f, S) = g[S] /\ Iterates(f, S, g)
<1> DEFINE g == CHOOSE g : g = [s \in SUBSET S |->
                IF s = {} THEN 0
                ELSE f[CHOOSE x \in s : TRUE] + g[s \ {CHOOSE x \in s : TRUE}]]
<1>1. g = [s \in SUBSET S |->
                IF s = {} THEN 0
                ELSE f[CHOOSE x \in s : TRUE] + g[s \ {CHOOSE x \in s : TRUE}]]
  <2>1. {t \in SUBSET S : Cardinality(t) <= Cardinality(S)} = SUBSET S
    BY FS_Subset
  <2>2. PICK h : Sums(f, S, Cardinality(S), h)
    BY IterExists
  <2>3. h = [s \in SUBSET S |->
                IF s = {} THEN 0
                ELSE f[CHOOSE x \in s : TRUE] + h[s \ {CHOOSE x \in s : TRUE}]]
    BY <2>1, <2>2 DEF Sums
  <2> QED BY <2>3, Zenon
<1>2. SumFunctionOnSet(f, S) = g[S]
  BY DEF SumFunctionOnSet, FoldFunctionOnSet, MapThenFoldSet
<1> HIDE DEF g
<1> QED BY <1>1, <1>2 DEF Iterates

LEMMA SumEmpty ==
  ASSUME NEW f
  PROVE  SumFunctionOnSet(f, {}) = 0
BY SumIter, FS_EmptySet DEF Iterates

\* Any element may be added first
LEMMA IterInt ==
  ASSUME NEW f, NEW S, IsFiniteSet(S), \A x \in S : f[x] \in Int,
         NEW g, Iterates(f, S, g)
  PROVE  \A s \in SUBSET S : g[s] \in Int
<1> SUFFICES ASSUME NEW T \in SUBSET S PROVE g[T] \in Int
  OBVIOUS
<1> DEFINE P == {s \in SUBSET S : g[s] \in Int}
<1>1. ASSUME NEW s \in SUBSET T, \A x \in s : s \ {x} \in P
      PROVE  s \in P
  <2>0. s \in SUBSET S
    OBVIOUS
  <2>1. CASE s = {}
    <3>1. g[s] = 0
      BY <2>0, <2>1 DEF Iterates
    <3> QED BY <2>0, <3>1
  <2>2. CASE s # {}
    <3>1. PICK c \in s : g[s] = f[c] + g[s \ {c}]
      BY <2>0, <2>2 DEF Iterates
    <3>2. g[s \ {c}] \in Int
      BY <1>1
    <3>3. f[c] \in Int
      OBVIOUS
    <3> QED BY <3>1, <3>2, <3>3
  <2> QED BY <2>1, <2>2
<1>2. T \in P
  <2> HIDE DEF P
  <2> QED BY <1>1, SubsetInduction, FS_Subset
<1> QED BY <1>2

LEMMA IterAny ==
  ASSUME NEW f, NEW S, IsFiniteSet(S), \A x \in S : f[x] \in Int,
         NEW g, Iterates(f, S, g)
  PROVE  \A x \in S : g[S] = f[x] + g[S \ {x}]
<1> DEFINE P == {s \in SUBSET S : \A x \in s : g[s] = f[x] + g[s \ {x}]}
<1>0. \A s \in SUBSET S : g[s] \in Int
  BY IterInt
<1>1. ASSUME NEW s \in SUBSET S, \A x \in s : s \ {x} \in P
      PROVE  s \in P
  <2>1. CASE s = {}
    BY <2>1
  <2>2. CASE s # {}
    <3>1. PICK c \in s : g[s] = f[c] + g[s \ {c}]
      BY <2>2 DEF Iterates
    <3>3. ASSUME NEW x \in s, x # c
          PROVE  g[s] = f[x] + g[s \ {x}]
      <4> DEFINE r == (s \ {c}) \ {x}
      <4>1. g[s \ {c}] = f[x] + g[r]
        BY <1>1, <3>3
      <4>2. g[s \ {x}] = f[c] + g[(s \ {x}) \ {c}]
        BY <1>1, <3>3
      <4>3. (s \ {x}) \ {c} = r
        OBVIOUS
      <4>4. g[r] \in Int /\ f[c] \in Int /\ f[x] \in Int
        <5>1. r \in SUBSET S
          OBVIOUS
        <5> QED BY <5>1, <1>0
      <4> HIDE DEF r
      <4>5. g[s \ {x}] = f[c] + g[r]
        BY <4>2, <4>3
      <4>6. g[s] = f[c] + (f[x] + g[r])
        BY <3>1, <4>1
      <4>7. f[c] + (f[x] + g[r]) = f[x] + (f[c] + g[r])
        BY <4>4
      <4> QED BY <4>5, <4>6, <4>7
    <3> QED BY <3>1, <3>3
  <2> QED BY <2>1, <2>2
<1>2. S \in P
  <2> HIDE DEF P
  <2> QED BY <1>1, SubsetInduction
<1> QED BY <1>2

\* The sum over a set: one element at a time, and nothing but its elements
LEMMA SumStep ==
  ASSUME NEW f, NEW S, IsFiniteSet(S), \A x \in S : f[x] \in Int
  PROVE  /\ SumFunctionOnSet(f, S) \in Int
         /\ \A x \in S : SumFunctionOnSet(f, S) = f[x] + SumFunctionOnSet(f, S \ {x})
<1>1. PICK g : SumFunctionOnSet(f, S) = g[S] /\ Iterates(f, S, g)
  BY SumIter
<1>2. g[S] \in Int
  BY <1>1, IterInt
<1>3. ASSUME NEW x \in S
      PROVE  g[S \ {x}] = SumFunctionOnSet(f, S \ {x})
  <2> DEFINE T == S \ {x}
  <2>1. IsFiniteSet(T)
    BY FS_Subset
  <2> HIDE DEF T
  <2>2. PICK h : SumFunctionOnSet(f, T) = h[T] /\ Iterates(f, T, h)
    BY <2>1, SumIter
  <2> DEFINE P == {s \in SUBSET T : g[s] = h[s]}
  <2>3. ASSUME NEW s \in SUBSET T, \A y \in s : s \ {y} \in P
        PROVE  s \in P
    <3>1. s \in SUBSET S
      BY DEF T
    <3>2. CASE s = {}
      BY <3>1, <3>2, <1>1, <2>2 DEF Iterates
    <3>3. CASE s # {}
      <4>1. PICK c \in s : g[s] = f[c] + g[s \ {c}] /\ h[s] = f[c] + h[s \ {c}]
        BY <3>1, <3>3, <1>1, <2>2 DEF Iterates
      <4> QED BY <4>1, <2>3
    <3> QED BY <3>2, <3>3
  <2>4. T \in P
    <3> HIDE DEF P
    <3> QED BY <2>1, <2>3, SubsetInduction
  <2> QED BY <2>2, <2>4 DEF T
<1>4. \A x \in S : g[S] = f[x] + g[S \ {x}]
  BY <1>1, IterAny
<1> QED BY <1>1, <1>2, <1>3, <1>4

LEMMA SumAdd ==
  ASSUME NEW f, NEW S, IsFiniteSet(S), NEW x, x \notin S,
         f[x] \in Int, \A y \in S : f[y] \in Int
  PROVE  SumFunctionOnSet(f, S \cup {x}) = f[x] + SumFunctionOnSet(f, S)
<1>1. IsFiniteSet(S \cup {x})
  BY FS_AddElement
<1>2. (S \cup {x}) \ {x} = S
  OBVIOUS
<1> QED BY <1>1, <1>2, SumStep

\* Sums of functions that are equal, smaller, added up or multiplied pointwise
LEMMA SumEqual ==
  ASSUME NEW f, NEW h, NEW S, IsFiniteSet(S),
         \A x \in S : f[x] \in Int /\ f[x] = h[x]
  PROVE  SumFunctionOnSet(f, S) = SumFunctionOnSet(h, S)
<1> DEFINE P == {s \in SUBSET S : SumFunctionOnSet(f, s) = SumFunctionOnSet(h, s)}
<1>1. ASSUME NEW s \in SUBSET S, \A x \in s : s \ {x} \in P
      PROVE  s \in P
  <2>1. IsFiniteSet(s)
    BY FS_Subset
  <2>2. CASE s = {}
    BY <2>2, SumEmpty
  <2>3. ASSUME NEW x \in s PROVE s \in P
    <3>1. SumFunctionOnSet(f, s) = f[x] + SumFunctionOnSet(f, s \ {x})
      BY <2>1, SumStep
    <3>2. SumFunctionOnSet(h, s) = h[x] + SumFunctionOnSet(h, s \ {x})
      BY <2>1, SumStep
    <3> QED BY <1>1, <3>1, <3>2
  <2> QED BY <2>2, <2>3
<1>2. S \in P
  <2> HIDE DEF P
  <2> QED BY <1>1, SubsetInduction
<1> QED BY <1>2

LEMMA SumMono ==
  ASSUME NEW f, NEW h, NEW S, IsFiniteSet(S),
         \A x \in S : f[x] \in Int /\ h[x] \in Int /\ f[x] <= h[x]
  PROVE  SumFunctionOnSet(f, S) <= SumFunctionOnSet(h, S)
<1> DEFINE P == {s \in SUBSET S : SumFunctionOnSet(f, s) <= SumFunctionOnSet(h, s)}
<1>1. ASSUME NEW s \in SUBSET S, \A x \in s : s \ {x} \in P
      PROVE  s \in P
  <2>1. IsFiniteSet(s) /\ \A x \in s : IsFiniteSet(s \ {x})
    BY FS_Subset
  <2>2. CASE s = {}
    BY <2>2, SumEmpty
  <2>3. ASSUME NEW x \in s PROVE s \in P
    <3>1. SumFunctionOnSet(f, s) = f[x] + SumFunctionOnSet(f, s \ {x})
      BY <2>1, SumStep
    <3>2. SumFunctionOnSet(h, s) = h[x] + SumFunctionOnSet(h, s \ {x})
      BY <2>1, SumStep
    <3>3. SumFunctionOnSet(f, s \ {x}) \in Int /\ SumFunctionOnSet(h, s \ {x}) \in Int
      BY <2>1, SumStep
    <3>4. SumFunctionOnSet(f, s \ {x}) <= SumFunctionOnSet(h, s \ {x})
      BY <1>1
    <3>5. f[x] \in Int /\ h[x] \in Int /\ f[x] <= h[x]
      OBVIOUS
    <3> QED BY <3>1, <3>2, <3>3, <3>4, <3>5
  <2> QED BY <2>2, <2>3
<1>2. S \in P
  <2> HIDE DEF P
  <2> QED BY <1>1, SubsetInduction
<1> QED BY <1>2

LEMMA SumPlus ==
  ASSUME NEW f, NEW h, NEW k, NEW S, IsFiniteSet(S),
         \A x \in S : f[x] \in Int /\ h[x] \in Int /\ k[x] = f[x] + h[x]
  PROVE  SumFunctionOnSet(k, S) = SumFunctionOnSet(f, S) + SumFunctionOnSet(h, S)
<1> DEFINE P == {s \in SUBSET S :
                   SumFunctionOnSet(k, s) = SumFunctionOnSet(f, s) + SumFunctionOnSet(h, s)}
<1>0. \A x \in S : k[x] \in Int
  OBVIOUS
<1>1. ASSUME NEW s \in SUBSET S, \A x \in s : s \ {x} \in P
      PROVE  s \in P
  <2>1. IsFiniteSet(s) /\ \A x \in s : IsFiniteSet(s \ {x})
    BY FS_Subset
  <2>2. CASE s = {}
    BY <2>2, SumEmpty
  <2>3. ASSUME NEW x \in s PROVE s \in P
    <3>1. SumFunctionOnSet(f, s) = f[x] + SumFunctionOnSet(f, s \ {x})
      BY <2>1, SumStep
    <3>2. SumFunctionOnSet(h, s) = h[x] + SumFunctionOnSet(h, s \ {x})
      BY <2>1, SumStep
    <3>6. SumFunctionOnSet(k, s) = k[x] + SumFunctionOnSet(k, s \ {x})
      BY <2>1, <1>0, SumStep
    <3>3. SumFunctionOnSet(f, s \ {x}) \in Int /\ SumFunctionOnSet(h, s \ {x}) \in Int
      BY <2>1, SumStep
    <3>4. SumFunctionOnSet(k, s \ {x}) =
             SumFunctionOnSet(f, s \ {x}) + SumFunctionOnSet(h, s \ {x})
      BY <1>1
    <3>5. f[x] \in Int /\ h[x] \in Int /\ k[x] = f[x] + h[x]
      OBVIOUS
    <3> QED BY <3>1, <3>2, <3>3, <3>4, <3>5, <3>6
  <2> QED BY <2>2, <2>3
<1>2. S \in P
  <2> HIDE DEF P
  <2> QED BY <1>1, SubsetInduction
<1> QED BY <1>2

LEMMA SumTimes ==
  ASSUME NEW f, NEW h, NEW c \in Int, NEW S, IsFiniteSet(S),
         \A x \in S : f[x] \in Int /\ h[x] = c * f[x]
  PROVE  SumFunctionOnSet(h, S) = c * SumFunctionOnSet(f, S)
<1> DEFINE P == {s \in SUBSET S : SumFunctionOnSet(h, s) = c * SumFunctionOnSet(f, s)}
<1>0. \A x \in S : h[x] \in Int
  OBVIOUS
<1>1. ASSUME NEW s \in SUBSET S, \A x \in s : s \ {x} \in P
      PROVE  s \in P
  <2>1. IsFiniteSet(s) /\ \A x \in s : IsFiniteSet(s \ {x})
    BY FS_Subset
  <2>2. CASE s = {}
    BY <2>2, SumEmpty
  <2>3. ASSUME NEW x \in s PROVE s \in P
    <3>1. SumFunctionOnSet(f, s) = f[x] + SumFunctionOnSet(f, s \ {x})
      BY <2>1, SumStep
    <3>2. SumFunctionOnSet(h, s) = h[x] + SumFunctionOnSet(h, s \ {x})
      BY <2>1, <1>0, SumStep
    <3>3. SumFunctionOnSet(f, s \ {x}) \in Int
      BY <2>1, SumStep
    <3>4. SumFunctionOnSet(h, s \ {x}) = c * SumFunctionOnSet(f, s \ {x})
      BY <1>1
    <3>5. f[x] \in Int /\ h[x] = c * f[x]
      OBVIOUS
    <3> QED BY <3>1, <3>2, <3>3, <3>4, <3>5
  <2> QED BY <2>2, <2>3
<1>2. S \in P
  <2> HIDE DEF P
  <2> QED BY <1>1, SubsetInduction
<1> QED BY <1>2

\* A sum of nothing negative, and one over an image: what is mapped one to one
\* into T adds up to no more than T does
LEMMA SumNat ==
  ASSUME NEW f, NEW S, IsFiniteSet(S), \A x \in S : f[x] \in Nat
  PROVE  SumFunctionOnSet(f, S) \in Nat
<1> DEFINE z == [x \in S |-> 0]
           P == {s \in SUBSET S : SumFunctionOnSet(z, s) = 0}
<1>1. SumFunctionOnSet(f, S) \in Int
  BY SumStep
<1>2. SumFunctionOnSet(z, S) = 0
  <2> DEFINE y == [x \in S |-> 0 * f[x]]
  <2>1. \A x \in S : f[x] \in Int /\ z[x] = 0 * f[x]
    OBVIOUS
  <2>2. SumFunctionOnSet(z, S) = 0 * SumFunctionOnSet(f, S)
    <3> HIDE DEF z
    <3> QED BY <2>1, SumTimes
  <2> QED BY <2>2, <1>1
<1>3. \A x \in S : z[x] \in Int /\ f[x] \in Int /\ z[x] <= f[x]
  OBVIOUS
<1>4. SumFunctionOnSet(z, S) <= SumFunctionOnSet(f, S)
  <2> HIDE DEF z
  <2> QED BY <1>3, SumMono
<1> QED BY <1>1, <1>2, <1>4

LEMMA SumInto ==
  ASSUME NEW f, NEW S, IsFiniteSet(S), NEW h, NEW T, IsFiniteSet(T), NEW e,
         \A x \in S : f[x] \in Nat, \A y \in T : h[y] \in Nat,
         \A x \in S : e[x] \in T /\ f[x] <= h[e[x]],
         \A x, y \in S : e[x] = e[y] => x = y
  PROVE  SumFunctionOnSet(f, S) <= SumFunctionOnSet(h, T)
<1> DEFINE I(s) == {e[x] : x \in s}
           P == {s \in SUBSET S : SumFunctionOnSet(f, s) <= SumFunctionOnSet(h, T)
                   /\ \A r \in SUBSET T : I(s) \subseteq r =>
                         SumFunctionOnSet(f, s) <= SumFunctionOnSet(h, r)}
<1>1. ASSUME NEW s \in SUBSET S, \A x \in s : s \ {x} \in P
      PROVE  s \in P
  <2>1. IsFiniteSet(s) /\ \A x \in s : IsFiniteSet(s \ {x})
    BY FS_Subset
  <2>2. ASSUME NEW r \in SUBSET T, I(s) \subseteq r
        PROVE  SumFunctionOnSet(f, s) <= SumFunctionOnSet(h, r)
    <3>0. IsFiniteSet(r) /\ \A y \in r : IsFiniteSet(r \ {y})
      BY FS_Subset
    <3>1. CASE s = {}
      <4>1. SumFunctionOnSet(f, s) = 0
        BY <3>1, SumEmpty
      <4>2. SumFunctionOnSet(h, r) \in Nat
        BY <3>0, SumNat
      <4> QED BY <4>1, <4>2
    <3>2. ASSUME NEW x \in s
          PROVE  SumFunctionOnSet(f, s) <= SumFunctionOnSet(h, r)
      <4>1. SumFunctionOnSet(f, s) = f[x] + SumFunctionOnSet(f, s \ {x})
        BY <2>1, SumStep
      <4>2. e[x] \in r
        BY <2>2
      <4>3. SumFunctionOnSet(h, r) = h[e[x]] + SumFunctionOnSet(h, r \ {e[x]})
        BY <3>0, <4>2, SumStep
      <4>4. I(s \ {x}) \subseteq r \ {e[x]}
        BY <2>2
      <4>5. SumFunctionOnSet(f, s \ {x}) <= SumFunctionOnSet(h, r \ {e[x]})
        <5>1. r \ {e[x]} \in SUBSET T
          OBVIOUS
        <5> QED BY <1>1, <4>4, <5>1
      <4>6. SumFunctionOnSet(f, s \ {x}) \in Int /\ SumFunctionOnSet(h, r \ {e[x]}) \in Int
        BY <2>1, <3>0, <4>2, SumStep
      <4>7. f[x] \in Int /\ h[e[x]] \in Int /\ f[x] <= h[e[x]]
        OBVIOUS
      <4> QED BY <4>1, <4>3, <4>5, <4>6, <4>7
    <3> QED BY <3>1, <3>2
  <2>3. I(s) \subseteq T
    OBVIOUS
  <2> QED BY <2>2, <2>3
<1>2. S \in P
  <2> HIDE DEF P
  <2> QED BY <1>1, SubsetInduction
<1> QED BY <1>2

---------------------------------------------------------------------------
(* Ranks                                                                     *)

\* R is a strict total order of S, and what it has before an element
Orders(R, S) ==
    /\ \A i \in S : <<i, i>> \notin R
    /\ \A i, j, k \in S : <<i, j>> \in R /\ <<j, k>> \in R => <<i, k>> \in R
    /\ \A i, j \in S : i # j => <<i, j>> \in R \/ <<j, i>> \in R
Below(S, R, i) == {j \in S : <<j, i>> \in R}

\* The sizes of what is before the elements of a finite set: every number below
\* its size, once

LEMMA RankExists ==
  ASSUME NEW S, IsFiniteSet(S), NEW R, Orders(R, S)
  PROVE  /\ \A i \in S : Cardinality(Below(S, R, i)) \in 0..(Cardinality(S) - 1)
         /\ \A i, j \in S : Cardinality(Below(S, R, i)) = Cardinality(Below(S, R, j)) => i = j
         /\ \A n \in 0..(Cardinality(S) - 1) : \E i \in S : Cardinality(Below(S, R, i)) = n
<1> DEFINE rank == [i \in S |-> Cardinality(Below(S, R, i))]
           N == Cardinality(S)
<1>0. N \in Nat
  BY FS_CardinalityType
<1>1. ASSUME NEW i \in S
      PROVE  /\ IsFiniteSet(Below(S, R, i))
             /\ Cardinality(Below(S, R, i)) \in 0..(N - 1)
             /\ i \notin Below(S, R, i)
  <2>1. Below(S, R, i) \in SUBSET (S \ {i})
    BY DEF Below, Orders
  <2>2. IsFiniteSet(S \ {i}) /\ Cardinality(S \ {i}) = N - 1
    BY FS_RemoveElement
  <2>3. IsFiniteSet(Below(S, R, i)) /\ Cardinality(Below(S, R, i)) <= N - 1
    BY <2>1, <2>2, FS_Subset
  <2>4. Cardinality(Below(S, R, i)) \in Nat
    BY <2>3, FS_CardinalityType
  <2> QED BY <1>0, <2>1, <2>3, <2>4
<1>2. ASSUME NEW i \in S, NEW j \in S, <<i, j>> \in R
      PROVE  Cardinality(Below(S, R, i)) < Cardinality(Below(S, R, j))
  <2>1. Below(S, R, i) \cup {i} \in SUBSET Below(S, R, j)
    BY <1>2 DEF Below, Orders
  <2>2. Cardinality(Below(S, R, i) \cup {i}) = Cardinality(Below(S, R, i)) + 1
    BY <1>1, FS_AddElement
  <2>3. Cardinality(Below(S, R, i) \cup {i}) <= Cardinality(Below(S, R, j))
    BY <1>1, <2>1, FS_Subset
  <2> QED BY <1>1, <2>2, <2>3
<1>3. \A i, j \in S : Cardinality(Below(S, R, i)) = Cardinality(Below(S, R, j)) => i = j
  <2> SUFFICES ASSUME NEW i \in S, NEW j \in S, i # j
               PROVE  Cardinality(Below(S, R, i)) # Cardinality(Below(S, R, j))
    OBVIOUS
  <2>1. <<i, j>> \in R \/ <<j, i>> \in R
    BY DEF Orders
  <2>2. Cardinality(Below(S, R, i)) \in Int /\ Cardinality(Below(S, R, j)) \in Int
    BY <1>1
  <2> QED BY <2>1, <2>2, <1>2
<1>4. ASSUME NEW n \in 0..(N - 1), \A i \in S : rank[i] # n
      PROVE  FALSE
  <2> DEFINE T == (0..(N - 1)) \ {n}
  <2>1. IsFiniteSet(0..(N - 1)) /\ Cardinality(0..(N - 1)) = N
    <3>1. 0 \in Int /\ N - 1 \in Int
      BY <1>0
    <3>2. /\ IsFiniteSet(0..(N - 1))
          /\ Cardinality(0..(N - 1)) = IF 0 > N - 1 THEN 0 ELSE (N - 1) - 0 + 1
      <4> HIDE DEF N
      <4> QED BY <3>1, FS_Interval
    <3> QED BY <1>0, <3>2
  <2>2. IsFiniteSet(T) /\ Cardinality(T) = N - 1
    BY <2>1, FS_RemoveElement
  <2>3. rank \in Injection(S, T)
    <3>1. \A i \in S : rank[i] \in T
      BY <1>1, <1>4
    <3>2. \A i, j \in S : rank[i] = rank[j] => i = j
      BY <1>3
    <3> QED BY <3>1, <3>2 DEF Injection, IsInjective
  <2>4. N <= N - 1
    <3> HIDE DEF T, rank
    <3>1. Cardinality(S) <= Cardinality(T)
      BY <2>2, <2>3, FS_Injection
    <3> QED BY <2>2, <3>1
  <2> QED BY <1>0, <2>4
<1>5. \A n \in 0..(N - 1) : \E i \in S : rank[i] = n
  BY <1>4
<1> QED BY <1>1, <1>3, <1>5

\* What At and Ranked build from s: t has n elements of s, from the given
\* positions and none twice
Picked(t, s, n, positions) ==
    \E pick \in [1..n -> positions] :
        /\ \A a, b \in 1..n : pick[a] = pick[b] => a = b
        /\ t = [m \in 1..n |-> s[pick[m]]]

LEMMA AtPicks ==
  ASSUME NEW n \in Nat, NEW positions, positions \subseteq 1..n, NEW s
  PROVE  /\ Cardinality(positions) \in Nat
         /\ Picked(At(s, positions), s, Cardinality(positions), positions)
<1> DEFINE R == {p \in positions \X positions : p[1] < p[2]}
           N == Cardinality(positions)
           pick == [m \in 1..N |-> CHOOSE i \in positions :
                                      Cardinality({j \in positions : j < i}) = m - 1]
<1>1. IsFiniteSet(positions) /\ N \in Nat
  <2>1. IsFiniteSet(1..n)
    BY FS_Interval
  <2>2. IsFiniteSet(positions)
    BY <2>1, FS_Subset
  <2> QED BY <2>2, FS_CardinalityType
<1>2. \A i \in positions : Below(positions, R, i) = {j \in positions : j < i}
  BY DEF Below
<1>3. \A m \in 0..(N - 1) : \E i \in positions : Cardinality(Below(positions, R, i)) = m
  <2>1. Orders(R, positions)
    BY DEF Orders
  <2>2. IsFiniteSet(positions)
    BY <1>1
  <2> HIDE DEF R
  <2>3. \A m \in 0..(Cardinality(positions) - 1) :
           \E i \in positions : Cardinality(Below(positions, R, i)) = m
    BY ONLY <2>1, <2>2, RankExists
  <2> QED BY <2>3
<1>4. \A m \in 1..N : \E i \in positions : Cardinality({j \in positions : j < i}) = m - 1
  <2>1. SUFFICES ASSUME NEW m \in 1..N
                 PROVE  \E i \in positions : Cardinality({j \in positions : j < i}) = m - 1
    OBVIOUS
  <2>2. m - 1 \in 0..(N - 1)
    BY <1>1
  <2> HIDE DEF R
  <2> QED BY <1>2, <1>3, <2>2
<1>5. \A m \in 1..N : pick[m] \in positions
                        /\ Cardinality({j \in positions : j < pick[m]}) = m - 1
  BY <1>4
<1>6. \A a, b \in 1..N : pick[a] = pick[b] => a = b
  <2> HIDE DEF pick
  <2>1. SUFFICES ASSUME NEW a \in 1..N, NEW b \in 1..N, pick[a] = pick[b] PROVE a = b
    OBVIOUS
  <2>2. a - 1 = b - 1
    BY <1>5, <2>1
  <2> QED BY <2>2, <1>1
<1>7. At(s, positions) = [m \in 1..N |-> s[pick[m]]]
  BY DEF At
<1>8. pick \in [1..N -> positions]
  BY <1>5
<1> HIDE DEF pick
<1> QED BY <1>1, <1>6, <1>7, <1>8 DEF Picked

LEMMA RankedPicks ==
  ASSUME NEW n \in Nat, NEW s, DOMAIN s = 1..n, NEW value, \A i \in 1..n : value[i] \in Int
  PROVE  Picked(Ranked(s, value), s, n, 1..n)
<1> DEFINE S == 1..n
           R == {p \in S \X S : value[p[1]] > value[p[2]]
                                  \/ (value[p[1]] = value[p[2]] /\ p[1] < p[2])}
           pick == [m \in S |-> CHOOSE i \in S : Cardinality(Ahead(value, S, i)) = m - 1]
<1>1. IsFiniteSet(S) /\ Cardinality(S) = n
  <2>1. IsFiniteSet(1..n) /\ Cardinality(1..n) = IF 1 > n THEN 0 ELSE n - 1 + 1
    BY FS_Interval
  <2> QED BY <2>1
<1>2. \A i \in S : Below(S, R, i) = Ahead(value, S, i)
  BY DEF Below, Ahead
<1>3. \A m \in 0..(n - 1) : \E i \in S : Cardinality(Below(S, R, i)) = m
  <2>1. /\ \A i \in S : <<i, i>> \notin R
        /\ \A i, j \in S : i # j => <<i, j>> \in R \/ <<j, i>> \in R
    OBVIOUS
  <2>2. ASSUME NEW i \in S, NEW j \in S, NEW k \in S, <<i, j>> \in R, <<j, k>> \in R
        PROVE  <<i, k>> \in R
    BY <2>2
  <2>3. Orders(R, S)
    BY <2>1, <2>2 DEF Orders
  <2> HIDE DEF R, S
  <2> QED BY <1>1, <2>3, RankExists
<1>4. \A m \in S : \E i \in S : Cardinality(Ahead(value, S, i)) = m - 1
  <2>1. SUFFICES ASSUME NEW m \in S
                 PROVE  \E i \in S : Cardinality(Ahead(value, S, i)) = m - 1
    OBVIOUS
  <2>2. m - 1 \in 0..(n - 1)
    OBVIOUS
  <2> HIDE DEF R, S
  <2> QED BY <1>2, <1>3, <2>2
<1>5. \A m \in S : pick[m] \in S /\ Cardinality(Ahead(value, S, pick[m])) = m - 1
  <2> HIDE DEF S
  <2> QED BY <1>4
<1>6. \A a, b \in S : pick[a] = pick[b] => a = b
  <2> HIDE DEF pick
  <2>1. SUFFICES ASSUME NEW a \in S, NEW b \in S, pick[a] = pick[b] PROVE a = b
    OBVIOUS
  <2>2. a - 1 = b - 1
    BY <1>5, <2>1
  <2> QED BY <2>2
<1>7. Ranked(s, value) = [m \in S |-> s[pick[m]]]
  BY DEF Ranked
<1>8. pick \in [S -> S]
  BY <1>5
<1> HIDE DEF pick
<1> QED BY <1>6, <1>7, <1>8 DEF Picked

---------------------------------------------------------------------------
(* Keywords and their metrics                                                *)

\* KeywordMetric
Intents == STRING \cup {"transactional", "commercial"}
Granularities == {"country"} \cup {su.market.kind : su \in Setups}
Metric ==
    [keyword : DOMAIN Words, volume : Nat \cup {None}, cpc : Nat \cup {None},
     paid : Nat \cup {None}, intent : Intents, granularity : Granularities, stale : BOOLEAN,
     relevant : BOOLEAN]

Distinct(s) == \A i, j \in DOMAIN s : s[i] = s[j] => i = j

\* What is picked from a sequence is a sequence of its elements, and of distinct
\* ones when they are
LEMMA AtSeq ==
  ASSUME NEW S, NEW s \in Seq(S), NEW positions, positions \subseteq DOMAIN s
  PROVE  /\ At(s, positions) \in Seq(S)
         /\ \A m \in DOMAIN At(s, positions) : \E i \in positions : At(s, positions)[m] = s[i]
         /\ (\A i, j \in positions : s[i] = s[j] => i = j) => Distinct(At(s, positions))
<1> DEFINE N == Cardinality(positions)
<1>1. Len(s) \in Nat /\ DOMAIN s = 1..Len(s) /\ \A i \in 1..Len(s) : s[i] \in S
  BY LenProperties, ElementOfSeq
<1>a. N \in Nat /\ Picked(At(s, positions), s, N, positions)
  <2> DEFINE n == Len(s)
  <2>1. n \in Nat /\ positions \subseteq 1..n
    BY <1>1
  <2> HIDE DEF n
  <2> QED BY ONLY <2>1, AtPicks
<1> HIDE DEF N
<1>2. PICK pick \in [1..N -> positions] :
         /\ N \in Nat
         /\ \A a, b \in 1..N : pick[a] = pick[b] => a = b
         /\ At(s, positions) = [m \in 1..N |-> s[pick[m]]]
  BY <1>a DEF Picked
<1>3. \A m \in 1..N : s[pick[m]] \in S
  BY <1>1, <1>2
<1>4. [m \in 1..N |-> s[pick[m]]] \in Seq(S)
  BY <1>2, <1>3, IsASeq
<1>5. DOMAIN At(s, positions) = 1..N
  BY <1>2
<1> QED BY <1>2, <1>4, <1>5 DEF Distinct

LEMMA RankedSeq ==
  ASSUME NEW S, NEW s \in Seq(S), NEW value, \A i \in DOMAIN s : value[i] \in Int
  PROVE  /\ Ranked(s, value) \in Seq(S)
         /\ Len(Ranked(s, value)) = Len(s)
         /\ Picked(Ranked(s, value), s, Len(s), DOMAIN s)
<1> DEFINE N == Len(s)
<1>1. N \in Nat /\ DOMAIN s = 1..N /\ \A i \in 1..N : s[i] \in S
  BY LenProperties, ElementOfSeq
<1> HIDE DEF N
<1>a. Picked(Ranked(s, value), s, N, 1..N)
  <2>1. N \in Nat /\ DOMAIN s = 1..N /\ \A i \in 1..N : value[i] \in Int
    BY <1>1
  <2> QED BY ONLY <2>1, RankedPicks
<1>2. PICK pick \in [1..N -> 1..N] :
         /\ \A a, b \in 1..N : pick[a] = pick[b] => a = b
         /\ Ranked(s, value) = [m \in 1..N |-> s[pick[m]]]
  BY <1>a DEF Picked
<1>3. \A m \in 1..N : s[pick[m]] \in S
  BY <1>1, <1>2
<1>4. [m \in 1..N |-> s[pick[m]]] \in Seq(S)
  BY <1>1, <1>3, IsASeq
<1>5. DOMAIN Ranked(s, value) = 1..N
  BY <1>2
<1>6. Len(Ranked(s, value)) = N
  BY <1>1, <1>2, <1>4, <1>5, LenProperties
<1> QED BY <1>1, <1>a, <1>2, <1>4, <1>6 DEF N

LEMMA RoundInt ==
  ASSUME NEW n \in Int, NEW d \in Int, d > 0
  PROVE  Round(n, d) \in Int
BY DEF Round

LEMMA WordsCount ==
  ASSUME NEW k \in DOMAIN Words, NEW T
  PROVE  Cardinality(Words[k] \cap T) \in Nat
<1>1. IsFiniteSet(Words[k])
  BY KeywordConstants
<1>2. IsFiniteSet(Words[k] \cap T)
  BY <1>1, FS_Intersection
<1> QED BY <1>2, FS_CardinalityType

LEMMA CandidateValueInt ==
  ASSUME NEW k \in DOMAIN Words
  PROVE  CandidateValue(k) \in Int
<1>1. Cardinality(Words[k] \cap Service.words) \in Nat
      /\ Cardinality(Words[k] \cap BuyerTerms) \in Nat /\ k \in Int
  BY WordsCount, KeywordConstants
<1> DEFINE six == IF \E t \in Service.negatives : Cardinality(t) = 1 /\ t \subseteq Words[k]
                  THEN 6 ELSE 0
<1>2. six \in Nat
  OBVIOUS
<1>3. CandidateValue(k) = 100 * (10 * Cardinality(Words[k] \cap Service.words)
         + 4 * Cardinality(Words[k] \cap BuyerTerms) - six) - k
  BY DEF CandidateValue
<1> HIDE DEF six
<1> QED BY <1>1, <1>2, <1>3

LEMMA AskedSeedsSeq ==
  ASSUME NEW su
  PROVE  /\ AskedSeeds(su) \in Seq(DOMAIN Words)
         /\ Len(AskedSeeds(su)) = Least(Len(Seeds), SeedLimit(su.profile))
<1> DEFINE n == Least(Len(Seeds), SeedLimit(su.profile))
<1>1. Seeds \in Seq(DOMAIN Words) /\ Len(Seeds) \in Nat
  BY KeywordConstants, LenProperties
<1>2. n \in 0..Len(Seeds)
  BY <1>1 DEF Least, SeedLimit
<1>3. SubSeq(Seeds, 1, n) \in Seq(DOMAIN Words) /\ Len(SubSeq(Seeds, 1, n)) = n
  <2>1. 1 \in 1..(Len(Seeds) + 1) /\ n \in (1 - 1)..Len(Seeds)
    BY <1>1, <1>2
  <2> HIDE DEF n
  <2>2. /\ SubSeq(Seeds, 1, n) \in Seq(DOMAIN Words)
        /\ Len(SubSeq(Seeds, 1, n)) = IF 1 <= n THEN n - 1 + 1 ELSE 0
    BY <1>1, <2>1, SubSeqProperties
  <2> QED BY <1>1, <1>2, <2>2
<1> QED BY <1>3 DEF AskedSeeds

\* Keywords that are scanned are keywords of the model, none twice
LEMMA CandidatesSeq ==
  ASSUME NEW su, NEW list \in CandidateLists
  PROVE  Candidates(su, list) \in Seq(DOMAIN Words)
<1> DEFINE found == IF list = <<>> THEN AskedSeeds(su) ELSE list
           value == [i \in DOMAIN found |-> CandidateValue(found[i])]
<1>1. list \in Seq(DOMAIN Words)
  BY KeywordConstants
<1>2. found \in Seq(DOMAIN Words)
  BY <1>1, AskedSeedsSeq
<1>3. Candidates(su, list) = IF su.mode = "fixture" THEN list ELSE Ranked(found, value)
  BY DEF Candidates
<1> HIDE DEF found
<1>4. \A i \in DOMAIN found : value[i] \in Int
  BY <1>2, CandidateValueInt
<1> HIDE DEF value
<1> QED BY <1>1, <1>2, <1>3, <1>4, RankedSeq

LEMMA PlanCandidatesSeq ==
  ASSUME NEW list \in Seq(DOMAIN Words)
  PROVE  PlanCandidates(list) \in Seq(DOMAIN Words) /\ Distinct(PlanCandidates(list))
<1> DEFINE P == {i \in DOMAIN list : /\ Words[list[i]] # {}
                                     /\ ~Negative(list[i])
                                     /\ \A j \in 1..(i - 1) : Words[list[j]] # Words[list[i]]}
<1>1. PlanCandidates(list) = At(list, P)
  BY DEF PlanCandidates
<1>2. DOMAIN list = 1..Len(list) /\ Len(list) \in Nat
  BY LenProperties
<1>3. \A i, j \in P : list[i] = list[j] => i = j
  <2>1. SUFFICES ASSUME NEW i \in P, NEW j \in P, i < j, list[i] = list[j] PROVE FALSE
    BY <1>2
  <2>2. i \in 1..(j - 1)
    BY <1>2, <2>1
  <2> QED BY <2>1, <2>2
<1>4. P \subseteq DOMAIN list
  OBVIOUS
<1> HIDE DEF P
<1> QED BY <1>1, <1>3, <1>4, AtSeq

OneEach(ms) == \A i, j \in DOMAIN ms : ms[i].keyword = ms[j].keyword => i = j

LEMMA MetricValueInt ==
  ASSUME NEW m \in Metric
  PROVE  MetricValue(m) \in Int
<1>1. m.keyword \in DOMAIN Words /\ m.cpc \in Int \cup {None} /\ m.volume \in Int \cup {None}
  BY DEF Metric
<1> DEFINE words == Cardinality(Words[m.keyword] \cap Service.words)
           all == Most(1, Cardinality(Service.words))
           cpc == Least(OrZero(m.cpc), 3000)
           volume == Least(OrZero(m.volume), 1000)
           intent == IF m.intent \in HighIntents THEN 2500 ELSE 625
           quality1 == LocalQuality(m.keyword)
<1>2. words \in Nat
  BY <1>1, WordsCount
<1>3. all \in Nat /\ all > 0
  <2>1. Cardinality(Service.words) \in Nat
    BY KeywordConstants, FS_CardinalityType
  <2> QED BY <2>1 DEF Most
<1>4. cpc \in Int /\ volume \in Int /\ intent \in Int /\ quality1 \in Int
  BY <1>1 DEF Least, OrZero, LocalQuality
<1>5. MetricValue(m) = Round(4000 * words, all) + intent + Round(1800 * cpc, 3000)
                         + Round(1200 * volume, 1000) + 5 * quality1
  BY DEF MetricValue
<1> HIDE DEF words, all, cpc, volume, intent, quality1
<1>6. Round(4000 * words, all) \in Int
  BY <1>2, <1>3, RoundInt
<1>7. Round(1800 * cpc, 3000) \in Int /\ Round(1200 * volume, 1000) \in Int
  BY <1>4, RoundInt
<1> QED BY <1>4, <1>5, <1>6, <1>7

\* What comes first, and the largest and the smallest of a finite set of integers
Foremost(i, S, R) == Below(S, R, i) = {} /\ \A j \in S : j # i => <<i, j>> \in R

LEMMA FirstBelow ==
  ASSUME NEW S, IsFiniteSet(S), S # {}, NEW R, Orders(R, S)
  PROVE  \E i \in S : Foremost(i, S, R)
<1>1. Cardinality(S) \in Nat /\ Cardinality(S) # 0
  BY FS_CardinalityType, FS_EmptySet
<1>2. 0 \in 0..(Cardinality(S) - 1)
  BY <1>1
<1>3. PICK i \in S : Cardinality(Below(S, R, i)) = 0
  BY <1>2, RankExists
<1>4. Below(S, R, i) \in SUBSET S
  BY DEF Below
<1>5. IsFiniteSet(Below(S, R, i))
  BY <1>4, FS_Subset
<1>6. Below(S, R, i) = {}
  BY <1>3, <1>5, FS_EmptySet
<1> QED BY <1>6 DEF Below, Orders, Foremost

\* The order of Ahead
Falling(value, S) ==
    {p \in S \X S : value[p[1]] > value[p[2]] \/ (value[p[1]] = value[p[2]] /\ p[1] < p[2])}

LEMMA FallingOrders ==
  ASSUME NEW S, NEW value, \A i \in S : i \in Int /\ value[i] \in Int
  PROVE  /\ Orders(Falling(value, S), S)
         /\ \A i \in S : Below(S, Falling(value, S), i) = Ahead(value, S, i)
<1> DEFINE R == Falling(value, S)
<1>1. \A i, j \in S : <<i, j>> \in R <=> value[i] > value[j] \/ (value[i] = value[j] /\ i < j)
  BY DEF Falling
<1> HIDE DEF R
<1>2. \A i \in S : <<i, i>> \notin R
  BY <1>1
<1>3. \A i, j \in S : i # j => <<i, j>> \in R \/ <<j, i>> \in R
  BY <1>1
<1>4. \A i, j, k \in S : <<i, j>> \in R /\ <<j, k>> \in R => <<i, k>> \in R
  BY <1>1
<1>5. \A i \in S : Below(S, R, i) = Ahead(value, S, i)
  BY <1>1 DEF Below, Ahead
<1> QED BY <1>2, <1>3, <1>4, <1>5 DEF Orders, R

LEMMA MaxOf ==
  ASSUME NEW S \in SUBSET Int, IsFiniteSet(S), S # {}
  PROVE  Max(S) \in S /\ \A y \in S : y <= Max(S)
<1> DEFINE R == {p \in S \X S : p[1] > p[2]}
<1>1. Orders(R, S)
  BY DEF Orders
<1>2. \A i, j \in S : <<i, j>> \in R => i > j
  OBVIOUS
<1> HIDE DEF R
<1>3. \E i \in S : \A y \in S : i >= y
  <2>1. PICK i \in S : Foremost(i, S, R)
    BY <1>1, FirstBelow
  <2>2. ASSUME NEW y \in S PROVE i >= y
    <3>1. y = i \/ i > y
      BY <1>2, <2>1 DEF Foremost
    <3>2. i \in Int /\ y \in Int
      OBVIOUS
    <3> QED BY <3>1, <3>2
  <2> QED BY <2>2
<1>4. Max(S) \in S /\ \A y \in S : Max(S) >= y
  BY <1>3 DEF Max
<1> QED BY <1>4

LEMMA MinOf ==
  ASSUME NEW S \in SUBSET Int, IsFiniteSet(S), S # {}
  PROVE  Min(S) \in S /\ \A y \in S : Min(S) <= y
<1> DEFINE R == {p \in S \X S : p[1] < p[2]}
<1>1. Orders(R, S)
  BY DEF Orders
<1>2. \A i, j \in S : <<i, j>> \in R => i < j
  OBVIOUS
<1> HIDE DEF R
<1>3. \E i \in S : \A y \in S : i <= y
  <2>1. PICK i \in S : Foremost(i, S, R)
    BY <1>1, FirstBelow
  <2>2. ASSUME NEW y \in S PROVE i <= y
    <3>1. y = i \/ i < y
      BY <1>2, <2>1 DEF Foremost
    <3>2. i \in Int /\ y \in Int
      OBVIOUS
    <3> QED BY <3>1, <3>2
  <2> QED BY <2>2
<1>4. Min(S) \in S /\ \A y \in S : Min(S) <= y
  BY <1>3 DEF Min
<1> QED BY <1>4

\* {f[x] : x \in S} for a function f, which FS_Image has for an operator
LEMMA ImageFinite ==
  ASSUME NEW S, IsFiniteSet(S), NEW f
  PROVE  IsFiniteSet({f[x] : x \in S})
<1> DEFINE T == {f[x] : x \in S}
           g == [x \in S |-> f[x]]
<1>1. g \in Surjection(S, T)
  BY DEF Surjection
<1> HIDE DEF T, g
<1>2. IsFiniteSet(T)
  BY <1>1, FS_Surjection
<1> QED BY <1>2 DEF T

\* A group of metrics is represented by one of them, under its own keyword
LEMMA RepresentativeOf ==
  ASSUME NEW ms \in Seq(Metric), NEW members, members \subseteq DOMAIN ms, members # {}
  PROVE  \E i \in members : \E v \in Nat :
            Representative(ms, members) = [ms[i] EXCEPT !.volume = v]
<1> DEFINE value == [i \in DOMAIN ms |-> MetricValue(ms[i])]
           R == Falling(value, members)
           volume == [i \in DOMAIN ms |-> OrZero(ms[i].volume)]
           V == {volume[i] : i \in members}
<1>1. DOMAIN ms = 1..Len(ms) /\ Len(ms) \in Nat /\ \A i \in DOMAIN ms : ms[i] \in Metric
  BY LenProperties, ElementOfSeq
<1>2. IsFiniteSet(members)
  <2>1. IsFiniteSet(1..Len(ms))
    BY <1>1, FS_Interval
  <2> QED BY <1>1, <2>1, FS_Subset
<1>3. \A i \in members : value[i] \in Int /\ i \in Int /\ volume[i] \in Nat
  <2>1. \A i \in members : ms[i] \in Metric /\ i \in Int
    BY <1>1
  <2>2. \A i \in members : ms[i].volume \in Nat \cup {None}
    BY <2>1 DEF Metric
  <2>3. \A i \in members : value[i] \in Int
    BY <2>1, MetricValueInt
  <2>4. \A i \in members : volume[i] = OrZero(ms[i].volume)
    OBVIOUS
  <2>5. \A i \in members : OrZero(ms[i].volume) \in Nat
    BY <2>2 DEF OrZero
  <2> HIDE DEF volume, value
  <2> QED BY <2>1, <2>3, <2>4, <2>5
<1>4. Orders(R, members) /\ \A i \in members : Below(members, R, i) = Ahead(value, members, i)
  <2> HIDE DEF value
  <2> QED BY <1>3, FallingOrders
<1>6. \E i \in members : Ahead(value, members, i) = {}
  <2> HIDE DEF R, value
  <2>1. PICK i \in members : Foremost(i, members, R)
    BY <1>2, <1>4, FirstBelow
  <2> QED BY <1>4, <2>1 DEF Foremost
<1>7. V \in SUBSET Nat /\ V \in SUBSET Int /\ IsFiniteSet(V) /\ V # {}
  <2>1. \A i \in members : volume[i] \in Nat
    BY <1>3
  <2> HIDE DEF volume
  <2>2. IsFiniteSet(V)
    BY <1>2, ImageFinite
  <2>3. V \in SUBSET Nat /\ V # {}
    BY <2>1
  <2> HIDE DEF V
  <2> QED BY <2>2, <2>3
<1>8. V = {OrZero(ms[i].volume) : i \in members}
  OBVIOUS
<1>9. Max({OrZero(ms[i].volume) : i \in members}) \in Nat
  <2> HIDE DEF V
  <2> QED BY <1>7, <1>8, MaxOf
<1>10. (CHOOSE i \in members : Ahead(value, members, i) = {}) \in members
  <2> HIDE DEF value
  <2> QED BY <1>6
<1>11. Representative(ms, members) =
         [ms[CHOOSE i \in members : Ahead(value, members, i) = {}] EXCEPT !.volume =
            Max({OrZero(ms[i].volume) : i \in members})]
  BY DEF Representative
<1> HIDE DEF value, R, volume, V
<1> QED BY <1>9, <1>10, <1>11

\* What a metric keeps in its group
Kind(m) == <<m.granularity, m.stale, m.relevant>>

LEMMA GroupedSeq ==
  ASSUME NEW ms \in Seq(Metric), OneEach(ms)
  PROVE  /\ Grouped(ms) \in Seq(Metric)
         /\ OneEach(Grouped(ms))
         /\ \A m \in DOMAIN Grouped(ms) : \E i \in DOMAIN ms : Kind(Grouped(ms)[m]) = Kind(ms[i])
<1> DEFINE opener == Clusters(ms)
           group(i) == {j \in DOMAIN ms : opener[j] = i}
           reps == [i \in DOMAIN ms |-> Representative(ms, group(i))]
           pos == {i \in DOMAIN ms : opener[i] = i}
           N == Cardinality(pos)
<1>1. DOMAIN ms = 1..Len(ms) /\ Len(ms) \in Nat /\ \A i \in DOMAIN ms : ms[i] \in Metric
  BY LenProperties, ElementOfSeq
<1>2. Grouped(ms) = At(reps, pos)
  BY DEF Grouped
<1>3. N \in Nat /\ Picked(At(reps, pos), reps, N, pos)
  <2>1. Len(ms) \in Nat /\ pos \subseteq 1..Len(ms)
    BY <1>1
  <2> HIDE DEF pos, reps
  <2> QED BY ONLY <2>1, AtPicks
<1>4. ASSUME NEW i \in pos
      PROVE  \E j \in group(i) : \E v \in Nat : reps[i] = [ms[j] EXCEPT !.volume = v]
  <2>1. group(i) \subseteq DOMAIN ms /\ group(i) # {} /\ reps[i] = Representative(ms, group(i))
    OBVIOUS
  <2> HIDE DEF reps, group
  <2> QED BY <2>1, RepresentativeOf
<1>5. ASSUME NEW i \in pos
      PROVE  \E j \in DOMAIN ms : /\ opener[j] = i
                                  /\ reps[i] \in Metric /\ reps[i].keyword = ms[j].keyword
                                  /\ Kind(reps[i]) = Kind(ms[j])
  <2>1. PICK j \in group(i), v \in Nat : reps[i] = [ms[j] EXCEPT !.volume = v]
    BY <1>4
  <2>2. j \in DOMAIN ms /\ opener[j] = i /\ ms[j] \in Metric
    BY <1>1
  <2>3. ASSUME NEW m \in Metric
        PROVE  /\ [m EXCEPT !.volume = v] \in Metric
               /\ [m EXCEPT !.volume = v].keyword = m.keyword
               /\ Kind([m EXCEPT !.volume = v]) = Kind(m)
    BY DEF Metric, Kind
  <2> HIDE DEF reps, opener, group
  <2> QED BY <2>1, <2>2, <2>3
<1> HIDE DEF reps, opener, group
<1>6. PICK pick \in [1..N -> pos] :
         /\ \A a, b \in 1..N : pick[a] = pick[b] => a = b
         /\ At(reps, pos) = [m \in 1..N |-> reps[pick[m]]]
  BY <1>3 DEF Picked
<1> DEFINE t == [m \in 1..N |-> reps[pick[m]]]
<1>7. \A m \in 1..N : t[m] \in Metric
  BY <1>5
<1>8. t \in Seq(Metric) /\ DOMAIN t = 1..N
  <2> HIDE DEF N
  <2> QED BY <1>3, <1>7, IsASeq
<1>9. ASSUME NEW a \in 1..N, NEW b \in 1..N, t[a].keyword = t[b].keyword
      PROVE  a = b
  <2>1. PICK i \in DOMAIN ms : opener[i] = pick[a] /\ t[a].keyword = ms[i].keyword
    BY <1>5, <1>6
  <2>2. PICK j \in DOMAIN ms : opener[j] = pick[b] /\ t[b].keyword = ms[j].keyword
    BY <1>5, <1>6
  <2>3. i = j
    BY <1>9, <2>1, <2>2 DEF OneEach
  <2> QED BY <1>6, <2>1, <2>2, <2>3
<1>10. \A m \in 1..N : \E i \in DOMAIN ms : Kind(t[m]) = Kind(ms[i])
  <2>1. ASSUME NEW m \in 1..N PROVE \E i \in DOMAIN ms : Kind(t[m]) = Kind(ms[i])
    <3>1. pick[m] \in pos /\ t[m] = reps[pick[m]]
      OBVIOUS
    <3> HIDE DEF t, pos, N
    <3> QED BY <3>1, <1>5
  <2> QED BY <2>1
<1>11. Grouped(ms) = t
  BY <1>2, <1>6
<1> HIDE DEF t, N
<1> QED BY <1>8, <1>9, <1>10, <1>11 DEF OneEach

LEMMA ScoringMetricsSeq ==
  ASSUME NEW ms \in Seq(Metric), OneEach(ms)
  PROVE  /\ ScoringMetrics(ms) \in Seq(Metric)
         /\ OneEach(ScoringMetrics(ms))
         /\ \A m \in DOMAIN ScoringMetrics(ms) :
               \E i \in DOMAIN ms : Kind(ScoringMetrics(ms)[m]) = Kind(ms[i])
<1> DEFINE groups == Grouped(ms)
           value == [i \in DOMAIN groups |-> MetricValue(groups[i])]
           t == Ranked(groups, value)
<1>1. /\ groups \in Seq(Metric)
      /\ OneEach(groups)
      /\ \A m \in DOMAIN groups : \E i \in DOMAIN ms : Kind(groups[m]) = Kind(ms[i])
  BY GroupedSeq
<1>2. ScoringMetrics(ms) = t
  BY DEF ScoringMetrics
<1> HIDE DEF groups
<1>3. \A i \in DOMAIN groups : value[i] \in Int
  <2>1. \A i \in DOMAIN groups : groups[i] \in Metric
    BY <1>1, LenProperties, ElementOfSeq
  <2> QED BY <2>1, MetricValueInt
<1> HIDE DEF value
<1>4. t \in Seq(Metric) /\ Len(t) = Len(groups)
  BY <1>1, <1>3, RankedSeq
<1>5. Picked(t, groups, Len(groups), DOMAIN groups)
  BY <1>1, <1>3, RankedSeq
<1> HIDE DEF t
<1>6. DOMAIN t = DOMAIN groups /\ DOMAIN groups = 1..Len(groups)
  BY <1>1, <1>4, LenProperties
<1>7. PICK pick \in [DOMAIN groups -> DOMAIN groups] :
         /\ \A a, b \in DOMAIN groups : pick[a] = pick[b] => a = b
         /\ t = [m \in DOMAIN groups |-> groups[pick[m]]]
  BY <1>5, <1>6 DEF Picked
<1>8. \A m \in DOMAIN t : t[m] = groups[pick[m]] /\ pick[m] \in DOMAIN groups
  BY <1>6, <1>7
<1>9. OneEach(t)
  BY <1>1, <1>6, <1>7, <1>8 DEF OneEach
<1>10. \A m \in DOMAIN t : \E i \in DOMAIN ms : Kind(t[m]) = Kind(ms[i])
  BY <1>1, <1>8
<1> QED BY <1>2, <1>4, <1>9, <1>10

---------------------------------------------------------------------------
(* Results and observations                                                  *)

\* A result is an item of an answer with a URL, classified
Items == {q \in UNION {a.items : a \in SerpAnswers} : q.url # None}
IsResult(r) == \E q \in Items : r = [q EXCEPT !.class = r.class]
Shown(snapshots) ==
    \A i \in DOMAIN snapshots :
        /\ snapshots[i].query \in Int
        /\ IsFiniteSet(snapshots[i].results)
        /\ \A r \in snapshots[i].results : IsResult(r)

LEMMA ResultFields ==
  ASSUME NEW r, IsResult(r)
  PROVE  r.order \in Nat /\ r.url \in Int /\ r.domain \in STRING \cup {None} /\ r.type \in STRING
<1>1. PICK q \in Items : r = [q EXCEPT !.class = r.class]
  BY DEF IsResult
<1>2. q \in Item /\ q.url # None
  BY SerpConstants DEF Items
<1>3. /\ q.order \in Nat /\ q.url \in Int /\ q.domain \in STRING \cup {None} /\ q.type \in STRING
      /\ DOMAIN q = {"order", "url", "domain", "words", "site", "type", "class"}
  BY <1>2 DEF Item
<1> DEFINE c == r.class
<1>4. r = [q EXCEPT !.class = c]
  BY <1>1
<1> HIDE DEF c
<1>5. r.order = q.order /\ r.url = q.url /\ r.domain = q.domain /\ r.type = q.type
  BY <1>3, <1>4
<1> QED BY <1>3, <1>5

LEMMA OneDomain ==
  ASSUME NEW r, IsResult(r), NEW s, IsResult(s), r.url = s.url
  PROVE  r.domain = s.domain
<1>1. PICK q \in Items : r = [q EXCEPT !.class = r.class]
  BY DEF IsResult
<1>2. PICK p \in Items : s = [p EXCEPT !.class = s.class]
  BY DEF IsResult
<1>3. q \in Item /\ p \in Item /\ q.url # None /\ p.url # None
  BY SerpConstants DEF Items
<1>4. /\ DOMAIN q = {"order", "url", "domain", "words", "site", "type", "class"}
      /\ DOMAIN p = {"order", "url", "domain", "words", "site", "type", "class"}
  BY <1>3 DEF Item
<1> DEFINE c == r.class
           d == s.class
<1>5. r = [q EXCEPT !.class = c] /\ s = [p EXCEPT !.class = d]
  BY <1>1, <1>2
<1> HIDE DEF c, d
<1>6. r.url = q.url /\ r.domain = q.domain /\ s.url = p.url /\ s.domain = p.domain
  BY <1>4, <1>5
<1>7. PICK a \in SerpAnswers, b \in SerpAnswers : q \in a.items /\ p \in b.items
  BY DEF Items
<1>8. q.url # None /\ q.url = p.url => q.domain = p.domain
  <2>1. \A x \in a.items, y \in b.items : x.url # None /\ x.url = y.url => x.domain = y.domain
    BY SerpConstants
  <2> QED BY <1>7, <2>1
<1> HIDE DEF c, d
<1> QED BY ONLY <1>3, <1>6, <1>8, r.url = s.url

\* Observations are finitely many, and Before orders them: two with the same
\* place have the same URL, and so the same domain
Watched ==
    [domain : STRING \cup {None}, query : Int, position : Nat, url : Int]
BeforeIn(S) == {p \in S \X S : Before(p[1], p[2])}

LEMMA ObservationOf ==
  ASSUME NEW snapshots, Shown(snapshots), NEW o \in Observations(snapshots)
  PROVE  /\ o \in Watched
         /\ \E i \in DOMAIN snapshots : \E r \in Organic(snapshots[i]) :
               /\ IsResult(r)
               /\ o = [domain |-> r.domain, query |-> snapshots[i].query, position |-> r.order,
                       url |-> r.url]
<1>0. PICK i \in DOMAIN snapshots : \E r \in Organic(snapshots[i]) :
         o = [domain |-> r.domain, query |-> snapshots[i].query, position |-> r.order,
              url |-> r.url]
  BY DEF Observations
<1>1. PICK r \in Organic(snapshots[i]) :
         o = [domain |-> r.domain, query |-> snapshots[i].query, position |-> r.order,
              url |-> r.url]
  BY <1>0
<1>2. IsResult(r) /\ snapshots[i].query \in Int
  BY DEF Shown, Organic
<1>3. r.order \in Nat /\ r.url \in Int /\ r.domain \in STRING \cup {None}
  BY <1>2, ResultFields
<1> QED BY <1>1, <1>2, <1>3 DEF Watched

LEMMA ObservationsFinite ==
  ASSUME NEW X, NEW snapshots \in Seq(X), Shown(snapshots)
  PROVE  IsFiniteSet(Observations(snapshots))
<1> DEFINE see == [i \in DOMAIN snapshots |-> [r \in Organic(snapshots[i]) |->
                     [domain |-> r.domain, query |-> snapshots[i].query, position |-> r.order,
                      url |-> r.url]]]
           part == [i \in DOMAIN snapshots |-> {see[i][r] : r \in Organic(snapshots[i])}]
           parts == {part[i] : i \in DOMAIN snapshots}
<1>1. IsFiniteSet(DOMAIN snapshots)
  <2>1. DOMAIN snapshots = 1..Len(snapshots) /\ Len(snapshots) \in Nat
    BY LenProperties
  <2>2. IsFiniteSet(1..Len(snapshots))
    BY <2>1, FS_Interval
  <2> QED BY <2>1, <2>2
<1>2. \A i \in DOMAIN snapshots : IsFiniteSet(part[i])
  <2>1. ASSUME NEW i \in DOMAIN snapshots PROVE IsFiniteSet(part[i])
    <3>1. Organic(snapshots[i]) \in SUBSET snapshots[i].results
      BY DEF Organic
    <3>2. IsFiniteSet(Organic(snapshots[i]))
      BY <3>1, FS_Subset DEF Shown
    <3> DEFINE f == see[i]
    <3>3. part[i] = {f[r] : r \in Organic(snapshots[i])}
      OBVIOUS
    <3> HIDE DEF part, see, f
    <3>4. IsFiniteSet({f[r] : r \in Organic(snapshots[i])})
      BY <3>2, ImageFinite
    <3> QED BY <3>3, <3>4
  <2> QED BY <2>1
<1>3. Observations(snapshots) = UNION parts
  BY DEF Observations
<1> HIDE DEF part
<1>4. IsFiniteSet(parts) /\ \A T \in parts : IsFiniteSet(T)
  BY <1>1, <1>2, ImageFinite
<1> HIDE DEF parts
<1> QED BY <1>3, <1>4, FS_UNION

LEMMA BeforeOrders ==
  ASSUME NEW snapshots, Shown(snapshots), NEW T \in SUBSET Observations(snapshots)
  PROVE  Orders(BeforeIn(T), T)
<1>1. \A o \in T : /\ o \in Watched
                   /\ o.position \in Int /\ o.query \in Int /\ o.url \in Int
  BY ObservationOf DEF Watched
<1>2. \A o, p \in T : <<o, p>> \in BeforeIn(T) <=> Before(o, p)
  BY DEF BeforeIn
<1>3. \A o \in T : ~Before(o, o)
  BY <1>1 DEF Before
<1>4. \A o, p, q \in T : Before(o, p) /\ Before(p, q) => Before(o, q)
  <2>1. SUFFICES ASSUME NEW o \in T, NEW p \in T, NEW q \in T, Before(o, p), Before(p, q)
                 PROVE  Before(o, q)
    OBVIOUS
  <2>2. /\ o.position \in Int /\ o.query \in Int /\ o.url \in Int
        /\ p.position \in Int /\ p.query \in Int /\ p.url \in Int
        /\ q.position \in Int /\ q.query \in Int /\ q.url \in Int
    BY <1>1
  <2> QED BY <2>1, <2>2 DEF Before
<1>5. \A o, p \in T : o # p => Before(o, p) \/ Before(p, o)
  <2>1. SUFFICES ASSUME NEW o \in T, NEW p \in T, ~Before(o, p), ~Before(p, o) PROVE o = p
    OBVIOUS
  <2>2. o.position = p.position /\ o.query = p.query /\ o.url = p.url
    <3>1. /\ o.position \in Int /\ o.query \in Int /\ o.url \in Int
          /\ p.position \in Int /\ p.query \in Int /\ p.url \in Int
      BY <1>1
    <3> QED BY <2>1, <3>1 DEF Before
  <2>3a. PICK i \in DOMAIN snapshots : \E r \in Organic(snapshots[i]) :
           /\ IsResult(r)
           /\ o = [domain |-> r.domain, query |-> snapshots[i].query, position |-> r.order,
                   url |-> r.url]
    BY ObservationOf
  <2>3. PICK r \in Organic(snapshots[i]) :
           /\ IsResult(r)
           /\ o = [domain |-> r.domain, query |-> snapshots[i].query, position |-> r.order,
                   url |-> r.url]
    BY <2>3a
  <2>4a. PICK j \in DOMAIN snapshots : \E s \in Organic(snapshots[j]) :
           /\ IsResult(s)
           /\ p = [domain |-> s.domain, query |-> snapshots[j].query, position |-> s.order,
                   url |-> s.url]
    BY ObservationOf
  <2>4. PICK s \in Organic(snapshots[j]) :
           /\ IsResult(s)
           /\ p = [domain |-> s.domain, query |-> snapshots[j].query, position |-> s.order,
                   url |-> s.url]
    BY <2>4a
  <2>5. r.domain = s.domain
    BY <2>2, <2>3, <2>4, OneDomain
  <2> QED BY <2>2, <2>3, <2>4, <2>5
<1> QED BY <1>2, <1>3, <1>4, <1>5 DEF Orders

LEMMA FirstOf ==
  ASSUME NEW X, NEW snapshots \in Seq(X), Shown(snapshots),
         NEW T \in SUBSET Observations(snapshots), T # {}
  PROVE  First(T) \in T /\ \A p \in T \ {First(T)} : Before(First(T), p)
<1>1. IsFiniteSet(T)
  BY ObservationsFinite, FS_Subset
<1>2. Orders(BeforeIn(T), T)
  BY BeforeOrders
<1>3. PICK o \in T : Foremost(o, T, BeforeIn(T))
  BY <1>1, <1>2, FirstBelow
<1>4. \A p \in T \ {o} : Before(o, p)
  BY <1>3 DEF Foremost, BeforeIn
<1> QED BY <1>4 DEF First

\* select_competitor_urls: at most the limit, every domain once, and each seen
LEMMA SelectedDomains ==
  ASSUME NEW X, NEW snapshots \in Seq(X), Shown(snapshots), NEW limit \in Nat
  PROVE  \E k \in 0..limit :
            /\ DOMAIN SelectCompetitors(snapshots, limit) = 1..k
            /\ \A n \in 1..k : \E o \in Observations(snapshots) :
                  SelectCompetitors(snapshots, limit)[n] = o.domain
            /\ Distinct(SelectCompetitors(snapshots, limit))
<1> DEFINE O == Observations(snapshots)
           D == {o.domain : o \in O}
           best == {First(OfDomain(d, snapshots)) : d \in D}
           R == BeforeIn(best)
           before(o) == {p \in best : Before(p, o)}
           rank(o) == Cardinality(before(o)) + 1
           chosen == {o \in best : rank(o) <= limit}
           k == Cardinality(chosen)
           pick(n) == CHOOSE o \in chosen : rank(o) = n
<1>1. \A d \in D : First(OfDomain(d, snapshots)) \in OfDomain(d, snapshots)
  <2>1. ASSUME NEW d \in D PROVE First(OfDomain(d, snapshots)) \in OfDomain(d, snapshots)
    <3>1. OfDomain(d, snapshots) \in SUBSET Observations(snapshots) /\ OfDomain(d, snapshots) # {}
      BY DEF OfDomain
    <3> QED BY <3>1, FirstOf
  <2> QED BY <2>1
<1>2. best \in SUBSET O /\ \A o, p \in best : o.domain = p.domain => o = p
  <2>1. \A o \in best : o \in O /\ o = First(OfDomain(o.domain, snapshots))
    <3> HIDE DEF D
    <3> QED BY <1>1 DEF OfDomain
  <2> HIDE DEF best
  <2> QED BY <2>1
<1>3. IsFiniteSet(best) /\ Orders(R, best)
  <2> HIDE DEF best
  <2> QED BY <1>2, ObservationsFinite, FS_Subset, BeforeOrders
<1>4. \A o \in best : before(o) = Below(best, R, o)
  BY DEF Below, BeforeIn
<1> HIDE DEF best, R, O, D
<1>5. /\ \A o \in best : Cardinality(Below(best, R, o)) \in 0..(Cardinality(best) - 1)
      /\ \A o, p \in best : Cardinality(Below(best, R, o)) = Cardinality(Below(best, R, p)) => o = p
      /\ \A n \in 0..(Cardinality(best) - 1) : \E o \in best : Cardinality(Below(best, R, o)) = n
  BY <1>3, RankExists
<1>6. Cardinality(best) \in Nat
  BY <1>3, FS_CardinalityType
<1>7. /\ \A o \in best : rank(o) \in 1..Cardinality(best)
      /\ \A o, p \in best : rank(o) = rank(p) => o = p
      /\ \A n \in 1..Cardinality(best) : \E o \in best : rank(o) = n
  <2>1. \A o \in best : rank(o) = Cardinality(Below(best, R, o)) + 1
    BY <1>4
  <2> HIDE DEF rank
  <2>2. \A o \in best : rank(o) \in 1..Cardinality(best)
    BY <1>5, <1>6, <2>1
  <2>3. \A o, p \in best : rank(o) = rank(p) => o = p
    <3>1. SUFFICES ASSUME NEW o \in best, NEW p \in best, rank(o) = rank(p) PROVE o = p
      OBVIOUS
    <3>2. Cardinality(Below(best, R, o)) = Cardinality(Below(best, R, p))
      BY <1>5, <1>6, <2>1, <3>1
    <3> QED BY <1>5, <3>2
  <2>4. ASSUME NEW n \in 1..Cardinality(best) PROVE \E o \in best : rank(o) = n
    <3>1. n - 1 \in 0..(Cardinality(best) - 1)
      BY <1>6
    <3>2. PICK o \in best : Cardinality(Below(best, R, o)) = n - 1
      BY <1>5, <3>1
    <3>3. rank(o) = (n - 1) + 1
      BY <2>1, <3>2
    <3> QED BY <3>3
  <2> QED BY <2>2, <2>3, <2>4
<1> HIDE DEF rank
<1>8. IsFiniteSet(chosen) /\ k \in Nat /\ k <= Cardinality(best)
  <2>1. chosen \in SUBSET best
    OBVIOUS
  <2> HIDE DEF chosen
  <2> QED BY <1>3, <2>1, FS_Subset, FS_CardinalityType
<1>9. k <= limit
  <2> DEFINE f == [o \in chosen |-> rank(o)]
  <2>1. f \in Injection(chosen, 1..limit)
    <3>1. \A o \in chosen : f[o] \in 1..limit
      BY <1>6, <1>7
    <3>2. \A o, p \in chosen : f[o] = f[p] => o = p
      BY <1>7
    <3> QED BY <3>1, <3>2 DEF Injection, IsInjective
  <2>2. IsFiniteSet(1..limit) /\ Cardinality(1..limit) = limit
    <3>1. IsFiniteSet(1..limit) /\ Cardinality(1..limit) = IF 1 > limit THEN 0 ELSE limit - 1 + 1
      BY FS_Interval
    <3> QED BY <3>1
  <2> HIDE DEF f, chosen
  <2>3. Cardinality(chosen) <= Cardinality(1..limit)
    BY <2>1, <2>2, FS_Injection
  <2> QED BY <2>2, <2>3
<1>10. \A n \in 1..k : pick(n) \in chosen /\ rank(pick(n)) = n
  <2>1. ASSUME NEW n \in 1..k PROVE \E o \in chosen : rank(o) = n
    <3>1. n \in 1..Cardinality(best) /\ n <= limit
      BY <1>6, <1>8, <1>9
    <3> QED BY <1>7, <3>1
  <2> HIDE DEF chosen, k
  <2> QED BY <2>1
<1>11. SelectCompetitors(snapshots, limit) = [n \in 1..k |-> pick(n).domain]
  BY DEF SelectCompetitors, rank, best, O, D
<1>12. chosen \subseteq best
  OBVIOUS
<1> HIDE DEF chosen, k, pick
<1>13. \A n \in 1..k : pick(n) \in Observations(snapshots)
  BY <1>2, <1>10, <1>12 DEF O
<1>14. ASSUME NEW a \in 1..k, NEW b \in 1..k, pick(a).domain = pick(b).domain
       PROVE  a = b
  <2>1. pick(a) = pick(b)
    BY <1>2, <1>10, <1>12, <1>14
  <2> QED BY <1>10, <2>1
<1>15. Distinct([n \in 1..k |-> pick(n).domain])
  BY <1>14 DEF Distinct
<1>16. k \in 0..limit
  BY <1>8, <1>9
<1> QED BY <1>11, <1>13, <1>15, <1>16

---------------------------------------------------------------------------
(* The evidence of a scan                                                    *)

Classes == {"unknown"} \cup {Rules[i].class : i \in DOMAIN Rules}
Results == {[q EXCEPT !.class = c] : q \in Items, c \in Classes}
OnePlace(results) == \A r, q \in results : r.order = q.order => r = q
Snapshots ==
    {s \in [query : DOMAIN Words, stale : BOOLEAN, results : SUBSET Results,
            features : SUBSET STRING, relevant : BOOLEAN] :
        IsFiniteSet(s.results) /\ OnePlace(s.results)}

Early == {"prefiltering", "listed", "blocked", "discovering_keywords"}

\* Keywords, their metrics and the SERPs of the first of them
EvidenceInv ==
    /\ setup \in Setups
    /\ included \in Seq(DOMAIN Words) /\ Distinct(included)
    /\ metrics \in Seq(Metric) /\ OneEach(metrics)
    /\ \A i \in DOMAIN metrics : metrics[i].granularity = Granularity(setup)
    /\ selected = Keywords(metrics, SerpLimit)
    /\ serps \in Seq(Snapshots)
    /\ Len(serps) <= Len(selected)
    /\ \A i \in DOMAIN serps : serps[i].query = selected[i]
    /\ stage \in Early \cup {"fetching_metrics"} => serps = <<>>

LEMMA ResultsAreResults ==
  ASSUME NEW r \in Results
  PROVE  IsResult(r)
<1>1. PICK q \in Items, c \in Classes : r = [q EXCEPT !.class = c]
  BY DEF Results
<1>2. q \in Item
  BY SerpConstants DEF Items
<1>3. r.class = c
  BY <1>1, <1>2 DEF Item
<1> QED BY <1>1, <1>3 DEF IsResult

LEMMA SerpsShown ==
  ASSUME NEW snapshots \in Seq(Snapshots)
  PROVE  Shown(snapshots)
<1>1. \A i \in DOMAIN snapshots : snapshots[i] \in Snapshots
  BY LenProperties, ElementOfSeq
<1>2. DOMAIN Words \subseteq Int
  BY KeywordConstants
<1>3. \A i \in DOMAIN snapshots : /\ snapshots[i].query \in Int
                                  /\ IsFiniteSet(snapshots[i].results)
                                  /\ snapshots[i].results \in SUBSET Results
  BY <1>1, <1>2 DEF Snapshots
<1> QED BY <1>3, ResultsAreResults DEF Shown

LEMMA ClassOfClasses ==
  ASSUME NEW r, NEW listings
  PROVE  ClassOf(r, listings) \in Classes
<1> DEFINE hits == {i \in DOMAIN Rules :
                      IF Rules[i].class = "local_provider" THEN LocalMatches(r, listings)
                                                           ELSE RuleMatches(Rules[i], r)}
<1>1. ClassOf(r, listings) = IF hits = {} THEN "unknown" ELSE Rules[Min(hits)].class
  BY DEF ClassOf
<1>2. DOMAIN Rules = 1..7
  BY DEF Rules
<1>3. hits \in SUBSET (1..7)
  BY <1>2
<1>4. hits \in SUBSET DOMAIN Rules
  BY <1>2, <1>3
<1> HIDE DEF hits
<1>5. IsFiniteSet(1..7)
  <2>1. 1 \in Int /\ 7 \in Int
    OBVIOUS
  <2> QED BY ONLY <2>1, FS_Interval
<1>6. IsFiniteSet(hits) /\ hits \in SUBSET Int
  <2>1. IsFiniteSet(hits)
    BY ONLY <1>3, <1>5, FS_Subset
  <2> QED BY <1>3, <2>1
<1>7. hits # {} => Min(hits) \in DOMAIN Rules
  BY <1>4, <1>6, MinOf
<1> QED BY <1>1, <1>7 DEF Classes

LEMMA ClassifiedSnapshot ==
  ASSUME NEW s \in Snapshots, NEW listings
  PROVE  Classified(s, listings) \in Snapshots /\ Classified(s, listings).query = s.query
<1> DEFINE f == [r \in s.results |-> [r EXCEPT !.class = ClassOf(r, listings)]]
           new == {f[r] : r \in s.results}
<1>1. Classified(s, listings) = [s EXCEPT !.results = new]
  BY DEF Classified
<1>2. s.results \in SUBSET Results /\ IsFiniteSet(s.results) /\ OnePlace(s.results)
  BY DEF Snapshots
<1>3. new \in SUBSET Results
  <2>1. ASSUME NEW r \in s.results PROVE f[r] \in Results
    <3>1. PICK q \in Items, c \in Classes : r = [q EXCEPT !.class = c]
      BY <1>2 DEF Results
    <3> DEFINE d == ClassOf(r, listings)
    <3>2. d \in Classes
      BY ClassOfClasses
    <3>3. f[r] = [r EXCEPT !.class = d]
      OBVIOUS
    <3> HIDE DEF f, d
    <3>4. [r EXCEPT !.class = d] = [q EXCEPT !.class = d]
      <4>1. q \in Item
        BY SerpConstants DEF Items
      <4> QED BY <3>1, <4>1 DEF Item
    <3> QED BY <3>2, <3>3, <3>4 DEF Results
  <2> HIDE DEF f
  <2> QED BY <2>1
<1>4. IsFiniteSet(new)
  <2> HIDE DEF f
  <2> QED BY <1>2, ImageFinite
<1>5. OnePlace(new)
  <2>1. ASSUME NEW r \in s.results PROVE f[r].order = r.order
    <3>1. PICK q \in Items, c \in Classes : r = [q EXCEPT !.class = c]
      BY <1>2 DEF Results
    <3>2. q \in Item
      BY SerpConstants DEF Items
    <3>3. DOMAIN r = {"order", "url", "domain", "words", "site", "type", "class"}
      BY <3>1, <3>2 DEF Item
    <3> QED BY <3>3
  <2> HIDE DEF f
  <2>2. ASSUME NEW r \in s.results, NEW q \in s.results, f[r].order = f[q].order
        PROVE  f[r] = f[q]
    <3>1. r.order = q.order
      BY <2>1, <2>2
    <3>2. r = q
      BY <1>2, <3>1 DEF OnePlace
    <3> QED BY <3>2
  <2> QED BY <2>2 DEF OnePlace
<1> HIDE DEF new
<1> QED BY <1>1, <1>3, <1>4, <1>5 DEF Snapshots

LEMMA SnapshotOf ==
  ASSUME NEW query \in DOMAIN Words, NEW answer \in SerpAnswers
  PROVE  Snapshot(query, answer) \in Snapshots /\ Snapshot(query, answer).query = query
<1> DEFINE results == {r \in answer.items : r.url # None}
           features == {r.type : r \in answer.items} \ {"organic"}
<1>1. answer.stale \in BOOLEAN /\ IsFiniteSet(answer.items) /\ answer.items \subseteq Item
  BY SerpConstants
<1>2. results \in SUBSET answer.items
  OBVIOUS
<1>3. IsFiniteSet(results)
  <2> HIDE DEF results
  <2> QED BY <1>1, <1>2, FS_Subset
<1>4. results \in SUBSET Results
  <2>1. ASSUME NEW r \in results PROVE r \in Results
    <3>1. r \in Item /\ r \in Items /\ "unknown" \in Classes
      BY <1>1 DEF Items, Classes
    <3>2. r = [r EXCEPT !.class = "unknown"]
      BY <3>1 DEF Item
    <3> QED BY <3>1, <3>2 DEF Results
  <2> QED BY <2>1
<1>5. features \in SUBSET STRING
  BY <1>1 DEF Item
<1>7. OnePlace(results)
  BY SerpConstants DEF OnePlace
<1>6. Snapshot(query, answer) =
        [query |-> query, stale |-> answer.stale, results |-> results, features |-> features,
         relevant |-> Words[query] \cap (Service.words \cup Service.seeds) # {}]
  BY DEF Snapshot
<1> HIDE DEF results, features
<1> QED BY <1>1, <1>3, <1>4, <1>5, <1>6, <1>7 DEF Snapshots

\* The queries are the first keywords, as many as the depth of the scan
LEMMA KeywordsOf ==
  ASSUME NEW ms \in Seq(Metric), NEW limit \in Nat
  PROVE  /\ Keywords(ms, limit) \in Seq(DOMAIN Words)
         /\ Len(Keywords(ms, limit)) = Least(Len(ms), limit)
         /\ DOMAIN Keywords(ms, limit) \subseteq DOMAIN ms
         /\ \A i \in DOMAIN Keywords(ms, limit) : Keywords(ms, limit)[i] = ms[i].keyword
<1> DEFINE n == Least(Len(ms), limit)
           t == [i \in 1..n |-> ms[i].keyword]
<1>1. DOMAIN ms = 1..Len(ms) /\ Len(ms) \in Nat /\ \A i \in DOMAIN ms : ms[i] \in Metric
  BY LenProperties, ElementOfSeq
<1>2. n \in Nat /\ n <= Len(ms)
  BY <1>1 DEF Least
<1>3. Keywords(ms, limit) = t
  BY DEF Keywords
<1> HIDE DEF n
<1>4. \A i \in 1..n : ms[i].keyword \in DOMAIN Words
  BY <1>1, <1>2 DEF Metric
<1>5. t \in Seq(DOMAIN Words) /\ DOMAIN t = 1..n
  BY <1>2, <1>4, IsASeq
<1>6. Len(t) = n
  <2> HIDE DEF t
  <2> QED BY <1>2, <1>5, LenProperties
<1> QED BY <1>1, <1>2, <1>3, <1>5, <1>6 DEF n

LEMMA SerpLimitNat == SerpLimit \in Nat /\ CompetitorLimit \in Nat
BY DEF SerpLimit, CompetitorLimit

\* What get_keyword_metrics answers becomes metrics, one of each keyword
LEMMA AnsweredMetrics ==
  ASSUME EvidenceInv, NEW answer \in MetricAnswers, FetchMetrics(answer)
  PROVE  /\ metrics' \in Seq(Metric) /\ OneEach(metrics')
         /\ \A i \in DOMAIN metrics' : /\ metrics'[i].granularity = Granularity(setup)
                                       /\ metrics'[i].stale = answer.stale
<1> DEFINE pos == {i \in DOMAIN included : answer.of[included[i]] # None}
           ks == At(included, pos)
           record(k) ==
              [keyword |-> k, volume |-> answer.of[k].volume, cpc |-> answer.of[k].cpc,
               paid |-> answer.of[k].paid, intent |-> Intent(k, answer.of[k].intent),
               granularity |-> Granularity(setup), stale |-> answer.stale,
               relevant |-> Words[k] \cap (Service.words \cup Service.seeds) # {}]
           ms == [i \in DOMAIN ks |-> record(ks[i])]
<1>1. metrics' = ScoringMetrics(ms)
  BY DEF FetchMetrics, Answered
<1>2. included \in Seq(DOMAIN Words) /\ Distinct(included) /\ setup \in Setups
  BY DEF EvidenceInv
<1>3. /\ ks \in Seq(DOMAIN Words)
      /\ Distinct(ks)
      /\ \A m \in DOMAIN ks : \E i \in pos : ks[m] = included[i]
  <2>1. pos \subseteq DOMAIN included /\ \A i, j \in pos : included[i] = included[j] => i = j
    BY <1>2 DEF Distinct
  <2> HIDE DEF pos
  <2> QED BY <1>2, <2>1, AtSeq
<1>4. \A m \in DOMAIN ks : ks[m] \in DOMAIN Words /\ answer.of[ks[m]] # None
  <2>1. \A i \in pos : answer.of[included[i]] # None
    OBVIOUS
  <2> HIDE DEF ks, pos
  <2> QED BY <1>3, <2>1, LenProperties, ElementOfSeq
<1> HIDE DEF ks
<1>5. ASSUME NEW k \in DOMAIN Words, answer.of[k] # None
      PROVE  record(k) \in Metric
  <2>1. answer.of[k] \in KeywordAnswer /\ answer.stale \in BOOLEAN
    BY <1>5, MetricConstants
  <2>2. /\ answer.of[k].volume \in Nat \cup {None} /\ answer.of[k].cpc \in Nat \cup {None}
        /\ answer.of[k].paid \in Nat \cup {None} /\ answer.of[k].intent \in STRING \cup {None}
    BY <2>1 DEF KeywordAnswer
  <2>3. Intent(k, answer.of[k].intent) \in Intents
    BY <2>2 DEF Intent, Intents
  <2>4. Granularity(setup) \in Granularities
    BY <1>2 DEF Granularity, Granularities
  <2>5. (Words[k] \cap (Service.words \cup Service.seeds) # {}) \in BOOLEAN
    OBVIOUS
  <2> QED BY <2>1, <2>2, <2>3, <2>4, <2>5 DEF Metric
<1>6. DOMAIN ms = 1..Len(ks) /\ Len(ks) \in Nat /\ DOMAIN ks = 1..Len(ks)
  BY <1>3, LenProperties
<1>7. \A i \in DOMAIN ks : ms[i] \in Metric
  <2>1. \A i \in DOMAIN ks : ms[i] = record(ks[i])
    OBVIOUS
  <2> HIDE DEF record, ms
  <2> QED BY <1>4, <1>5, <2>1
<1>8. ms \in Seq(Metric)
  <2>1. ms = [i \in 1..Len(ks) |-> ms[i]]
    BY <1>6
  <2> HIDE DEF ms
  <2>2. [i \in 1..Len(ks) |-> ms[i]] \in Seq(Metric)
    BY <1>6, <1>7, IsASeq
  <2> QED BY <2>1, <2>2
<1>9. /\ \A i \in DOMAIN ms : ms[i].keyword = ks[i]
      /\ \A i \in DOMAIN ms : Kind(ms[i])[1] = Granularity(setup) /\ Kind(ms[i])[2] = answer.stale
  BY DEF Kind
<1> HIDE DEF ms, record
<1>10. OneEach(ms)
  BY <1>3, <1>6, <1>9 DEF OneEach, Distinct
<1>11. /\ ScoringMetrics(ms) \in Seq(Metric)
       /\ OneEach(ScoringMetrics(ms))
       /\ \A m \in DOMAIN ScoringMetrics(ms) :
             \E i \in DOMAIN ms : Kind(ScoringMetrics(ms)[m]) = Kind(ms[i])
  BY <1>8, <1>10, ScoringMetricsSeq
<1>12. \A m \in DOMAIN ScoringMetrics(ms) :
          /\ ScoringMetrics(ms)[m].granularity = Granularity(setup)
          /\ ScoringMetrics(ms)[m].stale = answer.stale
  <2>1. ASSUME NEW m \in DOMAIN ScoringMetrics(ms)
        PROVE  /\ Kind(ScoringMetrics(ms)[m])[1] = Granularity(setup)
               /\ Kind(ScoringMetrics(ms)[m])[2] = answer.stale
    BY <1>9, <1>11
  <2> QED BY <2>1 DEF Kind
<1> QED BY <1>1, <1>11, <1>12

LEMMA EvidenceInit == Init => EvidenceInv
<1> SUFFICES ASSUME Init PROVE EvidenceInv
  OBVIOUS
<1>1. /\ setup \in Setups /\ included = <<>> /\ metrics = <<>> /\ selected = <<>> /\ serps = <<>>
  BY DEF Init
<1>2. <<>> \in Seq(DOMAIN Words) /\ <<>> \in Seq(Metric) /\ <<>> \in Seq(Snapshots)
  BY EmptySeq
<1>3. Keywords(metrics, SerpLimit) = <<>>
  <2>1. Len(metrics) = 0 /\ SerpLimit \in Nat
    BY <1>1, SerpLimitNat
  <2>2. Least(Len(metrics), SerpLimit) = 0
    BY <2>1 DEF Least
  <2> QED BY <2>2 DEF Keywords
<1> QED BY <1>1, <1>2, <1>3 DEF EvidenceInv, Distinct, OneEach

\* The actions of the scan that leave its keywords and SERPs alone
Untouched == UNCHANGED <<setup, included, metrics, selected, serps>>

LEMMA EvidenceStep == EvidenceInv /\ [Next]_vars => EvidenceInv'
<1> SUFFICES ASSUME EvidenceInv, [Next]_vars PROVE EvidenceInv'
  OBVIOUS
<1>0. setup \in Setups /\ metrics \in Seq(Metric) /\ serps \in Seq(Snapshots)
  BY DEF EvidenceInv
<1>1. ASSUME Untouched,
             stage' \in Early \cup {"fetching_metrics"} => stage \in Early \cup {"fetching_metrics"}
      PROVE  EvidenceInv'
  <2>1. SerpLimit' = SerpLimit
    BY <1>1 DEF Untouched, SerpLimit, Preliminary, Live
  <2> QED BY <1>1, <2>1 DEF Untouched, EvidenceInv, Distinct, OneEach
<1>2. ASSUME NEW list \in CandidateLists, DiscoverKeywords(list)
      PROVE  EvidenceInv'
  <2>1. included' = PlanCandidates(Candidates(setup, list))
    BY <1>2 DEF DiscoverKeywords
  <2>2. included' \in Seq(DOMAIN Words) /\ Distinct(included')
    BY <2>1, CandidatesSeq, PlanCandidatesSeq
  <2>3. UNCHANGED <<setup, metrics, selected, serps>> /\ stage \in Early
    BY <1>2 DEF DiscoverKeywords, Early
  <2>4. SerpLimit' = SerpLimit
    BY <2>3 DEF SerpLimit, Preliminary, Live
  <2> QED BY <2>2, <2>3, <2>4 DEF EvidenceInv, Distinct, OneEach
<1>3. ASSUME NEW answer \in MetricAnswers, FetchMetrics(answer)
      PROVE  EvidenceInv'
  <2>1. /\ metrics' \in Seq(Metric) /\ OneEach(metrics')
        /\ \A i \in DOMAIN metrics' : metrics'[i].granularity = Granularity(setup)
    BY <1>3, AnsweredMetrics
  <2>2. /\ UNCHANGED <<setup, included, serps>> /\ selected' = Keywords(metrics', SerpLimit)
        /\ serps = <<>> /\ stage' \notin Early \cup {"fetching_metrics"}
    BY <1>3 DEF FetchMetrics, EvidenceInv, Early
  <2>3. SerpLimit' = SerpLimit
    BY <2>2 DEF SerpLimit, Preliminary, Live
  <2>4. Len(selected') \in Nat /\ Len(serps') = 0
    <3>1. selected' \in Seq(DOMAIN Words)
      BY <2>1, <2>2, SerpLimitNat, KeywordsOf
    <3> QED BY <2>2, <3>1, LenProperties
  <2> QED BY <2>1, <2>2, <2>3, <2>4 DEF EvidenceInv, Distinct, OneEach
<1>4. ASSUME NEW answer \in SerpAnswers, FetchSerp(answer)
      PROVE  EvidenceInv'
  <2> DEFINE n == Len(serps) + 1
             s == Classified(Snapshot(selected[n], answer), <<>>)
  <2>1. /\ UNCHANGED <<setup, included, metrics, selected>> /\ serps' = Append(serps, s)
        /\ Len(serps) < Len(selected) /\ stage' \notin Early \cup {"fetching_metrics"}
    BY <1>4 DEF FetchSerp, Early
  <2>2. SerpLimit' = SerpLimit
    BY <2>1 DEF SerpLimit, Preliminary, Live
  <2>3. selected \in Seq(DOMAIN Words)
    BY <1>0, SerpLimitNat, KeywordsOf DEF EvidenceInv
  <2>4. selected[n] \in DOMAIN Words
    <3>1. Len(serps) \in Nat /\ Len(selected) \in Nat
      BY <1>0, <2>3, LenProperties
    <3> QED BY <2>1, <2>3, <3>1, ElementOfSeq
  <2>5. s \in Snapshots /\ s.query = selected[n]
    BY <2>4, SnapshotOf, ClassifiedSnapshot
  <2> HIDE DEF s
  <2>6. /\ Append(serps, s) \in Seq(Snapshots)
        /\ Len(Append(serps, s)) = Len(serps) + 1
        /\ \A i \in 1..Len(serps) : Append(serps, s)[i] = serps[i]
        /\ Append(serps, s)[Len(serps) + 1] = s
    BY <1>0, <2>5, AppendProperties
  <2>7. Len(serps') <= Len(selected')
    <3>1. Len(serps) \in Nat /\ Len(selected) \in Nat
      BY <1>0, <2>3, LenProperties
    <3> QED BY <2>1, <2>6, <3>1
  <2>8. \A i \in DOMAIN serps' : serps'[i].query = selected'[i]
    <3>1. ASSUME NEW i \in DOMAIN serps' PROVE serps'[i].query = selected[i]
      <4>1. Len(serps) \in Nat /\ DOMAIN serps' = 1..(Len(serps) + 1)
            /\ DOMAIN serps = 1..Len(serps)
        BY <1>0, <2>1, <2>6, LenProperties
      <4>2. CASE i \in 1..Len(serps)
        BY <4>1, <4>2, <2>1, <2>6 DEF EvidenceInv
      <4>3. CASE i = n
        BY <4>3, <2>1, <2>5, <2>6
      <4> QED BY <4>1, <4>2, <4>3
    <3> QED BY <2>1, <3>1
  <2> QED BY <2>1, <2>2, <2>6, <2>7, <2>8 DEF EvidenceInv, Distinct, OneEach
<1>5. ASSUME NEW list \in ProviderLists, FetchProviders(list)
      PROVE  EvidenceInv'
  <2> DEFINE again(i) == Classified(serps[i], providers')
  <2>1. /\ UNCHANGED <<setup, included, metrics, selected>>
        /\ serps' = [i \in DOMAIN serps |-> again(i)]
        /\ stage' \notin Early \cup {"fetching_metrics"}
    BY <1>5 DEF FetchProviders, Early
  <2>2. SerpLimit' = SerpLimit
    BY <2>1 DEF SerpLimit, Preliminary, Live
  <2>3. /\ DOMAIN serps = 1..Len(serps) /\ Len(serps) \in Nat
        /\ \A i \in DOMAIN serps : serps[i] \in Snapshots
    BY <1>0, LenProperties, ElementOfSeq
  <2>4. \A i \in DOMAIN serps : again(i) \in Snapshots /\ again(i).query = serps[i].query
    BY <2>3, ClassifiedSnapshot
  <2> HIDE DEF again
  <2>5. serps' \in Seq(Snapshots) /\ DOMAIN serps' = DOMAIN serps
    BY <2>1, <2>3, <2>4, IsASeq
  <2>6. Len(serps') = Len(serps)
    BY <2>3, <2>5, LenProperties
  <2>7. \A i \in DOMAIN serps' : serps'[i].query = selected[i]
    BY <2>1, <2>4, <2>5 DEF EvidenceInv
  <2> QED BY <2>1, <2>2, <2>5, <2>6, <2>7 DEF EvidenceInv, Distinct, OneEach
<1>6. ASSUME NEW answer \in CompetitorAnswers, FetchCompetitors(answer)
      PROVE  EvidenceInv'
  BY <1>1, <1>6 DEF FetchCompetitors, Untouched, Early
<1>7. ASSUME NEW r \in DOMAIN Releases, Activate(r)
      PROVE  EvidenceInv'
  BY <1>1, <1>7 DEF Activate, evidence, Untouched
<1>8. CASE ReadManifest
  BY <1>1, <1>8 DEF ReadManifest, evidence, Untouched
<1>9. CASE ReadRecords
  BY <1>1, <1>9 DEF ReadRecords, evidence, Untouched
<1>10. CASE ReadCounty
  BY <1>1, <1>10 DEF ReadCounty, evidence, Untouched
<1>11. CASE AssessMarket
  BY <1>1, <1>11 DEF AssessMarket, evidence, Untouched
<1>12. CASE ListMarkets
  BY <1>1, <1>12 DEF ListMarkets, evidence, Untouched, Early
<1>13. CASE PlanScan
  BY <1>1, <1>13 DEF PlanScan, evidence, Untouched, Early
<1>14. CASE ScoreScan
  BY <1>1, <1>14 DEF ScoreScan, Untouched, Early
<1>15. CASE Publish
  BY <1>1, <1>15 DEF Publish, evidence, Untouched, Early
<1>16. CASE Fail
  BY <1>1, <1>16 DEF Fail, evidence, Untouched, Early
<1>17. CASE UNCHANGED vars
  BY <1>1, <1>17 DEF vars, evidence, Untouched
<1> QED
  BY <1>2, <1>3, <1>4, <1>5, <1>6, <1>7, <1>8, <1>9, <1>10, <1>11, <1>12, <1>13, <1>14, <1>15,
     <1>16, <1>17 DEF Next

---------------------------------------------------------------------------
(* The calls of a scan and its plan                                          *)

LEMMA EndpointSet ==
    Endpoints = {"keyword_discovery", "keyword_metrics", "serp", "competitors",
                 "provider_discovery"}
BY DEF Endpoints, Price

LEMMA EndpointSum ==
  ASSUME NEW f, \A e \in Endpoints : f[e] \in Int
  PROVE  SumFunctionOnSet(f, Endpoints) =
            f["keyword_discovery"] + f["keyword_metrics"] + f["serp"] + f["competitors"]
              + f["provider_discovery"]
<1> DEFINE A == {"keyword_discovery"}
           B == A \cup {"keyword_metrics"}
           C == B \cup {"serp"}
           D == C \cup {"competitors"}
<1>0. IsFiniteSet(A) /\ IsFiniteSet(B) /\ IsFiniteSet(C) /\ IsFiniteSet(D)
  <2>1. IsFiniteSet(A)
    BY FS_Singleton
  <2>2. IsFiniteSet(B)
    <3> HIDE DEF A
    <3> QED BY <2>1, FS_AddElement
  <2>3. IsFiniteSet(C)
    <3> HIDE DEF B
    <3> QED BY <2>2, FS_AddElement
  <2>4. IsFiniteSet(D)
    <3> HIDE DEF C
    <3> QED BY <2>3, FS_AddElement
  <2> QED BY <2>1, <2>2, <2>3, <2>4
<1>1. SumFunctionOnSet(f, A) = f["keyword_discovery"]
  <2>1. "keyword_discovery" \in A /\ A \ {"keyword_discovery"} = {} /\ \A x \in A : f[x] \in Int
    BY EndpointSet
  <2>2. f["keyword_discovery"] \in Int
    BY <2>1
  <2> HIDE DEF A
  <2>3. SumFunctionOnSet(f, A) = f["keyword_discovery"] + SumFunctionOnSet(f, A \ {"keyword_discovery"})
    BY <1>0, <2>1, SumStep
  <2>4. SumFunctionOnSet(f, A \ {"keyword_discovery"}) = 0
    BY <2>1, SumEmpty
  <2> DEFINE a == f["keyword_discovery"]
             s == SumFunctionOnSet(f, A \ {"keyword_discovery"})
  <2>5. a \in Int /\ s = 0 /\ SumFunctionOnSet(f, A) = a + s
    BY <2>2, <2>3, <2>4
  <2> HIDE DEF a, s
  <2>6. SumFunctionOnSet(f, A) = a
    BY <2>5
  <2> QED BY <2>6 DEF a
<1>2. SumFunctionOnSet(f, B) = f["keyword_metrics"] + SumFunctionOnSet(f, A)
  <2>1. "keyword_metrics" \notin A /\ f["keyword_metrics"] \in Int /\ \A x \in A : f[x] \in Int
    BY EndpointSet
  <2> HIDE DEF A
  <2> QED BY <1>0, <2>1, SumAdd
<1>3. SumFunctionOnSet(f, C) = f["serp"] + SumFunctionOnSet(f, B)
  <2>1. "serp" \notin B /\ f["serp"] \in Int /\ \A x \in B : f[x] \in Int
    BY EndpointSet
  <2> HIDE DEF B
  <2> QED BY <1>0, <2>1, SumAdd
<1>4. SumFunctionOnSet(f, D) = f["competitors"] + SumFunctionOnSet(f, C)
  <2>1. "competitors" \notin C /\ f["competitors"] \in Int /\ \A x \in C : f[x] \in Int
    BY EndpointSet
  <2> HIDE DEF C
  <2> QED BY <1>0, <2>1, SumAdd
<1>5. SumFunctionOnSet(f, D \cup {"provider_discovery"}) =
         f["provider_discovery"] + SumFunctionOnSet(f, D)
  <2>1. "provider_discovery" \notin D /\ f["provider_discovery"] \in Int /\ \A x \in D : f[x] \in Int
    BY EndpointSet
  <2> HIDE DEF D
  <2> QED BY <1>0, <2>1, SumAdd
<1>6. D \cup {"provider_discovery"} = Endpoints
  BY EndpointSet
<1>7. /\ f["keyword_discovery"] \in Int /\ f["keyword_metrics"] \in Int /\ f["serp"] \in Int
      /\ f["competitors"] \in Int /\ f["provider_discovery"] \in Int
  BY EndpointSet
<1> DEFINE a == f["keyword_discovery"]
           b == f["keyword_metrics"]
           c == f["serp"]
           d == f["competitors"]
           p == f["provider_discovery"]
           sum(S) == SumFunctionOnSet(f, S)
<1>8. /\ a \in Int /\ b \in Int /\ c \in Int /\ d \in Int /\ p \in Int
      /\ sum(A) = a /\ sum(B) = b + sum(A) /\ sum(C) = c + sum(B) /\ sum(D) = d + sum(C)
      /\ sum(Endpoints) = p + sum(D)
  <2> HIDE DEF A, B, C, D
  <2> QED BY <1>1, <1>2, <1>3, <1>4, <1>5, <1>6, <1>7
<1>9. sum(Endpoints) = a + b + c + d + p
  <2> HIDE DEF A, B, C, D, a, b, c, d, p, sum
  <2> QED BY <1>8
<1> QED BY <1>9

\* What n calls of each endpoint cost
Cost(n) ==
    12 * n["keyword_discovery"] + 12 * n["keyword_metrics"] + 2 * n["serp"]
      + 20 * n["competitors"] + 10 * n["provider_discovery"]

LEMMA ChargeIsCost ==
  ASSUME NEW su, NEW n \in [Endpoints -> Int], su.mode # "sandbox"
  PROVE  Charge(su, n) = Cost(n)
<1> DEFINE f == [e \in Endpoints |-> Price[e] * n[e]]
<1>1. \A e \in Endpoints : f[e] \in Int
  BY EndpointSet DEF Price
<1>2. Charge(su, n) = SumFunctionOnSet(f, Endpoints)
  BY DEF Charge, SumOver
<1>3. /\ f["keyword_discovery"] = 12 * n["keyword_discovery"]
      /\ f["keyword_metrics"] = 12 * n["keyword_metrics"]
      /\ f["serp"] = 2 * n["serp"]
      /\ f["competitors"] = 20 * n["competitors"]
      /\ f["provider_discovery"] = 10 * n["provider_discovery"]
  BY EndpointSet DEF Price
<1> HIDE DEF f
<1> QED BY <1>1, <1>2, <1>3, EndpointSum DEF Cost

\* The plan of this scan, whether or not it has been made
ThePlan == ScanPlan(setup, Len(Seeds))

\* The calls that were not answered by what the cache still has
Paid(e) == IF e \in RequestKnown THEN made[e] - Least(made[e], setup.kept[e]) ELSE made[e]
PaidCalls == [e \in Endpoints |-> Paid(e)]

Working == {"discovering_keywords", "fetching_metrics", "fetching_serps", "fetching_providers",
            "scoring", "persisting_results", "completed"}

\* The endpoints a scan has yet to call, by its stage
NotYet ==
    CASE stage = "fetching_metrics" -> Endpoints \ {"keyword_discovery"}
      [] stage = "fetching_serps" -> {"competitors", "provider_discovery"}
      [] stage = "fetching_providers" -> {"provider_discovery"}
      [] OTHER -> {}

\* The calls are within the plan, and what they cost is known from their number:
\* not inductive without the stage each endpoint is called at
CallsInv ==
    /\ stage \in Early \cup Working \cup {"failed"}
    /\ made \in [Endpoints -> Nat]
    /\ spent \in Nat
    /\ plan = None \/ plan = ThePlan
    /\ stage \in Early => made = NoCalls /\ spent = 0
    /\ stage \in Working => ~ThePlan.blocked
    /\ \A e \in NotYet : made[e] = 0
    /\ setup.mode # "live" => spent = 0
    /\ spent > 0 => ~ThePlan.blocked
    /\ \A e \in Endpoints : made[e] <= ThePlan.calls[e]
    /\ spent <= Cost(PaidCalls)
    /\ stage = "fetching_serps" => made["serp"] <= Len(serps)

LEMMA PriceNat == \A e \in Endpoints : Price[e] \in Nat
BY EndpointSet DEF Price

LEMMA CostStep ==
  ASSUME NEW p \in [Endpoints -> Int], NEW q \in [Endpoints -> Int], NEW e \in Endpoints,
         \A f \in Endpoints \ {e} : q[f] = p[f]
  PROVE  Cost(q) = Cost(p) + Price[e] * (q[e] - p[e]) /\ Cost(p) \in Int
<1>1. /\ p["keyword_discovery"] \in Int /\ p["keyword_metrics"] \in Int /\ p["serp"] \in Int
      /\ p["competitors"] \in Int /\ p["provider_discovery"] \in Int
  BY EndpointSet
<1>2. /\ q["keyword_discovery"] \in Int /\ q["keyword_metrics"] \in Int /\ q["serp"] \in Int
      /\ q["competitors"] \in Int /\ q["provider_discovery"] \in Int
  BY EndpointSet
<1>3. CASE e = "keyword_discovery"
  BY <1>1, <1>2, <1>3, EndpointSet DEF Cost, Price
<1>4. CASE e = "keyword_metrics"
  BY <1>1, <1>2, <1>4, EndpointSet DEF Cost, Price
<1>5. CASE e = "serp"
  BY <1>1, <1>2, <1>5, EndpointSet DEF Cost, Price
<1>6. CASE e = "competitors"
  BY <1>1, <1>2, <1>6, EndpointSet DEF Cost, Price
<1>7. CASE e = "provider_discovery"
  BY <1>1, <1>2, <1>7, EndpointSet DEF Cost, Price
<1> QED BY <1>3, <1>4, <1>5, <1>6, <1>7, EndpointSet

LEMMA CostMono ==
  ASSUME NEW p \in [Endpoints -> Int], NEW q \in [Endpoints -> Int],
         \A e \in Endpoints : p[e] <= q[e]
  PROVE  Cost(p) <= Cost(q) /\ Cost(p) \in Int /\ Cost(q) \in Int
BY EndpointSet DEF Cost

\* The calls of an admitted live scan
Admitted == PlannedCalls(setup.profile, Len(Seeds))

LEMMA PlanCalls ==
  ASSUME setup \in Setups
  PROVE  /\ Admitted \in [Endpoints -> Nat]
         /\ ThePlan.calls \in [Endpoints -> Nat]
         /\ Live(setup) /\ ~ThePlan.blocked => ThePlan.calls = Admitted
         /\ ~Live(setup) => ThePlan.calls = NoCalls
<1>1. Len(Seeds) \in Nat
  BY KeywordConstants, LenProperties
<1>2. Admitted \in [Endpoints -> Nat]
  <2>1. Least(Len(Seeds), SeedLimit(setup.profile)) \in Nat
    BY <1>1 DEF Least, SeedLimit
  <2> QED BY <2>1, EndpointSet DEF Admitted, PlannedCalls
<1>3. NoCalls \in [Endpoints -> Nat]
  BY DEF NoCalls
<1>4. /\ ~Live(setup) \/ SwitchedOff(setup) =>
            ThePlan.calls = NoCalls /\ ThePlan.blocked = Live(setup)
      /\ ~(~Live(setup) \/ SwitchedOff(setup)) => ThePlan.calls = Admitted
  BY DEF ThePlan, ScanPlan, Admitted
<1> QED BY <1>2, <1>3, <1>4

\* What the calls of one action leave of CallsInv
Accounted ==
    /\ made \in [Endpoints -> Nat]
    /\ spent \in Nat
    /\ plan = None \/ plan = ThePlan
    /\ setup.mode # "live" => spent = 0
    /\ spent > 0 => ~ThePlan.blocked
    /\ \A e \in Endpoints : made[e] <= ThePlan.calls[e]
    /\ spent <= Cost(PaidCalls)

LEMMA CallStep ==
  ASSUME setup \in Setups, setup' = setup, CallsInv, ~ThePlan.blocked,
         NEW e \in Endpoints, NEW n \in Nat, Call(e, n),
         e \in RequestKnown => made[e] = 0,
         Live(setup) => made[e] + n <= Admitted[e]
  PROVE  /\ Accounted'
         /\ \A f \in Endpoints \ {e} : made'[f] = made[f]
         /\ made'[e] <= made[e] + n
<1> DEFINE free == IF e \in RequestKnown THEN Least(n, setup.kept[e])
                   ELSE IF setup.warm THEN n ELSE 0
<1>1. /\ made' = IF Live(setup) THEN [made EXCEPT ![e] = @ + n] ELSE made
      /\ spent' = IF setup.mode = "live" THEN spent + Price[e] * (n - free) ELSE spent
      /\ plan' = plan
  BY DEF Call
<1>2. made \in [Endpoints -> Nat] /\ spent \in Nat /\ spent <= Cost(PaidCalls)
  BY DEF CallsInv
<1>3. setup.kept \in [Endpoints -> Nat]
  BY SetupConstants
<1>4. free \in 0..n
  BY <1>3 DEF Least
<1>5. ThePlan' = ThePlan
  BY DEF ThePlan
<1>6. made' \in [Endpoints -> Nat] /\ (\A f \in Endpoints \ {e} : made'[f] = made[f])
      /\ made'[e] <= made[e] + n
  BY <1>1, <1>2
<1>7. \A f \in Endpoints : made'[f] <= ThePlan.calls[f]
  <2>1. CASE ~Live(setup)
    BY <1>1, <2>1 DEF CallsInv
  <2>2. CASE Live(setup)
    <3>1. ThePlan.calls = Admitted
      BY <2>2, PlanCalls
    <3>2. made'[e] = made[e] + n
      BY <1>1, <1>2, <2>2
    <3>3. \A f \in Endpoints \ {e} : made'[f] <= ThePlan.calls[f]
      BY <1>6 DEF CallsInv
    <3> QED BY <2>2, <3>1, <3>2, <3>3
  <2> QED BY <2>1, <2>2
<1>8. Price[e] \in Nat
  BY PriceNat
<1>9. spent' \in Nat
  <2>1. Price[e] * (n - free) \in Nat
    <3> HIDE DEF free
    <3>1. n - free \in Nat
      BY <1>4
    <3> QED BY <1>8, <3>1
  <2> HIDE DEF free
  <2> QED BY <1>1, <1>2, <2>1
<1>10. PaidCalls \in [Endpoints -> Int] /\ PaidCalls' \in [Endpoints -> Int]
  BY <1>2, <1>3, <1>6 DEF PaidCalls, Paid, Least
<1>11. \A f \in Endpoints \ {e} : PaidCalls'[f] = PaidCalls[f]
  BY <1>6 DEF PaidCalls, Paid
<1>12. Cost(PaidCalls)' = Cost(PaidCalls) + Price[e] * (PaidCalls'[e] - PaidCalls[e])
       /\ Cost(PaidCalls) \in Int
  <2> DEFINE p == PaidCalls
             q == PaidCalls'
  <2>1. p \in [Endpoints -> Int] /\ q \in [Endpoints -> Int]
        /\ \A f \in Endpoints \ {e} : q[f] = p[f]
    BY <1>10, <1>11
  <2>2. Cost(PaidCalls)' = Cost(q)
    BY DEF Cost
  <2> HIDE DEF p, q
  <2>3. Cost(q) = Cost(p) + Price[e] * (q[e] - p[e]) /\ Cost(p) \in Int
    BY <2>1, CostStep
  <2> QED BY <2>2, <2>3 DEF p, q
<1>13. spent' <= Cost(PaidCalls)'
  <2>1. CASE setup.mode # "live"
    <3>1. spent' = 0 /\ spent = 0
      BY <1>1, <2>1 DEF CallsInv
    <3>2. \A f \in Endpoints : PaidCalls'[f] >= PaidCalls[f]
      <4>1. PaidCalls'[e] >= PaidCalls[e]
        <5>1. made'[e] = made[e] \/ made'[e] = made[e] + n
          BY <1>1, <1>2
        <5>2. made[e] \in Nat /\ made'[e] \in Nat /\ setup.kept[e] \in Nat
          BY <1>2, <1>3, <1>6
        <5>3. PaidCalls[e] = Paid(e) /\ PaidCalls'[e] = Paid(e)'
          BY DEF PaidCalls
        <5>4. CASE e \in RequestKnown
          <6>1. /\ Paid(e) = made[e] - Least(made[e], setup.kept[e])
                /\ Paid(e)' = made'[e] - Least(made'[e], setup.kept[e])
            BY <5>4 DEF Paid
          <6> DEFINE a == made[e]
                     b == made'[e]
                     c == setup.kept[e]
          <6>2. a \in Nat /\ b \in Nat /\ c \in Nat /\ a <= b
            BY <5>1, <5>2
          <6> HIDE DEF a, b, c
          <6>3. a - Least(a, c) <= b - Least(b, c)
            BY <6>2 DEF Least
          <6> QED BY <5>3, <6>1, <6>3 DEF a, b, c
        <5>5. CASE e \notin RequestKnown
          BY <5>1, <5>2, <5>3, <5>5 DEF Paid
        <5> QED BY <5>4, <5>5
      <4> QED BY <1>10, <1>11, <4>1
    <3>3. PaidCalls'[e] - PaidCalls[e] \in Nat
      BY <1>10, <3>2
    <3>4. Price[e] * (PaidCalls'[e] - PaidCalls[e]) \in Nat
      BY <1>8, <3>3
    <3> QED BY <1>2, <1>12, <3>1, <3>4
  <2>2. CASE setup.mode = "live"
    <3>1. Live(setup)
      BY <2>2 DEF Live
    <3>2. made'[e] = made[e] + n /\ spent' = spent + Price[e] * (n - free)
      BY <1>1, <1>2, <2>2, <3>1
    <3>3. PaidCalls'[e] - PaidCalls[e] \in Int /\ PaidCalls'[e] - PaidCalls[e] >= n - free
      <4>1. made[e] \in Nat /\ made'[e] \in Nat /\ setup.kept[e] \in Nat
        BY <1>2, <1>3, <1>6
      <4>2. PaidCalls[e] = Paid(e) /\ PaidCalls'[e] = Paid(e)'
        BY DEF PaidCalls
      <4>3. CASE e \in RequestKnown
        BY <3>2, <4>1, <4>2, <4>3 DEF Paid, Least
      <4>4. CASE e \notin RequestKnown
        BY <3>2, <4>1, <4>2, <4>4 DEF Paid
      <4> QED BY <4>3, <4>4
    <3> DEFINE d == PaidCalls'[e] - PaidCalls[e]
               m == n - free
    <3>4. d \in Int /\ m \in Int /\ d >= m
      <4>1. m \in Int
        <5> HIDE DEF free
        <5> QED BY <1>4
      <4> QED BY <3>3, <4>1
    <3> HIDE DEF d, m
    <3>5. Price[e] * m <= Price[e] * d /\ Price[e] * m \in Int /\ Price[e] * d \in Int
      BY <1>8, <3>4
    <3>6. spent' = spent + Price[e] * m /\ Cost(PaidCalls)' = Cost(PaidCalls) + Price[e] * d
      BY <1>12, <3>2 DEF d, m
    <3> QED BY <1>2, <1>12, <3>5, <3>6
  <2> QED BY <2>1, <2>2
<1>14. plan' = None \/ plan' = ThePlan'
  BY <1>1, <1>5 DEF CallsInv
<1>15. setup'.mode # "live" => spent' = 0
  BY <1>1 DEF CallsInv
<1> HIDE DEF free
<1> QED BY <1>5, <1>6, <1>7, <1>9, <1>13, <1>14, <1>15 DEF Accounted

LEMMA CallsInit == Init => CallsInv
<1> SUFFICES ASSUME Init PROVE CallsInv
  OBVIOUS
<1>1. /\ setup \in Setups /\ stage = "prefiltering" /\ plan = None /\ made = NoCalls /\ spent = 0
  BY DEF Init
<1>2. made \in [Endpoints -> Nat] /\ \A e \in Endpoints : made[e] = 0
  BY <1>1 DEF NoCalls
<1>3. \A e \in Endpoints : made[e] <= ThePlan.calls[e]
  BY <1>1, <1>2, PlanCalls
<1>4. Cost(PaidCalls) \in Nat
  <2>1. \A e \in Endpoints : PaidCalls[e] = 0
    <3>1. setup.kept \in [Endpoints -> Nat]
      BY <1>1, SetupConstants
    <3> QED BY <1>2, <3>1 DEF PaidCalls, Paid, Least
  <2> QED BY <2>1, EndpointSet DEF Cost
<1>5. NotYet = {}
  BY <1>1 DEF NotYet
<1> QED BY <1>1, <1>2, <1>3, <1>4, <1>5 DEF CallsInv, Early, Working

LEMMA CallsStep == EvidenceInv /\ CallsInv /\ [Next]_vars => CallsInv'
<1> SUFFICES ASSUME EvidenceInv, CallsInv, [Next]_vars PROVE CallsInv'
  OBVIOUS
<1>0. /\ setup \in Setups /\ made \in [Endpoints -> Nat]
      /\ serps \in Seq(Snapshots) /\ Len(serps) \in Nat
  BY LenProperties DEF EvidenceInv, CallsInv
<1>1. ASSUME setup' = setup, calls' = calls, serps' = serps,
             stage' \in Early \cup Working \cup {"failed"},
             stage' \in Early => stage \in Early,
             stage' \in Working => stage \in Working,
             NotYet' \subseteq NotYet,
             stage' = "fetching_serps" => stage = "fetching_serps"
      PROVE  CallsInv'
  <2>1. ThePlan' = ThePlan /\ PaidCalls' = PaidCalls
    BY <1>1 DEF ThePlan, PaidCalls, Paid, calls
  <2>2. Cost(PaidCalls)' = Cost(PaidCalls)
    BY <2>1 DEF Cost
  <2>3. made' = made /\ spent' = spent /\ plan' = plan
    BY <1>1 DEF calls
  <2> QED BY <1>1, <2>1, <2>2, <2>3 DEF CallsInv
<1>2. ASSUME Accounted', setup' = setup, stage \in Working, stage' \in Working \ Early,
             \A e \in NotYet' : made'[e] = 0,
             stage' = "fetching_serps" => made'["serp"] <= Len(serps')
      PROVE  CallsInv'
  <2>1. ~ThePlan'.blocked
    BY <1>2 DEF ThePlan, CallsInv
  <2> QED BY <1>2, <2>1 DEF CallsInv, Accounted
<1>3. ASSUME NEW list \in CandidateLists, DiscoverKeywords(list)
      PROVE  CallsInv'
  <2> DEFINE e == "keyword_discovery"
             n == Len(AskedSeeds(setup))
  <2>1. /\ stage = "discovering_keywords" /\ stage' = "fetching_metrics" /\ setup' = setup
        /\ Call(e, n)
    BY <1>3 DEF DiscoverKeywords
  <2>2. made = NoCalls /\ ~ThePlan.blocked
    BY <2>1 DEF CallsInv, Early, Working
  <2>3. n \in Nat /\ n = Admitted[e]
    <3>1. Len(Seeds) \in Nat
      BY KeywordConstants, LenProperties
    <3>2. n = Least(Len(Seeds), SeedLimit(setup.profile))
      BY AskedSeedsSeq
    <3> QED BY <3>1, <3>2 DEF Least, SeedLimit, Admitted, PlannedCalls
  <2>4. e \in Endpoints /\ made[e] = 0
    BY <2>2, EndpointSet DEF NoCalls
  <2> HIDE DEF n
  <2>5. /\ Accounted' /\ \A f \in Endpoints \ {e} : made'[f] = made[f]
    BY <1>0, <2>1, <2>2, <2>3, <2>4, CallStep
  <2>6. NotYet' = Endpoints \ {e}
    BY <2>1 DEF NotYet
  <2>7. \A f \in NotYet' : made'[f] = 0
    BY <2>2, <2>5, <2>6 DEF NoCalls
  <2> QED BY <1>2, <2>1, <2>5, <2>7 DEF Working, Early
<1>4. ASSUME NEW answer \in MetricAnswers, FetchMetrics(answer)
      PROVE  CallsInv'
  <2> DEFINE e == "keyword_metrics"
             n == IF included = <<>> THEN 0 ELSE 1
  <2>1. /\ stage = "fetching_metrics" /\ stage' = "fetching_serps" /\ setup' = setup
        /\ Call(e, n) /\ serps' = serps
    BY <1>4 DEF FetchMetrics
  <2>2. NotYet = Endpoints \ {"keyword_discovery"} /\ ~ThePlan.blocked
    BY <2>1 DEF CallsInv, NotYet, Working
  <2>3. n \in Nat /\ n <= Admitted[e]
    BY DEF Admitted, PlannedCalls
  <2>4. e \in Endpoints /\ made[e] = 0 /\ made["serp"] = 0 /\ made["competitors"] = 0
        /\ made["provider_discovery"] = 0
    BY <2>2, EndpointSet DEF CallsInv
  <2> HIDE DEF n
  <2>5. /\ Accounted' /\ \A f \in Endpoints \ {e} : made'[f] = made[f]
    BY <1>0, <2>1, <2>2, <2>3, <2>4, CallStep
  <2>6. NotYet' = {"competitors", "provider_discovery"}
    BY <2>1 DEF NotYet
  <2>7. (\A f \in NotYet' : made'[f] = 0) /\ made'["serp"] = 0
    BY <2>4, <2>5, <2>6, EndpointSet
  <2> QED BY <1>0, <1>2, <2>1, <2>5, <2>7 DEF Working, Early
<1>5. ASSUME NEW answer \in SerpAnswers, FetchSerp(answer)
      PROVE  CallsInv'
  <2> DEFINE e == "serp"
  <2>1. /\ stage = "fetching_serps" /\ stage' = "fetching_serps" /\ setup' = setup
        /\ Call(e, 1) /\ Len(serps) < Len(selected)
        /\ serps' = Append(serps, Classified(Snapshot(selected[Len(serps) + 1], answer), <<>>))
    BY <1>5 DEF FetchSerp
  <2>2. ~ThePlan.blocked /\ made[e] <= Len(serps) /\ NotYet = {"competitors", "provider_discovery"}
        /\ made["competitors"] = 0 /\ made["provider_discovery"] = 0
    BY <2>1 DEF CallsInv, NotYet, Working
  <2>3. Len(selected) \in Nat /\ Len(selected) <= SerpLimit /\ SerpLimit \in Nat
    <3>1. metrics \in Seq(Metric) /\ selected = Keywords(metrics, SerpLimit)
      BY DEF EvidenceInv
    <3>2. Len(metrics) \in Nat /\ SerpLimit \in Nat
      BY <3>1, LenProperties, SerpLimitNat
    <3>3. Len(selected) = Least(Len(metrics), SerpLimit)
      BY <3>1, <3>2, KeywordsOf
    <3> QED BY <3>2, <3>3 DEF Least
  <2>4. Live(setup) => Admitted[e] = SerpLimit
    BY <1>0, SetupConstants DEF Admitted, PlannedCalls, SerpLimit, Preliminary
  <2>5. e \in Endpoints /\ e \notin RequestKnown /\ made[e] \in Nat
    BY <1>0, EndpointSet DEF RequestKnown
  <2>6. Live(setup) => made[e] + 1 <= Admitted[e]
    BY <1>0, <2>1, <2>2, <2>3, <2>4, <2>5
  <2>7. /\ Accounted' /\ \A f \in Endpoints \ {e} : made'[f] = made[f]
        /\ made'[e] <= made[e] + 1
    BY <1>0, <2>1, <2>2, <2>5, <2>6, CallStep
  <2>8. NotYet' = {"competitors", "provider_discovery"}
    BY <2>1 DEF NotYet
  <2>9. \A f \in NotYet' : made'[f] = 0
    BY <2>2, <2>7, <2>8, EndpointSet
  <2>10. Len(serps') = Len(serps) + 1
    <3>1. selected \in Seq(DOMAIN Words)
      BY SerpLimitNat, KeywordsOf DEF EvidenceInv
    <3>2. selected[Len(serps) + 1] \in DOMAIN Words
      BY <1>0, <2>1, <2>3, <3>1, ElementOfSeq
    <3>3. Classified(Snapshot(selected[Len(serps) + 1], answer), <<>>) \in Snapshots
      BY <3>2, SnapshotOf, ClassifiedSnapshot
    <3> QED BY <1>0, <2>1, <3>3, AppendProperties
  <2>11. made'["serp"] <= Len(serps')
    <3>1. made'[e] \in Nat
      BY <2>5, <2>7 DEF Accounted
    <3> QED BY <1>0, <2>2, <2>5, <2>7, <2>10, <3>1
  <2> QED BY <1>2, <2>1, <2>7, <2>9, <2>11 DEF Working, Early
<1>6. ASSUME NEW answer \in CompetitorAnswers, FetchCompetitors(answer)
      PROVE  CallsInv'
  <2> DEFINE e == "competitors"
             n == Len(SelectCompetitors(serps, CompetitorLimit))
  <2>1. /\ stage = "fetching_serps" /\ stage' = "fetching_providers" /\ setup' = setup
        /\ Call(e, n)
    BY <1>6 DEF FetchCompetitors
  <2>2. ~ThePlan.blocked /\ made[e] = 0 /\ made["provider_discovery"] = 0
    BY <2>1 DEF CallsInv, NotYet, Working
  <2>3. n \in Nat /\ n <= CompetitorLimit
    <3>1. PICK k \in 0..CompetitorLimit : DOMAIN SelectCompetitors(serps, CompetitorLimit) = 1..k
      BY <1>0, SerpLimitNat, SerpsShown, SelectedDomains
    <3>2. k \in Nat /\ k <= CompetitorLimit
      BY <3>1, SerpLimitNat
    <3>3. n = k
      BY <3>1, <3>2
    <3> QED BY <3>2, <3>3
  <2>4. Live(setup) => Admitted[e] = CompetitorLimit
    BY <1>0, SetupConstants DEF Admitted, PlannedCalls, CompetitorLimit, Preliminary
  <2>5. e \in Endpoints /\ e \notin RequestKnown
    BY EndpointSet DEF RequestKnown
  <2> HIDE DEF n
  <2>6. Live(setup) => made[e] + n <= Admitted[e]
    BY <2>2, <2>3, <2>4
  <2>7. /\ Accounted' /\ \A f \in Endpoints \ {e} : made'[f] = made[f]
    BY <1>0, <2>1, <2>2, <2>3, <2>5, <2>6, CallStep
  <2>8. NotYet' = {"provider_discovery"}
    BY <2>1 DEF NotYet
  <2>9. \A f \in NotYet' : made'[f] = 0
    BY <2>2, <2>7, <2>8, EndpointSet
  <2> QED BY <1>2, <2>1, <2>7, <2>9 DEF Working, Early
<1>7. ASSUME NEW list \in ProviderLists, FetchProviders(list)
      PROVE  CallsInv'
  <2> DEFINE e == "provider_discovery"
  <2>1. /\ stage = "fetching_providers" /\ stage' = "scoring" /\ setup' = setup
        /\ Call(e, 1)
    BY <1>7 DEF FetchProviders
  <2>2. ~ThePlan.blocked /\ made[e] = 0
    BY <2>1 DEF CallsInv, NotYet, Working
  <2>3. e \in Endpoints /\ Admitted[e] = 1
    BY EndpointSet DEF Admitted, PlannedCalls
  <2>4. Accounted'
    BY <1>0, <2>1, <2>2, <2>3, CallStep
  <2>5. NotYet' = {}
    BY <2>1 DEF NotYet
  <2> QED BY <1>2, <2>1, <2>4, <2>5 DEF Working, Early
<1>8. CASE PlanScan
  <2>1. /\ stage = "prefiltering" /\ setup' = setup /\ plan' = ThePlan /\ made' = made
        /\ spent' = spent /\ serps' = serps
        /\ IF plan'.blocked THEN stage' = "blocked" ELSE stage' = "discovering_keywords"
    BY <1>8 DEF PlanScan, ThePlan, evidence
  <2>2. ThePlan' = ThePlan /\ PaidCalls' = PaidCalls
    BY <2>1 DEF ThePlan, PaidCalls, Paid
  <2>3. Cost(PaidCalls)' = Cost(PaidCalls)
    BY <2>2 DEF Cost
  <2>4. NotYet' = {} /\ stage' \in Early /\ (stage' \in Working => ~ThePlan.blocked)
        /\ stage' # "fetching_serps"
    BY <2>1 DEF NotYet, Early, Working
  <2>5. stage \in Early
    BY <2>1 DEF Early
  <2> QED BY <2>1, <2>2, <2>3, <2>4, <2>5 DEF CallsInv
<1>9. ASSUME NEW r \in DOMAIN Releases, Activate(r)
      PROVE  CallsInv'
  BY <1>1, <1>9 DEF Activate, evidence, CallsInv, NotYet
<1>10. CASE ReadManifest
  BY <1>1, <1>10 DEF ReadManifest, evidence, CallsInv, NotYet
<1>11. CASE ReadRecords
  BY <1>1, <1>11 DEF ReadRecords, evidence, CallsInv, NotYet
<1>12. CASE ReadCounty
  BY <1>1, <1>12 DEF ReadCounty, evidence, CallsInv, NotYet
<1>13. CASE AssessMarket
  BY <1>1, <1>13 DEF AssessMarket, evidence, CallsInv, NotYet
<1>14. CASE ListMarkets
  BY <1>1, <1>14 DEF ListMarkets, evidence, CallsInv, NotYet, Early, Working
<1>15. CASE ScoreScan
  BY <1>1, <1>15 DEF ScoreScan, CallsInv, NotYet, Early, Working
<1>16. CASE Publish
  BY <1>1, <1>16 DEF Publish, evidence, CallsInv, NotYet, Early, Working
<1>17. CASE Fail
  BY <1>1, <1>17 DEF Fail, evidence, CallsInv, NotYet, Early, Working
<1>18. CASE UNCHANGED vars
  BY <1>1, <1>18 DEF vars, evidence, CallsInv, NotYet
<1> QED
  BY <1>3, <1>4, <1>5, <1>6, <1>7, <1>8, <1>9, <1>10, <1>11, <1>12, <1>13, <1>14, <1>15, <1>16,
     <1>17, <1>18 DEF Next

\* What a live plan that is not switched off costs
LEMMA PlanCost ==
  ASSUME setup \in Setups, setup.mode = "live", ~SwitchedOff(setup)
  PROVE  LET hits == CacheHits(setup, Admitted)
             rest == [e \in Endpoints |-> Admitted[e] - hits[e]]
         IN  /\ hits \in [Endpoints -> Nat] /\ rest \in [Endpoints -> Nat]
             /\ ThePlan.cached = Cost(hits) /\ ThePlan.uncached = Cost(rest)
             /\ ThePlan.cached \in Nat /\ ThePlan.uncached \in Nat
             /\ ThePlan.cached + ThePlan.uncached = Cost(Admitted)
             /\ ~ThePlan.blocked => ThePlan.uncached <= setup.allowed.cost
<1> DEFINE hits == CacheHits(setup, Admitted)
           rest == [e \in Endpoints |-> Admitted[e] - hits[e]]
<1>1. Admitted \in [Endpoints -> Nat] /\ setup.cached \in [Endpoints -> Nat] /\ setup.allowed.cost \in Nat
  BY PlanCalls, SetupConstants
<1>2. hits \in [Endpoints -> Nat] /\ \A e \in Endpoints : hits[e] <= Admitted[e]
  BY <1>1 DEF CacheHits, Least
<1>3. rest \in [Endpoints -> Nat]
  <2> HIDE DEF hits
  <2> QED BY <1>1, <1>2
<1>4. Live(setup) /\ setup.mode # "sandbox"
  BY DEF Live
<1>5. Charge(setup, hits) = Cost(hits) /\ Charge(setup, rest) = Cost(rest)
  <2>1. hits \in [Endpoints -> Int] /\ rest \in [Endpoints -> Int]
    <3> HIDE DEF hits, rest
    <3> QED BY <1>2, <1>3
  <2> HIDE DEF hits, rest
  <2> QED BY <1>4, <2>1, ChargeIsCost
<1>6. /\ ThePlan.cached = Charge(setup, hits)
      /\ ThePlan.uncached = Charge(setup, rest)
      /\ ~ThePlan.blocked => ~(Charge(setup, rest) > setup.allowed.cost)
  BY <1>4 DEF ThePlan, ScanPlan, Admitted
<1>7. Cost(hits) \in Nat /\ Cost(rest) \in Nat
  <2> HIDE DEF hits, rest
  <2> QED BY <1>2, <1>3, EndpointSet DEF Cost
<1>8. Cost(hits) + Cost(rest) = Cost(Admitted)
  <2>1. \A e \in Endpoints : rest[e] = Admitted[e] - hits[e]
    OBVIOUS
  <2> HIDE DEF hits, rest
  <2> QED BY <1>1, <1>2, <1>3, <2>1, EndpointSet DEF Cost
<1> QED BY <1>1, <1>2, <1>3, <1>5, <1>6, <1>7, <1>8

LEMMA CallsCovered == EvidenceInv /\ CallsInv => PlanCoversCalls
<1> SUFFICES ASSUME EvidenceInv, CallsInv, plan # None
             PROVE  /\ \A e \in Endpoints : made[e] <= plan.calls[e]
                    /\ spent <= plan.cached + plan.uncached
                    /\ (\A e \in Endpoints : setup.kept[e] >= setup.cached[e]) =>
                          spent <= plan.uncached /\ (spent > 0 => spent <= setup.allowed.cost)
  BY DEF PlanCoversCalls
<1>1. /\ plan = ThePlan /\ setup \in Setups /\ spent \in Nat /\ made \in [Endpoints -> Nat]
      /\ \A e \in Endpoints : made[e] <= ThePlan.calls[e]
  BY DEF CallsInv, EvidenceInv
<1>2. CASE ~Live(setup) \/ SwitchedOff(setup)
  <2>1. ThePlan.cached = 0 /\ ThePlan.uncached = 0 /\ ThePlan.blocked = Live(setup)
    BY <1>2 DEF ThePlan, ScanPlan
  <2>2. spent = 0
    <3>1. CASE Live(setup)
      BY <2>1, <3>1, <1>1 DEF CallsInv
    <3>2. CASE ~Live(setup)
      BY <3>2 DEF Live, CallsInv
    <3> QED BY <3>1, <3>2
  <2> QED BY <1>1, <2>1, <2>2
<1>3. CASE setup.mode = "sandbox" /\ ~SwitchedOff(setup)
  <2>1. Live(setup) /\ spent = 0
    BY <1>3 DEF Live, CallsInv
  <2>2. ThePlan.cached = 0 /\ ThePlan.uncached = 0
    BY <1>3, <2>1 DEF ThePlan, ScanPlan, Charge
  <2> QED BY <1>1, <2>1, <2>2
<1>4. CASE setup.mode = "live" /\ ~SwitchedOff(setup)
  <2> DEFINE hits == CacheHits(setup, Admitted)
             rest == [e \in Endpoints |-> Admitted[e] - hits[e]]
  <2>1. /\ hits \in [Endpoints -> Nat] /\ rest \in [Endpoints -> Nat]
        /\ ThePlan.cached = Cost(hits) /\ ThePlan.uncached = Cost(rest)
        /\ ThePlan.cached \in Nat /\ ThePlan.uncached \in Nat
        /\ ThePlan.cached + ThePlan.uncached = Cost(Admitted)
        /\ ~ThePlan.blocked => ThePlan.uncached <= setup.allowed.cost
    BY <1>1, <1>4, PlanCost
  <2>2. setup.cached \in [Endpoints -> Nat] /\ setup.kept \in [Endpoints -> Nat]
        /\ setup.allowed.cost \in Nat
    BY <1>1, SetupConstants
  <2>3. CASE ThePlan.blocked
    <3>1. spent = 0
      BY <1>1, <2>3 DEF CallsInv
    <3> QED BY <1>1, <2>1, <3>1
  <2>4. CASE ~ThePlan.blocked
    <3>1. Live(setup)
      BY <1>4 DEF Live
    <3>2. ThePlan.calls = Admitted /\ Admitted \in [Endpoints -> Nat]
      BY <1>1, <2>4, <3>1, PlanCalls
    <3>3. PaidCalls \in [Endpoints -> Int] /\ \A e \in Endpoints : PaidCalls[e] <= Admitted[e]
      BY <1>1, <2>2, <3>2 DEF PaidCalls, Paid, Least
    <3>5. /\ Cost(PaidCalls) <= Cost(Admitted)
          /\ Cost(PaidCalls) \in Int /\ Cost(Admitted) \in Int
      <4>1. Admitted \in [Endpoints -> Int]
        BY <3>2
      <4> QED BY <3>3, <4>1, CostMono
    <3>4. spent <= Cost(PaidCalls) /\ Cost(PaidCalls) \in Int
      BY <3>5 DEF CallsInv
    <3>6. ASSUME \A e \in Endpoints : setup.kept[e] >= setup.cached[e]
          PROVE  Cost(PaidCalls) <= Cost(rest)
      <4>1. ASSUME NEW e \in Endpoints PROVE PaidCalls[e] <= rest[e]
        <5>1. /\ made[e] \in Nat /\ setup.kept[e] \in Nat /\ setup.cached[e] \in Nat
              /\ Admitted[e] \in Nat /\ made[e] <= Admitted[e] /\ setup.kept[e] >= setup.cached[e]
          BY <1>1, <2>2, <3>2, <3>6
        <5>2. /\ PaidCalls[e] = Paid(e)
              /\ rest[e] = Admitted[e] - (IF e \in RequestKnown
                                          THEN Least(setup.cached[e], Admitted[e]) ELSE 0)
          BY DEF PaidCalls, CacheHits
        <5>3. CASE e \in RequestKnown
          <6> DEFINE m == made[e]
                     a == Admitted[e]
                     k == setup.kept[e]
                     c == setup.cached[e]
          <6>1. m \in Nat /\ a \in Nat /\ k \in Nat /\ c \in Nat /\ m <= a /\ k >= c
            BY <5>1
          <6>2. Paid(e) = m - Least(m, k)
            BY <5>3 DEF Paid
          <6>3. m - Least(m, k) <= a - Least(c, a)
            <7> HIDE DEF m, a, k, c
            <7> QED BY <6>1 DEF Least
          <6> QED BY <5>2, <5>3, <6>2, <6>3
        <5>4. CASE e \notin RequestKnown
          BY <5>1, <5>2, <5>4 DEF Paid
        <5> QED BY <5>3, <5>4
      <4> HIDE DEF rest, hits
      <4>2. rest \in [Endpoints -> Int]
        BY <2>1
      <4> QED BY <3>3, <4>1, <4>2, CostMono
    <3> HIDE DEF rest, hits
    <3>7. spent <= ThePlan.cached + ThePlan.uncached
      BY <1>1, <2>1, <3>4, <3>5
    <3>8. ASSUME \A e \in Endpoints : setup.kept[e] >= setup.cached[e]
          PROVE  spent <= ThePlan.uncached /\ spent <= setup.allowed.cost
      <4>1. Cost(PaidCalls) <= Cost(rest)
        BY <3>6, <3>8
      <4> QED BY <1>1, <2>1, <2>2, <2>4, <3>4, <4>1
    <3> QED BY <1>1, <3>7, <3>8
  <2> QED BY <2>3, <2>4
<1> QED BY <1>2, <1>3, <1>4 DEF Live

\* A scan makes no more calls than its admitted plan has, endpoint by endpoint, and
\* pays no more than the plan (scanner.py:120, planning.py:234, live.py:929):
\* PlanCoversCalls, for every service, market, cache and answer of the provider.
THEOREM ScanWithinPlan == Spec => []PlanCoversCalls
<1>1. Init => EvidenceInv /\ CallsInv
  BY EvidenceInit, CallsInit
<1>2. EvidenceInv /\ CallsInv /\ [Next]_vars => (EvidenceInv /\ CallsInv)'
  BY EvidenceStep, CallsStep
<1> QED BY <1>1, <1>2, CallsCovered, PTL DEF Spec

---------------------------------------------------------------------------
(* Weights and shares                                                        *)

LEMMA MetricOfMetric ==
  ASSUME NEW ms \in Seq(Metric), NEW query
  PROVE  MetricOf(query, ms) = None \/ MetricOf(query, ms) \in Metric
<1> DEFINE matches == {i \in DOMAIN ms : ms[i].keyword = query}
<1>1. DOMAIN ms = 1..Len(ms) /\ Len(ms) \in Nat /\ \A i \in DOMAIN ms : ms[i] \in Metric
  BY LenProperties, ElementOfSeq
<1>2. MetricOf(query, ms) = IF matches = {} THEN None ELSE ms[Min(matches)]
  BY DEF MetricOf
<1>3. matches \in SUBSET (1..Len(ms))
  BY <1>1
<1> HIDE DEF matches
<1>4. IsFiniteSet(matches) /\ matches \in SUBSET Int
  <2>1. IsFiniteSet(1..Len(ms))
    BY <1>1, FS_Interval
  <2>2. IsFiniteSet(matches)
    BY ONLY <1>3, <2>1, FS_Subset
  <2> QED BY <1>1, <1>3, <2>2
<1>5. matches # {} => Min(matches) \in DOMAIN ms
  BY <1>1, <1>3, <1>4, MinOf
<1> QED BY <1>1, <1>2, <1>5

LEMMA LargestNat ==
  ASSUME NEW ms \in Seq(Metric), NEW queries, IsFiniteSet(queries), NEW field \in {"volume", "cpc"}
  PROVE  Largest(queries, ms, field) \in Nat
<1> DEFINE Q == {r \in queries : MetricOf(r, ms) # None}
           f == [q \in Q |-> OrZero(MetricOf(q, ms)[field])]
           S == {f[q] : q \in Q}
<1>1. Largest(queries, ms, field) = Max({0} \cup S)
  BY DEF Largest
<1>2. IsFiniteSet(Q)
  <2>1. Q \in SUBSET queries
    OBVIOUS
  <2> HIDE DEF Q
  <2> QED BY <2>1, FS_Subset
<1>3. \A q \in Q : f[q] \in Int
  <2>1. ASSUME NEW q \in Q PROVE f[q] \in Int
    <3>1. MetricOf(q, ms) \in Metric
      BY MetricOfMetric
    <3>2. MetricOf(q, ms)[field] \in Int \cup {None}
      BY <3>1 DEF Metric
    <3> QED BY <3>2 DEF OrZero
  <2> QED BY <2>1
<1>4. S \in SUBSET Int /\ IsFiniteSet(S)
  <2> HIDE DEF f, Q
  <2> QED BY <1>2, <1>3, ImageFinite
<1> HIDE DEF S
<1> DEFINE T == {0} \cup S
<1>5. T \in SUBSET Int /\ IsFiniteSet(T) /\ T # {} /\ 0 \in T
  <2>1. IsFiniteSet(S \cup {0})
    BY <1>4, FS_AddElement
  <2>2. S \cup {0} = T
    OBVIOUS
  <2>3. T \in SUBSET Int /\ T # {} /\ 0 \in T
    BY <1>4
  <2> HIDE DEF T
  <2> QED BY <2>1, <2>2, <2>3
<1> HIDE DEF T
<1>6. Max(T) \in T /\ 0 <= Max(T)
  BY <1>5, MaxOf
<1> QED BY <1>1, <1>5, <1>6 DEF T

Signal(m, top, field, share) ==
    IF m = None \/ top = 0 THEN <<0, 0>>
    ELSE IF m[field] = None THEN <<0, 0>>
    ELSE <<share, share * Round(Unit * m[field], top)>>

LEMMA SignalInt ==
  ASSUME NEW m, m = None \/ m \in Metric, NEW top \in Nat, NEW field \in {"volume", "cpc"},
         NEW share \in Nat
  PROVE  Signal(m, top, field, share)[1] \in {0, share} /\ Signal(m, top, field, share)[2] \in Int
<1>1. CASE m = None \/ top = 0
  BY <1>1 DEF Signal
<1>2. CASE m # None /\ top # 0 /\ m[field] = None
  BY <1>2 DEF Signal
<1>3. CASE m # None /\ top # 0 /\ m[field] # None
  <2>1. m[field] \in Int
    BY <1>3 DEF Metric
  <2>2. Unit * m[field] \in Int /\ top \in Int /\ top > 0
    BY <1>3, <2>1 DEF Unit
  <2>3. Round(Unit * m[field], top) \in Int
    BY <2>2, RoundInt
  <2>4. share * Round(Unit * m[field], top) \in Int
    BY <2>3
  <2> QED BY <1>3, <2>4 DEF Signal
<1> QED BY <1>1, <1>2, <1>3

\* A query never weighs less than a quarter
LEMMA KeywordWeightInt ==
  ASSUME NEW ms \in Seq(Metric), NEW queries, IsFiniteSet(queries), NEW query
  PROVE  KeywordWeight(query, queries, ms) \in Int /\ KeywordWeight(query, queries, ms) >= 2500
<1> DEFINE m == MetricOf(query, ms)
           d == Signal(m, Largest(queries, ms, "volume"), "volume", 60)
           c == Signal(m, Largest(queries, ms, "cpc"), "cpc", 40)
<1>1. m = None \/ m \in Metric
  BY MetricOfMetric
<1>2. Largest(queries, ms, "volume") \in Nat /\ Largest(queries, ms, "cpc") \in Nat
  BY LargestNat
<1>3. KeywordWeight(query, queries, ms) =
        IF d[1] + c[1] = 0 THEN Unit
        ELSE Most(Unit \div 4, Round(d[2] + c[2], d[1] + c[1]))
  BY DEF KeywordWeight, Signal
<1> HIDE DEF m
<1>4. d[1] \in {0, 60} /\ d[2] \in Int
  <2>1. "volume" \in {"volume", "cpc"} /\ 60 \in Nat
    OBVIOUS
  <2> QED BY <1>1, <1>2, <2>1, SignalInt
<1>5. c[1] \in {0, 40} /\ c[2] \in Int
  <2>1. "cpc" \in {"volume", "cpc"} /\ 40 \in Nat
    OBVIOUS
  <2> QED BY <1>1, <1>2, <2>1, SignalInt
<1> HIDE DEF d, c
<1>6. d[1] + c[1] # 0 => Round(d[2] + c[2], d[1] + c[1]) \in Int
  <2>1. d[2] + c[2] \in Int /\ d[1] + c[1] \in Int /\ (d[1] + c[1] # 0 => d[1] + c[1] > 0)
    BY <1>4, <1>5
  <2> QED BY <2>1, RoundInt
<1>7. Unit = 10000 /\ Unit \div 4 = 2500
  BY DEF Unit
<1> QED BY <1>3, <1>6, <1>7 DEF Most

\* The places of the first ten are worth something together
LEMMA CapacityNat == PositionCapacity \in Nat /\ PositionCapacity >= 100
<1> DEFINE D == DOMAIN PositionWeight
           f == [i \in D |-> PositionWeight[i]]
<1>1. D = 1..10 /\ \A i \in D : f[i] \in Nat
  BY DEF PositionWeight
<1>2. PositionCapacity = SumFunctionOnSet(f, D)
  BY DEF PositionCapacity, SumSeq, SumOver
<1>3. f[1] = 100 /\ 1 \in D
  BY <1>1 DEF PositionWeight
<1>4. IsFiniteSet(D) /\ IsFiniteSet(D \ {1})
  <2>1. 1 \in Int /\ 10 \in Int
    OBVIOUS
  <2>2. IsFiniteSet(1..10)
    BY <2>1, FS_Interval
  <2> HIDE DEF D
  <2>3. IsFiniteSet(D)
    BY <1>1, <2>2
  <2> QED BY <2>3, FS_RemoveElement
<1>5. \A i \in D \ {1} : f[i] \in Nat
  BY <1>1
<1>6. \A i \in D : f[i] \in Int
  BY <1>1
<1> HIDE DEF f, D
<1>7. SumFunctionOnSet(f, D) = f[1] + SumFunctionOnSet(f, D \ {1})
  BY <1>3, <1>4, <1>6, SumStep
<1>8. SumFunctionOnSet(f, D \ {1}) \in Nat
  BY <1>4, <1>5, SumNat
<1> QED BY <1>2, <1>3, <1>7, <1>8

\* The SERPs of a scan together weigh at least a quarter
SerpsTotal(ss, ms) == SumSeq(SerpWeights(ss, ms), LAMBDA w : w)

LEMMA SerpsWeigh ==
  ASSUME NEW ms \in Seq(Metric), NEW ss \in Seq(Snapshots)
  PROVE  /\ DOMAIN SerpWeights(ss, ms) = DOMAIN ss
         /\ IsFiniteSet(DOMAIN ss)
         /\ \A i \in DOMAIN ss : SerpWeights(ss, ms)[i] \in Int /\ SerpWeights(ss, ms)[i] >= 2500
         /\ SerpsTotal(ss, ms) \in Int
         /\ ss # <<>> => SerpsTotal(ss, ms) >= 2500
<1> DEFINE D == DOMAIN ss
           ask == [i \in D |-> ss[i].query]
           queries == {ask[i] : i \in D}
           w == SerpWeights(ss, ms)
           f == [i \in D |-> w[i]]
           total == SerpsTotal(ss, ms)
<1>1. IsFiniteSet(D) /\ (ss # <<>> => 1 \in D)
  <2>1. Len(ss) \in Nat /\ D = 1..Len(ss)
    BY LenProperties
  <2>2. IsFiniteSet(1..Len(ss))
    BY <2>1, FS_Interval
  <2>3. ss # <<>> => Len(ss) # 0
    BY EmptySeq
  <2> QED BY <2>1, <2>2, <2>3
<1>2. IsFiniteSet(queries)
  <2> HIDE DEF D, ask
  <2> QED BY <1>1, ImageFinite
<1>3. w = [i \in D |-> KeywordWeight(ss[i].query, queries, ms)]
  <2>1. queries = {ss[i].query : i \in D}
    OBVIOUS
  <2> QED BY <2>1 DEF SerpWeights
<1> HIDE DEF queries
<1>4. DOMAIN w = D /\ \A i \in D : w[i] \in Int /\ w[i] >= 2500
  BY <1>2, <1>3, KeywordWeightInt
<1>5. total = SumFunctionOnSet(f, D)
  BY <1>4 DEF SerpsTotal, SumSeq, SumOver
<1>6. \A i \in D : f[i] \in Nat /\ f[i] \in Int /\ f[i] >= 2500
  BY <1>4
<1> HIDE DEF f, w, D, total
<1>7. total \in Int
  BY <1>1, <1>5, <1>6, SumStep
<1>8. ASSUME 1 \in D PROVE total >= 2500
  <2>1. SumFunctionOnSet(f, D) = f[1] + SumFunctionOnSet(f, D \ {1})
    BY <1>1, <1>6, <1>8, SumStep
  <2>2. IsFiniteSet(D \ {1})
    BY <1>1, FS_RemoveElement
  <2>3. SumFunctionOnSet(f, D \ {1}) \in Nat
    BY <1>6, <2>2, SumNat
  <2>4. f[1] \in Int /\ f[1] >= 2500
    BY <1>6, <1>8
  <2> QED BY <1>5, <2>1, <2>3, <2>4
<1> QED BY <1>1, <1>4, <1>7, <1>8 DEF w, D, total

\* Quotients
LEMMA DivBound ==
  ASSUME NEW a \in Int, NEW d \in Int, d > 0, NEW k \in Int
  PROVE  /\ a <= k * d => a \div d <= k
         /\ a >= k * d => a \div d >= k
<1> DEFINE q == a \div d
<1>1. q \in Int /\ d * q <= a /\ a < d * q + d
  OBVIOUS
<1> HIDE DEF q
<1>2. ASSUME a <= k * d, q > k PROVE FALSE
  <2>1. d * q >= d * (k + 1)
    BY <1>1, <1>2
  <2>2. d * (k + 1) = k * d + d
    OBVIOUS
  <2> QED BY <1>1, <1>2, <2>1, <2>2
<1>3. ASSUME a >= k * d, q < k PROVE FALSE
  <2>1. d * (q + 1) <= d * k
    BY <1>1, <1>3
  <2>2. d * (q + 1) = d * q + d
    BY <1>1
  <2> QED BY <1>1, <1>3, <2>1, <2>2
<1> QED BY <1>1, <1>2, <1>3 DEF q

LEMMA ShareOf ==
  ASSUME NEW held \in Nat, NEW capacity \in Nat, held <= capacity, capacity >= 250000
  PROVE  /\ Round(100 * held, capacity \div 100) \in Nat
         /\ Round(100 * held, capacity \div 100) <= 10005
<1> DEFINE d == capacity \div 100
<1>1. d \in Int /\ d >= 2500 /\ capacity < 100 * d + 100
  OBVIOUS
<1> HIDE DEF d
<1> DEFINE n == 2 * (100 * held) + d
           b == 2 * d
<1>2. n \in Int /\ b \in Int /\ b > 0 /\ n <= 10005 * b /\ n >= 0 * b
  BY <1>1
<1>3. Round(100 * held, d) = n \div b
  BY DEF Round
<1> HIDE DEF n, b
<1>4. n \div b <= 10005 /\ n \div b >= 0 /\ n \div b \in Int
  BY <1>2, DivBound
<1> QED BY <1>3, <1>4 DEF d

\* The results of some classes hold a share of the places: distinct results have
\* distinct places
InClasses(C, s) == {r \in Organic(s) : r.class \in C /\ r.order \in DOMAIN PositionWeight}
Places(C, s) == SumFunctionOnSet([r \in InClasses(C, s) |-> PositionWeight[r.order]],
                                 InClasses(C, s))

LEMMA PlacesOf ==
  ASSUME NEW s \in Snapshots, NEW C
  PROVE  /\ IsFiniteSet(InClasses(C, s))
         /\ \A r \in InClasses(C, s) : PositionWeight[r.order] \in Nat
         /\ Places(C, s) \in Nat /\ Places(C, s) <= PositionCapacity
<1> DEFINE S == InClasses(C, s)
           D == DOMAIN PositionWeight
           f == [r \in S |-> PositionWeight[r.order]]
           h == [i \in D |-> PositionWeight[i]]
           e == [r \in S |-> r.order]
<1>1. IsFiniteSet(S) /\ OnePlace(s.results)
  <2>1. S \in SUBSET s.results /\ IsFiniteSet(s.results) /\ OnePlace(s.results)
    BY DEF InClasses, Organic, Snapshots
  <2> HIDE DEF S
  <2> QED BY <2>1, FS_Subset
<1>2. D = 1..10 /\ \A i \in D : h[i] \in Nat /\ PositionWeight[i] = h[i]
  BY DEF PositionWeight
<1>3. IsFiniteSet(D)
  <2>1. 1 \in Int /\ 10 \in Int
    OBVIOUS
  <2>2. IsFiniteSet(1..10)
    BY <2>1, FS_Interval
  <2> HIDE DEF D
  <2> QED BY <1>2, <2>2
<1>4. \A r \in S : r.order \in D
  BY DEF InClasses
<1>5. /\ \A r \in S : e[r] \in D /\ f[r] = h[e[r]] /\ f[r] = PositionWeight[r.order]
      /\ \A r, q \in S : e[r] = e[q] => r = q
  BY <1>1, <1>4 DEF OnePlace, InClasses, Organic
<1>6. Places(C, s) = SumFunctionOnSet(f, S)
  BY DEF Places
<1>7. PositionCapacity = SumFunctionOnSet(h, D)
  BY DEF PositionCapacity, SumSeq, SumOver
<1> HIDE DEF e, f, h, D
<1>8. \A r \in S : f[r] \in Nat /\ f[r] <= h[e[r]]
  BY <1>2, <1>5
<1> HIDE DEF S
<1>9. SumFunctionOnSet(f, S) \in Nat
  BY <1>1, <1>8, SumNat
<1>10. SumFunctionOnSet(f, S) <= SumFunctionOnSet(h, D)
  BY <1>1, <1>2, <1>3, <1>5, <1>8, SumInto
<1>11. \A r \in S : PositionWeight[r.order] \in Nat
  BY <1>5, <1>8
<1> QED BY <1>1, <1>6, <1>7, <1>9, <1>10, <1>11 DEF S

\* What they hold of the capacity of all queries
HeldPart(C, ss, ms) == [i \in DOMAIN ss |-> SerpWeights(ss, ms)[i] * Places(C, ss[i])]
HeldBy(C, ss, ms) == SumFunctionOnSet(HeldPart(C, ss, ms), DOMAIN ss)
CapacityOf(ss, ms) == PositionCapacity * SerpsTotal(ss, ms)

LEMMA HeldBelow ==
  ASSUME NEW ms \in Seq(Metric), NEW ss \in Seq(Snapshots), ss # <<>>, NEW C
  PROVE  /\ \A i \in DOMAIN ss : HeldPart(C, ss, ms)[i] \in Nat
         /\ HeldBy(C, ss, ms) \in Nat /\ HeldBy(C, ss, ms) <= CapacityOf(ss, ms)
         /\ CapacityOf(ss, ms) \in Nat /\ CapacityOf(ss, ms) >= 250000
<1> DEFINE D == DOMAIN ss
           w == SerpWeights(ss, ms)
<1>1. DOMAIN w = D /\ IsFiniteSet(D) /\ \A i \in D : w[i] \in Nat
  <2>1. \A i \in D : w[i] \in Int /\ w[i] >= 2500
    BY SerpsWeigh
  <2>2. \A i \in D : w[i] \in Nat
    <3> HIDE DEF w
    <3> QED BY <2>1
  <2> QED BY <2>2, SerpsWeigh
<1> DEFINE c == PositionCapacity
           in == [i \in D |-> Places(C, ss[i])]
           f == [i \in D |-> w[i] * in[i]]
           v == [i \in D |-> w[i]]
           g == [i \in D |-> c * w[i]]
           held == SumFunctionOnSet(f, D)
           total == SumFunctionOnSet(v, D)
<1>2. SerpsTotal(ss, ms) = total /\ total \in Int /\ total >= 2500
  <2>1. SerpsTotal(ss, ms) = total
    BY <1>1 DEF SerpsTotal, SumSeq, SumOver
  <2> QED BY <2>1, SerpsWeigh
<1>3. \A i \in D : in[i] \in Nat /\ in[i] <= c
  <2>1. ASSUME NEW i \in D PROVE in[i] \in Nat /\ in[i] <= c
    <3>1. ss[i] \in Snapshots
      BY LenProperties, ElementOfSeq
    <3> QED BY <3>1, PlacesOf
  <2> HIDE DEF in, c
  <2> QED BY <2>1
<1>4. c \in Nat /\ c >= 100
  BY CapacityNat
<1>5. HeldPart(C, ss, ms) = f /\ HeldBy(C, ss, ms) = held
  <2>1. f = [i \in D |-> w[i] * Places(C, ss[i])]
    OBVIOUS
  <2> HIDE DEF f
  <2> QED BY <2>1 DEF HeldPart, HeldBy
<1> HIDE DEF w, in, c
<1>6. \A i \in D : /\ f[i] \in Nat /\ v[i] \in Nat /\ g[i] \in Nat
                   /\ f[i] <= g[i] /\ g[i] = c * v[i]
  <2>1. ASSUME NEW i \in D PROVE w[i] * in[i] <= c * w[i] /\ w[i] * in[i] \in Nat /\ c * w[i] \in Nat
    <3>1. w[i] \in Nat /\ in[i] \in Nat /\ in[i] <= c
      BY <1>1, <1>3
    <3> QED BY <3>1, <1>4, SMTT(30)
  <2> QED BY <2>1, <1>1
<1> HIDE DEF f, v, g, D
<1>7. held \in Nat
  BY <1>1, <1>6, SumNat
<1>8. held <= SumFunctionOnSet(g, D)
  BY <1>1, <1>6, SumMono
<1>9. SumFunctionOnSet(g, D) = c * total
  <2>1. c \in Int /\ \A i \in D : v[i] \in Int /\ g[i] = c * v[i]
    BY <1>4, <1>6
  <2>2. IsFiniteSet(D)
    BY <1>1
  <2> QED BY ONLY <2>1, <2>2, SumTimes
<1> HIDE DEF held
<1>10. total \in Int /\ total >= 2500
  BY <1>2
<1> HIDE DEF total
<1> DEFINE capacity == c * total
<1>11. capacity \in Nat /\ capacity >= 250000
  <2>1. c * total >= 100 * total
    BY <1>4, <1>10
  <2>2. c * total \in Int
    BY <1>4, <1>10
  <2> QED BY <1>10, <2>1, <2>2
<1>12. held <= capacity
  BY <1>8, <1>9
<1>13. CapacityOf(ss, ms) = capacity
  BY <1>2 DEF CapacityOf, c
<1> HIDE DEF capacity
<1>14. \A i \in DOMAIN ss : HeldPart(C, ss, ms)[i] \in Nat
  BY <1>5, <1>6 DEF D
<1> QED BY <1>5, <1>7, <1>11, <1>12, <1>13, <1>14

LEMMA ClassShareIs ==
  ASSUME NEW ms, NEW ss, NEW class
  PROVE  ClassShare(class, ss, ms) =
           Round(100 * HeldBy({class}, ss, ms), CapacityOf(ss, ms) \div 100)
<1> DEFINE w == SerpWeights(ss, ms)
           in(i) == SumOver(Placed(class, ss[i]), LAMBDA r : PositionWeight[r.order])
<1>1. ClassShare(class, ss, ms) =
        Round(100 * SumFunctionOnSet([i \in DOMAIN ss |-> w[i] * in(i)], DOMAIN ss),
              (PositionCapacity * SerpsTotal(ss, ms)) \div 100)
  BY DEF ClassShare, SerpsTotal, SumOver
<1>2. \A i \in DOMAIN ss : Placed(class, ss[i]) = InClasses({class}, ss[i])
  BY DEF Placed, InClasses
<1>3. \A i \in DOMAIN ss : in(i) = Places({class}, ss[i])
  BY <1>2 DEF SumOver, Places
<1> HIDE DEF w, in
<1>4. [i \in DOMAIN ss |-> w[i] * in(i)] = HeldPart({class}, ss, ms)
  BY <1>3 DEF HeldPart, w
<1> QED BY <1>1, <1>4 DEF HeldBy, CapacityOf

LEMMA ClassShareBound ==
  ASSUME NEW ms \in Seq(Metric), NEW ss \in Seq(Snapshots), ss # <<>>, NEW class
  PROVE  ClassShare(class, ss, ms) \in Nat /\ ClassShare(class, ss, ms) <= 10005
<1> DEFINE held == HeldBy({class}, ss, ms)
           capacity == CapacityOf(ss, ms)
<1>1. held \in Nat /\ held <= capacity /\ capacity \in Nat /\ capacity >= 250000
  BY HeldBelow
<1>2. ClassShare(class, ss, ms) = Round(100 * held, capacity \div 100)
  BY ClassShareIs
<1> HIDE DEF held, capacity
<1> QED BY <1>1, <1>2, ShareOf

LEMMA UnknownShareBound ==
  ASSUME NEW ms \in Seq(Metric), NEW ss \in Seq(Snapshots)
  PROVE  UnknownShare(ss, ms) \in Nat /\ UnknownShare(ss, ms) <= 10005
<1>1. CASE NoOrganic(ss)
  BY <1>1 DEF UnknownShare
<1>2. CASE ~NoOrganic(ss)
  <2>1. ss # <<>>
    BY <1>2 DEF NoOrganic
  <2> QED BY <1>2, <2>1, ClassShareBound DEF UnknownShare
<1> QED BY <1>1, <1>2

---------------------------------------------------------------------------
(* Confidence                                                                *)

LevelSet == {"insufficient", "low", "medium", "high"}

LEMMA RankOf ==
  /\ Rank("insufficient") = 1 /\ Rank("low") = 2 /\ Rank("medium") = 3 /\ Rank("high") = 4
<1>1. /\ DOMAIN Levels = 1..4
      /\ Levels[1] = "insufficient" /\ Levels[2] = "low" /\ Levels[3] = "medium"
      /\ Levels[4] = "high"
  BY DEF Levels
<1>2. \A i \in 1..4 : i = 1 \/ i = 2 \/ i = 3 \/ i = 4
  OBVIOUS
<1>3. ASSUME NEW i \in 1..4 PROVE Rank(Levels[i]) = i
  <2>1. \A j \in 1..4 : Levels[j] = Levels[i] => j = i
    BY <1>1, <1>2
  <2>2. Rank(Levels[i]) = CHOOSE j \in 1..4 : Levels[j] = Levels[i]
    BY <1>1 DEF Rank
  <2> QED BY <2>1, <2>2
<1>4. 1 \in 1..4 /\ 2 \in 1..4 /\ 3 \in 1..4 /\ 4 \in 1..4
  OBVIOUS
<1> QED BY <1>1, <1>3, <1>4

LEMMA LowerOf ==
  ASSUME NEW a \in LevelSet, NEW b \in LevelSet
  PROVE  /\ Lower(a, b) \in {a, b}
         /\ Rank(Lower(a, b)) <= Rank(a) /\ Rank(Lower(a, b)) <= Rank(b)
<1>1. Rank(a) \in Int /\ Rank(b) \in Int
  BY RankOf DEF LevelSet
<1> QED BY <1>1 DEF Lower

LEMMA LowestOf ==
  ASSUME NEW caps \in SUBSET LevelSet, caps # {}
  PROVE  Lowest(caps) \in caps /\ \A d \in caps : Rank(Lowest(caps)) <= Rank(d)
<1>1. \E c \in caps : \A d \in caps : Rank(c) <= Rank(d)
  <2> USE RankOf DEF LevelSet
  <2>1. CASE "insufficient" \in caps
    BY <2>1
  <2>2. CASE "insufficient" \notin caps /\ "low" \in caps
    BY <2>2
  <2>3. CASE "insufficient" \notin caps /\ "low" \notin caps /\ "medium" \in caps
    BY <2>3
  <2>4. CASE "insufficient" \notin caps /\ "low" \notin caps /\ "medium" \notin caps
    <3>1. caps = {"high"}
      BY <2>4
    <3> QED BY <3>1
  <2> QED BY <2>1, <2>2, <2>3, <2>4
<1> QED BY <1>1 DEF Lowest

\* What is left of the points
Left(e, missing, demand) ==
    Clamp(10000 - 800 * Cardinality(missing \ {"local_demand"})
            - DemandDeduction(demand) - SourcePenalty(e.mode) - AgeDeduction(e)
            - (IF PoorlyClassified(e) THEN Round(UnknownShare(e.serps, e.metrics), 10) ELSE 0)
            - SampleDeduction(e), 10000)

LEMMA LevelOf ==
  ASSUME NEW left \in Int
  PROVE  /\ Level(left) \in LevelSet
         /\ left < 6500 => Level(left) \in {"insufficient", "low"}
         /\ left >= 4000 => Level(left) # "insufficient"
BY DEF Level, LevelSet

\* No level is above what is left or above any cap
LEMMA ConfidenceBelow ==
  ASSUME NEW e, NEW missing, NEW demand, Left(e, missing, demand) \in Int
  PROVE  /\ Confidence(e, missing, demand) \in LevelSet
         /\ Rank(Confidence(e, missing, demand)) <= Rank(Level(Left(e, missing, demand)))
         /\ \A c \in ConfidenceCaps(e, missing, demand) :
               Rank(Confidence(e, missing, demand)) <= Rank(c)
         /\ Confidence(e, missing, demand) = "insufficient" =>
               \/ Level(Left(e, missing, demand)) = "insufficient"
               \/ "insufficient" \in ConfidenceCaps(e, missing, demand)
<1> DEFINE caps == ConfidenceCaps(e, missing, demand)
           left == Left(e, missing, demand)
           low == Lowest(caps)
<1>1. caps \in SUBSET LevelSet /\ "high" \in caps
  BY DEF ConfidenceCaps, LevelSet
<1>2. Confidence(e, missing, demand) = Lower(Level(left), low)
  BY DEF Confidence, Left
<1> HIDE DEF caps, left
<1>3. low \in caps /\ \A d \in caps : Rank(low) <= Rank(d)
  BY <1>1, LowestOf
<1>4. Level(left) \in LevelSet
  BY LevelOf DEF left
<1> HIDE DEF low
<1>5. low \in LevelSet
  BY <1>1, <1>3
<1>6. \A d \in LevelSet : Rank(d) \in Int
  BY RankOf DEF LevelSet
<1> DEFINE c == Lower(Level(left), low)
<1>7. c \in {Level(left), low} /\ Rank(c) <= Rank(Level(left)) /\ Rank(c) <= Rank(low)
  BY <1>4, <1>5, LowerOf
<1> HIDE DEF c
<1>8. c \in LevelSet
  BY <1>4, <1>5, <1>7
<1>9. \A d \in caps : Rank(c) <= Rank(d)
  <2>1. ASSUME NEW d \in caps PROVE Rank(c) <= Rank(d)
    <3>1. d \in LevelSet
      BY <1>1
    <3>2. Rank(c) \in Int /\ Rank(low) \in Int /\ Rank(d) \in Int
      BY <1>5, <1>6, <1>8, <3>1
    <3>3. Rank(c) <= Rank(low) /\ Rank(low) <= Rank(d)
      BY <1>3, <1>7
    <3> QED BY <3>2, <3>3
  <2> QED BY <2>1
<1>10. c = "insufficient" => Level(left) = "insufficient" \/ "insufficient" \in caps
  BY <1>3, <1>7
<1> QED BY <1>2, <1>7, <1>8, <1>9, <1>10 DEF c, caps, left

\* Evidence as the scorer gets it
Listed(s) == s \in Seq({s[i] : i \in DOMAIN s})
Sampled(e) ==
    /\ e.metrics \in Seq(Metric) /\ e.serps \in Seq(Snapshots)
    /\ Listed(e.competitors) /\ Listed(e.providers)
    /\ e.mode \in {"live", "sandbox", "replay", "fixture"}

Fields == {"keyword_metrics", "local_demand", "serp_snapshots", "competitor_metrics",
           "provider_candidates", "keyword_cpc", "serp_results"}

LEMMA FieldsFinite == IsFiniteSet(Fields)
<1> DEFINE f == <<"keyword_metrics", "local_demand", "serp_snapshots", "competitor_metrics",
                  "provider_candidates", "keyword_cpc", "serp_results">>
           S == {f[i] : i \in 1..7}
<1>1. 1 \in Int /\ 7 \in Int
  OBVIOUS
<1>2. IsFiniteSet(1..7)
  BY <1>1, FS_Interval
<1>3. IsFiniteSet(S)
  <2> HIDE DEF f
  <2> QED BY <1>2, ImageFinite
<1>4. Fields = S
  <2>1. \A i \in 1..7 : i = 1 \/ i = 2 \/ i = 3 \/ i = 4 \/ i = 5 \/ i = 6 \/ i = 7
    OBVIOUS
  <2>2. S \subseteq Fields
    BY <2>1 DEF Fields
  <2>3. Fields \subseteq S
    <3>1. /\ f[1] \in S /\ f[2] \in S /\ f[3] \in S /\ f[4] \in S /\ f[5] \in S /\ f[6] \in S
          /\ f[7] \in S
      OBVIOUS
    <3> HIDE DEF S
    <3> QED BY <3>1 DEF Fields
  <2> QED BY <2>2, <2>3
<1> QED BY <1>3, <1>4

LEMMA SampleBound ==
  ASSUME NEW e, Sampled(e)
  PROVE  /\ SampleDeduction(e) \in Nat
         /\ Len(e.serps) >= 1 /\ Len(e.competitors) >= 3 /\ Len(e.providers) >= 1 =>
               SampleDeduction(e) <= 1067
<1> DEFINE s == Len(e.serps)
           c == Len(e.competitors)
           p == Len(e.providers)
<1>1. s \in Nat /\ c \in Nat /\ p \in Nat
  BY LenProperties DEF Sampled, Listed
<1>2. SampleDeduction(e) = Round(1000 * Short(s, 3), 3) + Round(1000 * Short(c, 3), 3)
                             + Round(800 * Short(p, 2), 2)
  BY DEF SampleDeduction
<1> HIDE DEF s, c, p
<1> DEFINE a == Short(s, 3)
           b == Short(c, 3)
           d == Short(p, 2)
<1>3. /\ a \in Nat /\ b \in Nat /\ d \in Nat
      /\ (s >= 1 => a <= 2) /\ (c >= 3 => b = 0) /\ (p >= 1 => d <= 1)
  BY <1>1 DEF Short, Most
<1> HIDE DEF a, b, d
<1>4. /\ Round(1000 * a, 3) \in Nat /\ (a <= 2 => Round(1000 * a, 3) <= 667)
  BY <1>3 DEF Round
<1>5. /\ Round(1000 * b, 3) \in Nat /\ (b = 0 => Round(1000 * b, 3) = 0)
  BY <1>3 DEF Round
<1>6. /\ Round(800 * d, 2) \in Nat /\ (d <= 1 => Round(800 * d, 2) <= 400)
  BY <1>3 DEF Round
<1> DEFINE x == Round(1000 * a, 3)
           y == Round(1000 * b, 3)
           z == Round(800 * d, 2)
<1>7. SampleDeduction(e) = x + y + z
  BY <1>2 DEF a, b, d
<1>8. x \in Nat /\ y \in Nat /\ z \in Nat
  BY <1>4, <1>5, <1>6
<1>9. s >= 1 /\ c >= 3 /\ p >= 1 => x <= 667 /\ y = 0 /\ z <= 400
  BY <1>3, <1>4, <1>5, <1>6
<1> HIDE DEF x, y, z
<1>10. SampleDeduction(e) \in Nat /\ (s >= 1 /\ c >= 3 /\ p >= 1 => SampleDeduction(e) <= 1067)
  BY <1>7, <1>8, <1>9
<1> QED BY <1>10 DEF s, c, p

\* What is left: too little for medium when keywords and SERPs are both stale and
\* the demand is an estimate, and enough for low when nothing is missing
LEMMA LeftBounds ==
  ASSUME NEW e, Sampled(e), NEW missing \in SUBSET Fields, NEW demand
  PROVE  /\ Left(e, missing, demand) \in Int
         /\ /\ StaleMetrics(e) /\ StaleSerps(e)
            /\ demand.market # None /\ demand.confidence = "low"
            => Left(e, missing, demand) < 6500
         /\ /\ missing = {} /\ e.mode = "live" /\ demand.market # None
            /\ Len(e.serps) >= 1 /\ Len(e.competitors) >= 3 /\ Len(e.providers) >= 1
            => Left(e, missing, demand) >= 4000
<1> DEFINE m == Cardinality(missing \ {"local_demand"})
           d == DemandDeduction(demand)
           s == SourcePenalty(e.mode)
           a == AgeDeduction(e)
           share == UnknownShare(e.serps, e.metrics)
           u == IF PoorlyClassified(e) THEN Round(share, 10) ELSE 0
           p == SampleDeduction(e)
<1>1. m \in Nat /\ (missing = {} => m = 0)
  <2> DEFINE T == missing \ {"local_demand"}
  <2>1. T \in SUBSET Fields
    OBVIOUS
  <2>2. IsFiniteSet(T)
    <3> HIDE DEF T
    <3> QED BY <2>1, FieldsFinite, FS_Subset
  <2>3. missing = {} => T = {}
    OBVIOUS
  <2>4. Cardinality(T) \in Nat
    BY <2>2, FS_CardinalityType
  <2>5. T = {} => Cardinality(T) = 0
    BY FS_EmptySet
  <2> QED BY <2>3, <2>4, <2>5
<1>2. /\ d \in Nat /\ (demand.market # None => d <= 1200)
      /\ (demand.market # None /\ demand.confidence = "low" => d = 1200)
  BY DEF DemandDeduction
<1>3. s \in Nat /\ (e.mode = "live" => s = 0)
  BY DEF SourcePenalty, Sampled
<1>4. a \in Nat /\ a <= 2500 /\ (StaleMetrics(e) /\ StaleSerps(e) => a = 2500)
  BY DEF AgeDeduction
<1>5. u \in Nat /\ u <= 1001
  <2>1. share \in Nat /\ share <= 10005
    BY UnknownShareBound DEF Sampled
  <2> HIDE DEF share
  <2>2. Round(share, 10) \in Nat /\ Round(share, 10) <= 1001
    BY <2>1 DEF Round
  <2> QED BY <2>2
<1>6. /\ p \in Nat
      /\ Len(e.serps) >= 1 /\ Len(e.competitors) >= 3 /\ Len(e.providers) >= 1 => p <= 1067
  BY SampleBound
<1>7. Left(e, missing, demand) = Clamp(10000 - 800 * m - d - s - a - u - p, 10000)
  BY DEF Left
<1> HIDE DEF m, d, s, a, u, p
<1>8. /\ Left(e, missing, demand) \in Int
      /\ d = 1200 /\ a = 2500 => Left(e, missing, demand) < 6500
      /\ m = 0 /\ d <= 1200 /\ s = 0 /\ p <= 1067 => Left(e, missing, demand) >= 4000
  BY <1>1, <1>2, <1>3, <1>4, <1>5, <1>6, <1>7 DEF Clamp, Most, Least
<1> QED BY <1>1, <1>2, <1>3, <1>4, <1>6, <1>8

\* A volume that is only known for the country is never a measured local one
LEMMA NationalDemand ==
  ASSUME NEW ms \in Seq(Metric), \A i \in DOMAIN ms : ms[i].granularity = "country", NEW market
  PROVE  Demand(ms, market).market # None => Demand(ms, market).confidence = "low"
<1>1. {i \in DOMAIN ms : ms[i].granularity \in Local} = {}
  BY DEF Local
<1>2. VolumeAt(ms, Local) = 0
  <2>1. VolumeAt(ms, Local) = SumFunctionOnSet([x \in {} |-> OrZero(ms[x].volume)], {})
    BY <1>1 DEF VolumeAt, SumOver
  <2> QED BY <2>1, SumEmpty
<1> DEFINE national == VolumeAt(ms, National)
           estimate == Estimate(national, market)
<1>3. Demand(ms, market) =
        [service |-> national, market |-> estimate,
         kind |-> IF estimate = None THEN "missing" ELSE "estimated_local",
         confidence |-> IF estimate = None THEN "none" ELSE "low"]
  BY <1>2 DEF Demand
<1> HIDE DEF estimate, national
<1> QED BY <1>3

Missing(e) == MissingFields(e, Demand(e.metrics, e.market))
ScoreConfidence(e) == Confidence(e, Missing(e), Demand(e.metrics, e.market))

LEMMA MissingOf ==
  ASSUME NEW e
  PROVE  /\ Missing(e) \in SUBSET Fields
         /\ Missing(e) = {} =>
               /\ Demand(e.metrics, e.market).market # None
               /\ e.serps # <<>> /\ e.competitors # <<>> /\ e.providers # <<>>
         /\ e.competitors = <<>> => "competitor_metrics" \in Missing(e)
<1> DEFINE demand == Demand(e.metrics, e.market)
<1> HIDE DEF demand
<1>1. MissingFields(e, demand) \in SUBSET Fields
  BY DEF MissingFields, Fields
<1>2. /\ e.competitors = <<>> => "competitor_metrics" \in MissingFields(e, demand)
      /\ demand.market = None => "local_demand" \in MissingFields(e, demand)
      /\ e.serps = <<>> => "serp_snapshots" \in MissingFields(e, demand)
      /\ e.providers = <<>> => "provider_candidates" \in MissingFields(e, demand)
  BY DEF MissingFields
<1> QED BY <1>1, <1>2 DEF Missing, demand

\* What the gate leaves of a score
LEMMA AppliedScore ==
  ASSUME NEW e, NEW q \in {"pass", "warning", "fail"}
  PROVE  /\ ApplyToScore(Score(e), q).confidence =
               IF q = "pass" THEN ScoreConfidence(e)
               ELSE IF q = "warning" THEN Lower(ScoreConfidence(e), "medium")
               ELSE "insufficient"
         /\ ApplyToScore(Score(e), q).status =
               IF q = "fail" THEN "unusable" ELSE EvidenceStatus(Missing(e), e.assessment)
<1> DEFINE demand == Demand(e.metrics, e.market)
           missing == MissingFields(e, demand)
           trace == Trace(e, missing, demand)
           confidence == Confidence(e, missing, demand)
           parts == ComponentScores(e, trace)
<1>1. Score(e) = Combined(parts, trace, missing, e.assessment, confidence)
  BY DEF Score, ScoreKnowing, ScoreTraced
<1>2. confidence = ScoreConfidence(e) /\ missing = Missing(e)
  BY DEF ScoreConfidence, Missing
<1> HIDE DEF demand, missing, trace, confidence, parts
<1> DEFINE uncapped == Most(0, SumOver(Components, LAMBDA c : parts[c]) - MissingPenalty(missing))
           cap == ScoreCap(missing, e.assessment)
           total == IF cap = None THEN uncapped ELSE Least(uncapped, cap)
           status == EvidenceStatus(missing, e.assessment)
<1>3. Score(e) = [total |-> total, uncapped |-> uncapped, cap |-> cap, components |-> parts,
                  trace |-> trace, missing |-> missing, status |-> status,
                  confidence |-> confidence]
  BY <1>1 DEF Combined
<1> HIDE DEF uncapped, cap, total, status
<1>4. CASE q = "pass"
  BY <1>2, <1>3, <1>4 DEF ApplyToScore, status
<1>5. CASE q = "warning"
  <2> DEFINE s == Score(e)
  <2>1. /\ DOMAIN s = {"total", "uncapped", "cap", "components", "trace", "missing", "status",
                       "confidence"}
        /\ s.confidence = confidence /\ s.status = status
    BY <1>3
  <2>2. ApplyToScore(s, q) = [s EXCEPT !.confidence = Lower(s.confidence, "medium")]
    BY <1>5 DEF ApplyToScore
  <2> HIDE DEF s
  <2>3. /\ ApplyToScore(s, q).confidence = Lower(confidence, "medium")
        /\ ApplyToScore(s, q).status = status
    BY <2>1, <2>2
  <2> QED BY <1>2, <1>5, <2>3 DEF s, status
<1>6. CASE q = "fail"
  <2> DEFINE s == Score(e)
             bound == IF s.cap = None THEN 3500 ELSE Least(s.cap, 3500)
  <2>1. DOMAIN s = {"total", "uncapped", "cap", "components", "trace", "missing", "status",
                    "confidence"}
    BY <1>3
  <2>2. ApplyToScore(s, q) =
          [s EXCEPT !.total = Least(s.total, 3500), !.status = "unusable", !.cap = bound,
                    !.confidence = "insufficient"]
    BY <1>6 DEF ApplyToScore
  <2> HIDE DEF s, bound
  <2>3. ApplyToScore(s, q).confidence = "insufficient" /\ ApplyToScore(s, q).status = "unusable"
    BY <2>1, <2>2
  <2> QED BY <1>6, <2>3 DEF s
<1> QED BY <1>4, <1>5, <1>6

LEMMA QualityOf ==
  ASSUME NEW e
  PROVE  /\ Quality(e) \in {"pass", "warning", "fail"}
         /\ Quality(e) # "fail" => QualityErrors(e) = {}
BY DEF Quality

\* A scan's volumes are national unless it is a fixture
Nationwide(e) ==
    e.mode # "fixture" => \A i \in DOMAIN e.metrics : e.metrics[i].granularity = "country"

\* A full assessment is never of high confidence, and of medium only with an estimate
\* of local demand, competitors, and keywords or SERPs that are not stale
LEMMA HonestScore ==
  ASSUME NEW e, Sampled(e), Nationwide(e), e.assessment = "full",
         NEW q \in {"pass", "warning", "fail"}, NEW c, c = ApplyToScore(Score(e), q).confidence
  PROVE  /\ c # "high"
         /\ c = "medium" =>
               /\ e.mode # "fixture" /\ q # "fail" /\ e.competitors # <<>>
               /\ Demand(e.metrics, e.market).market # None
               /\ ~(StaleMetrics(e) /\ StaleSerps(e))
<1> DEFINE demand == Demand(e.metrics, e.market)
           missing == Missing(e)
           caps == ConfidenceCaps(e, missing, demand)
           left == Left(e, missing, demand)
           b == Confidence(e, missing, demand)
<1>1. b = ScoreConfidence(e)
  BY DEF ScoreConfidence
<1>2. missing \in SUBSET Fields /\ (e.competitors = <<>> => "competitor_metrics" \in missing)
  BY MissingOf
<1>3. e.mode # "fixture" /\ demand.market # None => demand.confidence = "low"
  BY NationalDemand DEF Sampled, Nationwide
<1> HIDE DEF missing, demand
<1>4. left \in Int
  BY <1>2, LeftBounds
<1>5. /\ b \in LevelSet /\ Rank(b) <= Rank(Level(left)) /\ \A d \in caps : Rank(b) <= Rank(d)
  BY <1>4, ConfidenceBelow
<1>6. "medium" \in caps \/ "low" \in caps
  BY <1>3 DEF ConfidenceCaps
<1>7. /\ demand.market = None \/ e.mode = "fixture" => "low" \in caps
      /\ e.competitors = <<>> => "insufficient" \in caps
  BY <1>2 DEF ConfidenceCaps
<1>8. /\ e.mode # "fixture" /\ demand.market # None /\ StaleMetrics(e) /\ StaleSerps(e) =>
            Level(left) \in {"insufficient", "low"}
  BY <1>2, <1>3, <1>4, LeftBounds, LevelOf
<1> HIDE DEF caps, left, b
<1>9. b # "high"
  <2>1. Rank(b) <= 3
    BY <1>5, <1>6, RankOf DEF LevelSet
  <2> QED BY <2>1, RankOf
<1>10. ASSUME b = "medium"
       PROVE  /\ e.mode # "fixture" /\ e.competitors # <<>> /\ demand.market # None
              /\ ~(StaleMetrics(e) /\ StaleSerps(e))
  <2>1. Rank(b) = 3
    BY <1>10, RankOf
  <2>2. "low" \notin caps /\ "insufficient" \notin caps
    BY <1>5, <2>1, RankOf
  <2>3. Level(left) \notin {"insufficient", "low"}
    BY <1>5, <2>1, RankOf
  <2> QED BY <1>7, <1>8, <2>2, <2>3
<1>11. c = IF q = "pass" THEN b ELSE IF q = "warning" THEN Lower(b, "medium") ELSE "insufficient"
  BY <1>1, AppliedScore
<1>12. Lower(b, "medium") = "medium" \/ Lower(b, "medium") = b
  BY DEF Lower
<1>13. Lower(b, "medium") = "medium" => b = "medium"
  <2>1. Rank(b) \in Int /\ Rank("medium") = 3 /\ b \in {"insufficient", "low", "medium"}
    BY <1>5, <1>9, RankOf DEF LevelSet
  <2> QED BY <2>1, RankOf DEF Lower
<1> QED BY <1>9, <1>10, <1>11, <1>12, <1>13 DEF demand

\* Evidence that passes the relevance gate has a relevant keyword
LEMMA RelevantOne ==
  ASSUME NEW ms \in Seq(Metric), Relevant([i \in DOMAIN ms |-> ms[i].relevant], 60)
  PROVE  \E i \in DOMAIN ms : ms[i].relevant
<1> DEFINE flag(i) == ms[i].relevant
           flags == [i \in DOMAIN ms |-> flag(i)]
           R == {i \in DOMAIN flags : flags[i]}
<1>1. DOMAIN ms = 1..Len(ms) /\ Len(ms) \in Nat
  BY LenProperties
<1>2. flags # <<>> /\ 100 * Cardinality(R) >= 60 * Len(flags)
  BY DEF Relevant
<1> SUFFICES ASSUME \A i \in DOMAIN ms : ~flag(i) PROVE FALSE
  OBVIOUS
<1>3. R = {}
  OBVIOUS
<1>4. Cardinality(R) = 0
  BY <1>3, FS_EmptySet
<1>5. \A i \in 1..Len(ms) : flag(i) \in {flag(j) : j \in 1..Len(ms)}
  OBVIOUS
<1> HIDE DEF flag
<1>6. flags \in Seq({flag(j) : j \in 1..Len(ms)})
  BY <1>1, <1>5, IsASeq
<1> HIDE DEF flags, R
<1>7. Len(flags) \in Nat /\ Len(flags) # 0
  BY <1>2, <1>6, EmptySeq, LenProperties
<1> QED BY <1>2, <1>4, <1>7

\* What a complete full assessment rests on
LEMMA SoundScore ==
  ASSUME NEW e, Sampled(e), e.assessment = "full", NEW q, q = Quality(e),
         ApplyToScore(Score(e), q).status = "complete"
  PROVE  /\ q # "fail" /\ e.configured
         /\ Len(e.competitors) >= 3 /\ e.serps # <<>> /\ e.providers # <<>>
         /\ \E i \in DOMAIN e.metrics : e.metrics[i].relevant
         /\ e.mode = "live" => ApplyToScore(Score(e), q).confidence # "insufficient"
<1> DEFINE demand == Demand(e.metrics, e.market)
           missing == Missing(e)
           caps == ConfidenceCaps(e, missing, demand)
           left == Left(e, missing, demand)
           b == Confidence(e, missing, demand)
           n == Len(e.competitors)
<1>1. q \in {"pass", "warning", "fail"} /\ (q # "fail" => QualityErrors(e) = {})
  BY QualityOf
<1>2. q # "fail" /\ EvidenceStatus(missing, "full") = "complete"
  BY <1>1, AppliedScore
<1>3. missing = {}
  <2> HIDE DEF missing
  <2> QED BY <1>2 DEF EvidenceStatus
<1>4. /\ demand.market # None
      /\ e.serps # <<>> /\ e.competitors # <<>> /\ e.providers # <<>>
  BY <1>3, MissingOf
<1>5. /\ e.configured /\ ~(n < 3)
      /\ Relevant([i \in DOMAIN e.metrics |-> e.metrics[i].relevant], 60)
  <2>1. QualityErrors(e) = {}
    BY <1>1, <1>2
  <2>2. /\ "unconfigured_service" \notin QualityErrors(e)
        /\ "competitor_sample_coverage" \notin QualityErrors(e)
        /\ "keyword_service_relevance" \notin QualityErrors(e)
    BY <2>1
  <2>3. ~e.configured => "unconfigured_service" \in QualityErrors(e)
    BY DEF QualityErrors
  <2>4. n < 3 => "competitor_sample_coverage" \in QualityErrors(e)
    BY DEF QualityErrors
  <2>5. ~Relevant([i \in DOMAIN e.metrics |-> e.metrics[i].relevant], 60) =>
           "keyword_service_relevance" \in QualityErrors(e)
    BY DEF QualityErrors
  <2> QED BY <2>2, <2>3, <2>4, <2>5
<1>6. /\ Len(e.serps) \in Nat /\ Len(e.providers) \in Nat /\ n \in Nat
  BY LenProperties DEF Sampled, Listed
<1>7. Len(e.serps) >= 1 /\ Len(e.providers) >= 1 /\ n >= 3
  <2>1. Len(e.serps) # 0
    BY <1>4, EmptySeq DEF Sampled
  <2>2. Len(e.providers) # 0
    BY <1>4, EmptySeq DEF Sampled, Listed
  <2> QED BY <1>5, <1>6, <2>1, <2>2
<1>8. \E i \in DOMAIN e.metrics : e.metrics[i].relevant
  BY <1>5, RelevantOne DEF Sampled
<1>9. ASSUME e.mode = "live" PROVE ApplyToScore(Score(e), q).confidence # "insufficient"
  <2>1. left \in Int /\ left >= 4000
    <3>1. missing \in SUBSET Fields
      BY MissingOf
    <3> HIDE DEF missing, demand
    <3> QED BY <1>3, <1>4, <1>7, <1>9, <3>1, LeftBounds
  <2>2. "insufficient" \notin caps
    <3> HIDE DEF missing, demand
    <3> QED BY <1>3 DEF ConfidenceCaps
  <2>3. Level(left) # "insufficient"
    <3> HIDE DEF left
    <3> QED BY <2>1, LevelOf
  <2>4. b # "insufficient"
    <3> HIDE DEF missing, demand
    <3> QED BY <2>1, <2>2, <2>3, ConfidenceBelow
  <2>5. b = ScoreConfidence(e)
    BY DEF ScoreConfidence
  <2>6. ApplyToScore(Score(e), q).confidence =
          IF q = "pass" THEN b ELSE Lower(b, "medium")
    BY <1>1, <1>2, <2>5, AppliedScore
  <2> HIDE DEF b
  <2>7. Lower(b, "medium") \in {b, "medium"}
    BY DEF Lower
  <2> QED BY <2>4, <2>6, <2>7
<1> QED BY <1>2, <1>4, <1>5, <1>7, <1>8, <1>9

---------------------------------------------------------------------------
(* What a scan publishes                                                     *)

LEMMA ListOf ==
  ASSUME NEW f, NEW k \in Nat, f = [i \in DOMAIN f |-> f[i]], DOMAIN f = 1..k
  PROVE  Listed(f)
<1> DEFINE S == {f[i] : i \in DOMAIN f}
<1>1. \A i \in 1..k : f[i] \in S
  OBVIOUS
<1>2. f = [i \in 1..k |-> f[i]]
  OBVIOUS
<1> HIDE DEF S
<1>3. f \in Seq(S)
  BY <1>1, <1>2, IsASeq
<1> QED BY <1>3 DEF Listed, S

LEMMA CompetitorsListed ==
  ASSUME EvidenceInv, NEW answer
  PROVE  Listed(Enriched(SelectCompetitors(serps, CompetitorLimit), answer, serps))
<1> DEFINE domains == SelectCompetitors(serps, CompetitorLimit)
<1>1. PICK k \in 0..CompetitorLimit : DOMAIN domains = 1..k
  BY SerpLimitNat, SerpsShown, SelectedDomains DEF EvidenceInv
<1>2. domains = [n \in DOMAIN domains |-> domains[n]]
  BY DEF SelectCompetitors
<1> HIDE DEF domains
<1>3. k \in Nat
  BY SerpLimitNat
<1>4. Listed(domains)
  BY <1>1, <1>2, <1>3, ListOf
<1> DEFINE kept == {i \in DOMAIN domains : answer[domains[i]] # None}
           answered == At(domains, kept)
           S == {domains[i] : i \in DOMAIN domains}
<1>5. domains \in Seq(S) /\ kept \subseteq DOMAIN domains
  BY <1>4 DEF Listed
<1> HIDE DEF kept, S
<1>6. answered \in Seq(S)
  BY <1>5, AtSeq
<1>7. Len(answered) \in Nat /\ DOMAIN answered = 1..Len(answered)
  BY <1>6, LenProperties
<1> DEFINE f == Enriched(domains, answer, serps)
<1>8. f = [i \in DOMAIN f |-> f[i]] /\ DOMAIN f = DOMAIN answered
  BY DEF Enriched, kept
<1> HIDE DEF answered, f
<1>9. Listed(f)
  BY <1>7, <1>8, ListOf
<1> QED BY <1>9 DEF f, domains

LEMMA ProvidersListed ==
  ASSUME NEW list \in ProviderLists, NEW f, f = [i \in DOMAIN list |-> f[i]]
  PROVE  Listed(f)
<1>1. Len(list) \in Nat /\ DOMAIN list = 1..Len(list)
  BY ProviderConstants, LenProperties
<1>2. f = [i \in DOMAIN f |-> f[i]] /\ DOMAIN f = 1..Len(list)
  BY <1>1
<1> QED BY <1>1, <1>2, ListOf

\* The result that stays with a scan from its scoring on, and what the
\* opportunity shows of it
Scored ==
    /\ quality = Quality(Evidence)
    /\ score = ApplyToScore(Score(Evidence), quality)
Published ==
    /\ Preliminary /\ setup.latest = None => opp.confidence \in {"insufficient", "preliminary"}
    /\ ~Preliminary /\ (Ranks(score) \/ setup.latest = None) => opp.confidence = score.confidence
ScoreInv ==
    /\ Listed(competitors) /\ Listed(providers)
    /\ opp = [latest |-> opp.latest, confidence |-> opp.confidence, state |-> opp.state]
    /\ stage # "completed" => opp.latest = setup.latest
    /\ stage \in {"persisting_results", "completed"} => Scored
    /\ stage = "completed" => Published

LEMMA ScoreInit == Init => ScoreInv
<1> SUFFICES ASSUME Init PROVE ScoreInv
  OBVIOUS
<1>1. /\ stage = "prefiltering" /\ competitors = <<>> /\ providers = <<>>
      /\ opp = [latest |-> setup.latest,
                confidence |-> IF setup.latest = None THEN "insufficient" ELSE "high",
                state |-> "queued"]
  BY DEF Init
<1>2. Listed(<<>>)
  BY EmptySeq DEF Listed
<1> QED BY <1>1, <1>2 DEF ScoreInv

\* What the scan has gathered and made of it
Standing == UNCHANGED <<setup, metrics, serps, competitors, providers, score, quality>>

LEMMA ScoreStep == EvidenceInv /\ ScoreInv /\ [Next]_vars => ScoreInv'
<1> SUFFICES ASSUME EvidenceInv, ScoreInv, [Next]_vars PROVE ScoreInv'
  OBVIOUS
<1>0. /\ Listed(competitors) /\ Listed(providers)
      /\ opp = [latest |-> opp.latest, confidence |-> opp.confidence, state |-> opp.state]
  BY DEF ScoreInv
<1>1. ASSUME UNCHANGED <<setup, competitors, providers>>,
             stage \notin {"persisting_results", "completed"},
             stage' \notin {"persisting_results", "completed"},
             opp'.latest = opp.latest, opp'.confidence = opp.confidence,
             opp' = [latest |-> opp'.latest, confidence |-> opp'.confidence, state |-> opp'.state]
      PROVE  ScoreInv'
  BY <1>1 DEF ScoreInv
<1>2. ASSUME UNCHANGED <<setup, opp>>, Listed(competitors'), Listed(providers'),
             stage \notin {"persisting_results", "completed"},
             stage' \notin {"persisting_results", "completed"}
      PROVE  ScoreInv'
  BY <1>2 DEF ScoreInv
<1>3. ASSUME Standing, UNCHANGED <<stage, opp>>
      PROVE  ScoreInv'
  <2>1. Evidence' = Evidence /\ Preliminary' = Preliminary
    BY <1>3 DEF Standing, Evidence, Preliminary, Live
  <2>2. Scored' = Scored
    BY <1>3, <2>1 DEF Standing, Scored
  <2>3. Published' = Published
    BY <1>3, <2>1 DEF Standing, Published, Ranks
  <2> QED BY <1>3, <2>2, <2>3 DEF ScoreInv, Standing
<1>4. ASSUME NEW r \in DOMAIN Releases, Activate(r)
      PROVE  ScoreInv'
  BY <1>3, <1>4 DEF Activate, evidence, Standing
<1>5. CASE ReadManifest
  BY <1>3, <1>5 DEF ReadManifest, evidence, Standing
<1>6. CASE ReadRecords
  BY <1>3, <1>6 DEF ReadRecords, evidence, Standing
<1>7. CASE ReadCounty
  BY <1>3, <1>7 DEF ReadCounty, evidence, Standing
<1>8. CASE AssessMarket
  BY <1>3, <1>8 DEF AssessMarket, evidence, Standing
<1>9. CASE ListMarkets
  BY <1>0, <1>2, <1>9 DEF ListMarkets, evidence
<1>10. CASE PlanScan
  <2>1. /\ UNCHANGED <<setup, competitors, providers>> /\ stage = "prefiltering"
        /\ stage' \in {"blocked", "discovering_keywords"}
        /\ opp' = opp \/ opp' = [opp EXCEPT !.state = "running"]
    BY <1>10 DEF PlanScan, evidence
  <2>2. /\ opp'.latest = opp.latest /\ opp'.confidence = opp.confidence
        /\ opp' = [latest |-> opp'.latest, confidence |-> opp'.confidence, state |-> opp'.state]
    BY <1>0, <2>1
  <2> QED BY <1>1, <2>1, <2>2
<1>11. ASSUME NEW list \in CandidateLists, DiscoverKeywords(list)
       PROVE  ScoreInv'
  BY <1>0, <1>2, <1>11 DEF DiscoverKeywords
<1>12. ASSUME NEW answer \in MetricAnswers, FetchMetrics(answer)
       PROVE  ScoreInv'
  BY <1>0, <1>2, <1>12 DEF FetchMetrics
<1>13. ASSUME NEW answer \in SerpAnswers, FetchSerp(answer)
       PROVE  ScoreInv'
  BY <1>0, <1>2, <1>13 DEF FetchSerp
<1>14. ASSUME NEW answer \in CompetitorAnswers, FetchCompetitors(answer)
       PROVE  ScoreInv'
  <2>1. competitors' = Enriched(SelectCompetitors(serps, CompetitorLimit),
                                Reported(setup, answer), serps)
    BY <1>14 DEF FetchCompetitors
  <2>2. Listed(competitors')
    BY <2>1, CompetitorsListed
  <2>3. /\ UNCHANGED <<setup, opp, providers>> /\ stage = "fetching_serps"
        /\ stage' = "fetching_providers"
    BY <1>14 DEF FetchCompetitors
  <2> QED BY <1>0, <1>2, <2>2, <2>3
<1>15. ASSUME NEW list \in ProviderLists, FetchProviders(list)
       PROVE  ScoreInv'
  <2> DEFINE found(p) == ScoredProvider(FoundProvider(setup, p))
  <2>1. /\ UNCHANGED <<setup, opp, competitors>> /\ stage = "fetching_providers"
        /\ stage' = "scoring" /\ providers' = [i \in DOMAIN list |-> found(list[i])]
    BY <1>15 DEF FetchProviders
  <2> HIDE DEF found
  <2>2. providers' = [i \in DOMAIN list |-> providers'[i]]
    BY <2>1
  <2>3. Listed(providers')
    BY <2>2, ProvidersListed
  <2> QED BY <1>0, <1>2, <2>1, <2>3
<1>16. CASE ScoreScan
  <2>1. /\ UNCHANGED <<setup, metrics, serps, competitors, providers, opp>>
        /\ stage = "scoring" /\ stage' = "persisting_results"
        /\ quality' = Quality(Evidence) /\ score' = ApplyToScore(Score(Evidence), quality')
    BY <1>16 DEF ScoreScan
  <2>2. Evidence' = Evidence
    BY <2>1 DEF Evidence, Preliminary, Live
  <2>3. Scored'
    BY <2>1, <2>2 DEF Scored
  <2> QED BY <2>1, <2>3 DEF ScoreInv
<1>17. CASE Publish
  <2>1. Standing /\ stage = "persisting_results" /\ stage' = "completed"
    BY <1>17 DEF Publish, evidence, Standing
  <2>2. opp' = [latest |-> IF Ranks(score) THEN score.total ELSE opp.latest,
                confidence |-> PublishedConfidence, state |-> NextState]
    BY <1>17 DEF Publish
  <2>3. Evidence' = Evidence /\ (Preliminary' <=> Preliminary)
    BY <2>1 DEF Standing, Evidence, Preliminary, Live
  <2>4. Scored'
    BY <2>1, <2>3 DEF Standing, Scored, ScoreInv
  <2>5. opp.latest = setup.latest
    BY <2>1 DEF ScoreInv
  <2>6. /\ Preliminary /\ setup.latest = None =>
             PublishedConfidence \in {"insufficient", "preliminary"}
        /\ ~Preliminary /\ (Ranks(score) \/ setup.latest = None) =>
             PublishedConfidence = score.confidence
    BY <2>5 DEF PublishedConfidence
  <2>7. Ranks(score)' <=> Ranks(score)
    BY <2>1, <2>3 DEF Standing, Ranks
  <2>8. Published'
    BY <2>1, <2>2, <2>3, <2>6, <2>7 DEF Standing, Published
  <2>9. opp' = [latest |-> opp'.latest, confidence |-> opp'.confidence, state |-> opp'.state]
    BY <2>2
  <2> QED BY <1>0, <2>1, <2>4, <2>8, <2>9 DEF ScoreInv, Standing
<1>18. CASE Fail
  <2>1. /\ UNCHANGED <<setup, competitors, providers>> /\ stage # "completed"
        /\ stage' = "failed"
        /\ opp' = opp \/ opp' = [opp EXCEPT !.state = "needs_more_evidence"]
    BY <1>18 DEF Fail, evidence
  <2>2. /\ opp'.latest = opp.latest /\ opp'.confidence = opp.confidence
        /\ opp' = [latest |-> opp'.latest, confidence |-> opp'.confidence, state |-> opp'.state]
    BY <1>0, <2>1
  <2> QED BY <2>1, <2>2 DEF ScoreInv
<1>19. CASE UNCHANGED vars
  BY <1>3, <1>19 DEF vars, evidence, Standing
<1> QED
  BY <1>4, <1>5, <1>6, <1>7, <1>8, <1>9, <1>10, <1>11, <1>12, <1>13, <1>14, <1>15, <1>16, <1>17,
     <1>18, <1>19 DEF Next

\* The evidence of a scan is as the scorer's lemmas take it
LEMMA EvidenceSampled ==
  ASSUME EvidenceInv, ScoreInv
  PROVE  /\ Sampled(Evidence) /\ Nationwide(Evidence)
         /\ ~Preliminary => Evidence.assessment = "full"
<1>1. /\ Evidence.metrics = metrics /\ Evidence.serps = serps
      /\ Evidence.competitors = competitors /\ Evidence.providers = providers
      /\ Evidence.mode = setup.mode
      /\ Evidence.assessment = IF Preliminary THEN "preliminary" ELSE "full"
  BY DEF Evidence
<1>2. setup.mode \in {"live", "sandbox", "replay", "fixture"}
  BY SetupConstants DEF EvidenceInv
<1>3. Sampled(Evidence)
  BY <1>1, <1>2 DEF Sampled, EvidenceInv, ScoreInv
<1>4. Nationwide(Evidence)
  BY <1>1 DEF Nationwide, EvidenceInv, Granularity
<1> QED BY <1>1, <1>3, <1>4

LEMMA HonestlyPublished == EvidenceInv /\ ScoreInv => ConfidenceHonest
<1> SUFFICES ASSUME EvidenceInv, ScoreInv, stage = "completed",
                    setup.latest = None \/ Ranks(score)
             PROVE  /\ opp.confidence # "high"
                    /\ opp.confidence = "medium" =>
                         /\ setup.mode # "fixture" /\ quality # "fail" /\ competitors # <<>>
                         /\ Demand(metrics, setup.market).market # None
                         /\ ~(StaleMetrics(Evidence) /\ StaleSerps(Evidence))
  BY DEF ConfidenceHonest
<1> DEFINE e == Evidence
<1>1. Scored /\ Published
  BY DEF ScoreInv
<1>2. CASE Preliminary
  <2>1. setup.latest = None
    BY <1>2 DEF Ranks
  <2>2. opp.confidence \in {"insufficient", "preliminary"}
    BY <1>1, <1>2, <2>1 DEF Published
  <2> QED BY <2>2
<1>3. CASE ~Preliminary
  <2>1. opp.confidence = score.confidence
    BY <1>1, <1>3 DEF Published
  <2>2. quality = Quality(e) /\ opp.confidence = ApplyToScore(Score(e), quality).confidence
    BY <1>1, <2>1 DEF Scored
  <2>3. Sampled(e) /\ Nationwide(e) /\ e.assessment = "full"
    BY <1>3, EvidenceSampled
  <2>4. /\ e.mode = setup.mode /\ e.competitors = competitors /\ e.metrics = metrics
        /\ e.market = setup.market
    BY DEF Evidence
  <2> HIDE DEF e
  <2>5. quality \in {"pass", "warning", "fail"}
    BY <2>2, QualityOf
  <2>6. /\ opp.confidence # "high"
        /\ opp.confidence = "medium" =>
              /\ e.mode # "fixture" /\ quality # "fail" /\ e.competitors # <<>>
              /\ Demand(e.metrics, e.market).market # None
              /\ ~(StaleMetrics(e) /\ StaleSerps(e))
    BY <2>2, <2>3, <2>5, HonestScore
  <2>7. /\ opp.confidence # "high"
        /\ opp.confidence = "medium" =>
              /\ setup.mode # "fixture" /\ quality # "fail" /\ competitors # <<>>
              /\ Demand(metrics, setup.market).market # None
              /\ ~(StaleMetrics(e) /\ StaleSerps(e))
    BY <2>4, <2>6
  <2> QED BY <2>7 DEF e
<1> QED BY <1>2, <1>3

\* The confidence an opportunity shows is never above what its scan found
\* (confidence.py, evidence_quality.py, scanner.py:310-324): ConfidenceHonest, for
\* every answer of the providers and every setup.
THEOREM ConfidenceIsHonest == Spec => []ConfidenceHonest
<1>1. Init => EvidenceInv /\ ScoreInv
  BY EvidenceInit, ScoreInit
<1>2. EvidenceInv /\ ScoreInv /\ [Next]_vars => (EvidenceInv /\ ScoreInv)'
  BY EvidenceStep, ScoreStep
<1> QED BY <1>1, <1>2, HonestlyPublished, PTL DEF Spec

\* A step that replaces the ranked score, and what it needs
SoundRank ==
    opp'.latest # opp.latest =>
      /\ ~Preliminary /\ setup.configured
      /\ Len(competitors) >= 3 /\ serps # <<>> /\ providers # <<>>
      /\ \E i \in DOMAIN metrics : metrics[i].relevant
      /\ opp'.state = "full_review"
      /\ setup.mode = "live" => opp'.confidence # "insufficient"

LEMMA RankStep == EvidenceInv /\ ScoreInv /\ [Next]_vars => [SoundRank]_vars
<1> SUFFICES ASSUME EvidenceInv, ScoreInv, Next, opp'.latest # opp.latest
             PROVE  SoundRank
  BY DEF SoundRank
<1>0. opp = [latest |-> opp.latest, confidence |-> opp.confidence, state |-> opp.state]
  BY DEF ScoreInv
<1>1. CASE Publish
  <2> DEFINE e == Evidence
  <2>1. /\ stage = "persisting_results"
        /\ opp' = [latest |-> IF Ranks(score) THEN score.total ELSE opp.latest,
                   confidence |-> PublishedConfidence, state |-> NextState]
    BY <1>1 DEF Publish
  <2>2. Ranks(score)
    BY <2>1
  <2>3. ~Preliminary /\ score.status = "complete"
    BY <2>2 DEF Ranks
  <2>4. quality = Quality(e) /\ score = ApplyToScore(Score(e), quality)
    BY <2>1 DEF ScoreInv, Scored
  <2>5. Sampled(e) /\ e.assessment = "full"
    BY <2>3, EvidenceSampled
  <2>6. /\ e.mode = setup.mode /\ e.competitors = competitors /\ e.metrics = metrics
        /\ e.serps = serps /\ e.providers = providers /\ e.configured = setup.configured
    BY DEF Evidence
  <2> HIDE DEF e
  <2>7. /\ quality # "fail" /\ e.configured
        /\ Len(e.competitors) >= 3 /\ e.serps # <<>> /\ e.providers # <<>>
        /\ \E i \in DOMAIN e.metrics : e.metrics[i].relevant
        /\ e.mode = "live" => score.confidence # "insufficient"
    BY <2>3, <2>4, <2>5, SoundScore
  <2>8. NextState = "full_review" /\ PublishedConfidence = score.confidence
    BY <2>2, <2>3, <2>7 DEF NextState, PublishedConfidence
  <2>9. opp'.state = "full_review" /\ opp'.confidence = score.confidence
    BY <2>1, <2>8
  <2> QED BY <2>3, <2>6, <2>7, <2>9 DEF SoundRank
<1>2. ASSUME opp' = opp \/ opp' = [opp EXCEPT !.state = "running"]
                \/ opp' = [opp EXCEPT !.state = "needs_more_evidence"]
      PROVE  FALSE
  BY <1>0, <1>2
<1>3. CASE PlanScan
  BY <1>2, <1>3 DEF PlanScan
<1>4. CASE Fail
  BY <1>2, <1>4 DEF Fail
<1>5. CASE ReadManifest \/ ReadRecords \/ ReadCounty \/ AssessMarket \/ ListMarkets
  BY <1>2, <1>5 DEF ReadManifest, ReadRecords, ReadCounty, AssessMarket, ListMarkets
<1>6. CASE ScoreScan
  BY <1>2, <1>6 DEF ScoreScan
<1>7. ASSUME NEW r \in DOMAIN Releases, Activate(r) PROVE SoundRank
  BY <1>2, <1>7 DEF Activate
<1>8. ASSUME NEW list \in CandidateLists, DiscoverKeywords(list) PROVE SoundRank
  BY <1>2, <1>8 DEF DiscoverKeywords
<1>9. ASSUME NEW answer \in MetricAnswers, FetchMetrics(answer) PROVE SoundRank
  BY <1>2, <1>9 DEF FetchMetrics
<1>10. ASSUME NEW answer \in SerpAnswers, FetchSerp(answer) PROVE SoundRank
  BY <1>2, <1>10 DEF FetchSerp
<1>11. ASSUME NEW answer \in CompetitorAnswers, FetchCompetitors(answer) PROVE SoundRank
  BY <1>2, <1>11 DEF FetchCompetitors
<1>12. ASSUME NEW list \in ProviderLists, FetchProviders(list) PROVE SoundRank
  BY <1>2, <1>12 DEF FetchProviders
<1> QED
  BY <1>1, <1>3, <1>4, <1>5, <1>6, <1>7, <1>8, <1>9, <1>10, <1>11, <1>12 DEF Next

\* An opportunity's ranked score is replaced only by a sound full assessment, which
\* goes to review (scanner.py:310-324): RankedIsSound, for every answer of the
\* providers and every setup.
THEOREM RankingIsSound == Spec => RankedIsSound
<1>1. Init => EvidenceInv /\ ScoreInv
  BY EvidenceInit, ScoreInit
<1>2. EvidenceInv /\ ScoreInv /\ [Next]_vars => (EvidenceInv /\ ScoreInv)'
  BY EvidenceStep, ScoreStep
<1>3. EvidenceInv /\ ScoreInv /\ [Next]_vars =>
        [opp'.latest # opp.latest =>
         /\ ~Preliminary /\ setup.configured
         /\ Len(competitors) >= 3 /\ serps # <<>> /\ providers # <<>>
         /\ \E i \in DOMAIN metrics : metrics[i].relevant
         /\ opp'.state = "full_review"
         /\ setup.mode = "live" => opp'.confidence # "insufficient"]_vars
  BY RankStep DEF SoundRank
<1> QED BY <1>1, <1>2, <1>3, PTL DEF Spec, RankedIsSound

---------------------------------------------------------------------------
(* The signals of a market                                                   *)

Value == Int \cup {None}
Numbers(rows) == \A r \in rows : \A m \in DOMAIN r.values : r.values[m] \in Value
\* Parts of a snapshot whose rows hold numbers
Numeric(parts) == \A d \in DOMAIN parts : IsFiniteSet(parts[d].rows) /\ Numbers(parts[d].rows)

\* Where a measure comes from
LEMMA MeasuredOf ==
  ASSUME NEW market, NEW parts, NEW m
  PROVE  LET e == Measured(market, parts, m) IN
         \/ e.source = "embedded" /\ e.value = (IF m \in Embedded THEN market[m] ELSE None)
         \/ \E d \in DOMAIN parts \ Supply : \E r \in parts[d].rows :
               /\ m \in DOMAIN r.values
               /\ e.value = r.values[m] /\ e.source = parts[d].release
<1> DEFINE says == {d \in DOMAIN parts \ Supply : \E r \in parts[d].rows : m \in DOMAIN r.values}
           d0 == CHOOSE d \in says : TRUE
           row == CHOOSE r \in parts[d0].rows : m \in DOMAIN r.values
           own == IF m \in Embedded THEN market[m] ELSE None
<1>1. Measured(market, parts, m) =
        IF says = {} THEN [value |-> own, source |-> "embedded"]
        ELSE [value |-> row.values[m], source |-> parts[d0].release]
  BY DEF Measured
<1>2. says # {} => d0 \in says
  OBVIOUS
<1>3. says # {} => /\ d0 \in DOMAIN parts \ Supply
                   /\ row \in parts[d0].rows /\ m \in DOMAIN row.values
  <2> HIDE DEF d0
  <2> QED BY <1>2
<1> HIDE DEF says, d0, row, own
<1> QED BY <1>1, <1>3 DEF own

LEMMA MeasuredInt ==
  ASSUME NEW market \in MarketRecord, NEW parts, Numeric(parts), NEW m
  PROVE  Measured(market, parts, m).value \in Value
<1> DEFINE e == Measured(market, parts, m)
<1>1. m \in Embedded => market[m] \in Value
  BY DEF Embedded, Measures, MarketRecord, Value
<1>2. \/ e.source = "embedded" /\ e.value = (IF m \in Embedded THEN market[m] ELSE None)
      \/ \E d \in DOMAIN parts \ Supply : \E r \in parts[d].rows :
            /\ m \in DOMAIN r.values
            /\ e.value = r.values[m] /\ e.source = parts[d].release
  BY MeasuredOf
<1> HIDE DEF e
<1>3. e.value \in Value
  BY <1>1, <1>2 DEF Numeric, Numbers, Value
<1> QED BY <1>3 DEF e

LEMMA RateInt ==
  ASSUME NEW a \in Value, NEW b \in Value
  PROVE  Rate(a, b) \in Value
<1>1. CASE a = None \/ b = None \/ b = 0
  BY <1>1 DEF Rate, Value
<1>2. CASE ~(a = None \/ b = None \/ b = 0)
  <2>1. a \in Int /\ b \in Int /\ b # 0 /\ Unit \in Int
    BY <1>2 DEF Value, Unit
  <2>2. Rate(a, b) = IF b > 0 THEN Round(Unit * a, b) ELSE Round(-(Unit * a), -b)
    BY <1>2 DEF Rate
  <2>3. b > 0 => Round(Unit * a, b) \in Int
    BY <2>1, RoundInt
  <2>4. b < 0 => Round(-(Unit * a), -b) \in Int
    <3>1. -(Unit * a) \in Int /\ -b \in Int /\ (b < 0 => -b > 0)
      BY <2>1
    <3> QED BY <3>1, RoundInt
  <2> QED BY <2>1, <2>2, <2>3, <2>4 DEF Value
<1> QED BY <1>1, <1>2

LEMMA DerivedInt ==
  ASSUME NEW market \in MarketRecord, NEW v \in Value
  PROVE  Age(market, v) \in Value /\ PerArea(market, v) \in Value
<1>1. market.year \in Nat /\ market.area \in Nat
  BY DEF MarketRecord
<1>2. Age(market, v) \in Value
  BY <1>1 DEF Age, Most, Value
<1>3. CASE v = None \/ market.area = 0
  BY <1>2, <1>3 DEF PerArea, Value
<1>4. CASE ~(v = None \/ market.area = 0)
  <2>1. v \in Int /\ market.area \in Int /\ market.area > 0
    BY <1>1, <1>4 DEF Value
  <2>2. Round(v, market.area) \in Int
    BY <2>1, RoundInt
  <2> QED BY <1>2, <1>4, <2>2 DEF PerArea, Value
<1> QED BY <1>3, <1>4

LEMMA MarketSignalsOf ==
  ASSUME NEW market \in MarketRecord, NEW parts, Numeric(parts)
  PROVE  /\ DOMAIN MarketSignals(market, parts) = Measures \cup Derived
         /\ \A s \in Measures : MarketSignals(market, parts)[s] = Measured(market, parts, s)
         /\ \A s \in Measures \cup Derived : MarketSignals(market, parts)[s].value \in Value
<1> DEFINE got(m) == Measured(market, parts, m)
           or(own, other) == [value |-> IF own # None THEN own ELSE other, source |-> "embedded"]
           r1 == Rate(market.owner_occupied_units, market.households)
           r2 == Rate(got("owner_occupied_units").value, got("households").value)
           a1 == Age(market, market.median_year_built)
           a2 == Age(market, got("median_year_built").value)
           p1 == PerArea(market, market.households)
           p2 == PerArea(market, got("households").value)
           derived == [homeownership_rate |-> or(r1, r2), housing_age |-> or(a1, a2),
                       household_density |-> or(p1, p2),
                       purchasing_power |-> got("median_household_income")]
           all == MarketSignals(market, parts)
<1>1. all = Merged([m \in Measures |-> got(m)], derived)
  BY DEF MarketSignals
<1>2. \A m : got(m).value \in Value
  BY MeasuredInt
<1>3. /\ market.owner_occupied_units \in Value /\ market.households \in Value
      /\ market.median_year_built \in Value
  BY DEF MarketRecord, Value
<1> HIDE DEF got
<1>4. /\ r1 \in Value /\ r2 \in Value /\ a1 \in Value /\ a2 \in Value
      /\ p1 \in Value /\ p2 \in Value
  BY <1>2, <1>3, RateInt, DerivedInt
<1> HIDE DEF r1, r2, a1, a2, p1, p2, all
<1>5. /\ or(r1, r2).value \in Value /\ or(a1, a2).value \in Value /\ or(p1, p2).value \in Value
  BY <1>4
<1> HIDE DEF or
<1>6. DOMAIN derived = Derived /\ \A s \in Derived : derived[s].value \in Value
  BY <1>2, <1>5 DEF Derived
<1> HIDE DEF derived
<1>7. /\ DOMAIN all = Measures \cup Derived
      /\ \A s \in Measures : all[s] = got(s)
      /\ \A s \in Derived : all[s] = got(s) \/ all[s] = derived[s]
  BY <1>1, <1>6 DEF Merged
<1>8. \A s \in Measures \cup Derived : all[s].value \in Value
  BY <1>2, <1>6, <1>7
<1> QED BY <1>7, <1>8 DEF all, got

LEMMA WeightInt ==
  ASSUME NEW service, NEW c \in DOMAIN Mappings(service)
  PROVE  EvidenceWeight(Mappings(service)[c]) \in Int
<1>1. service \in {"plumbing", "hvac_services"}
  <2> SUFFICES ASSUME service \notin {"plumbing", "hvac_services"} PROVE FALSE
    OBVIOUS
  <2>1. Mappings(service) = <<>>
    BY DEF Mappings
  <2> QED BY <2>1
<1>2. Mappings(service)[c] = [relationship |-> "broad_parent", confidence |-> "medium"]
  BY <1>1 DEF Mappings
<1> DEFINE mapping == Mappings(service)[c]
<1>3. mapping.relationship = "broad_parent" /\ mapping.confidence = "medium"
  BY <1>2
<1> HIDE DEF mapping
<1>4. EvidenceWeight(mapping) = 55 * 75
  BY <1>3 DEF EvidenceWeight
<1> QED BY <1>4 DEF mapping

LEMMA AggregatedInt ==
  ASSUME NEW service, NEW rows, IsFiniteSet(rows), Numbers(rows), NEW measure
  PROVE  Aggregated(rows, Mappings(service), measure) \in Value
<1> DEFINE mappings == Mappings(service)
           used == {r \in rows : /\ r.code \in DOMAIN mappings
                                 /\ measure \in DOMAIN r.values /\ r.values[measure] # None}
           term(r) == Round(r.values[measure] * EvidenceWeight(mappings[r.code]), 10)
           f == [r \in used |-> term(r)]
<1>1. Aggregated(rows, mappings, measure) = IF used = {} THEN None ELSE SumFunctionOnSet(f, used)
  BY DEF Aggregated, SumOver
<1>2. IsFiniteSet(used)
  BY FS_Subset
<1>3. ASSUME NEW r \in used PROVE term(r) \in Int
  <2>1. r.values[measure] \in Int
    BY DEF Numbers, Value
  <2>2. EvidenceWeight(mappings[r.code]) \in Int
    BY WeightInt
  <2> DEFINE v == r.values[measure]
             w == EvidenceWeight(mappings[r.code])
  <2>3. v * w \in Int /\ 10 \in Int /\ 10 > 0
    <3> HIDE DEF v, w
    <3> QED BY <2>1, <2>2 DEF v, w
  <2> HIDE DEF v, w
  <2>4. Round(v * w, 10) \in Int
    BY <2>3, RoundInt
  <2> QED BY <2>4 DEF v, w
<1> HIDE DEF term, used, mappings
<1>4. SumFunctionOnSet(f, used) \in Int
  <2>1. \A r \in used : f[r] \in Int
    BY <1>3
  <2> HIDE DEF f
  <2> QED BY <1>2, <2>1, SumStep
<1> HIDE DEF f
<1>5. Aggregated(rows, mappings, measure) \in Value
  BY <1>1, <1>4 DEF Value
<1> QED BY <1>5 DEF mappings

LEMMA DensityInt ==
  ASSUME NEW total \in Value, NEW households \in Value
  PROVE  Density(total, households) \in Value
<1>1. CASE total = None \/ households = None \/ households <= 0
  BY <1>1 DEF Density, Value
<1>2. CASE ~(total = None \/ households = None \/ households <= 0)
  <2>1. total * 10000 \in Int /\ households \in Int /\ households > 0
    BY <1>2 DEF Value
  <2>2. Round(total * 10000, households) \in Int
    BY <2>1, RoundInt
  <2> QED BY <1>2, <2>2 DEF Density, Value
<1> QED BY <1>1, <1>2

LEMMA CombinedInt ==
  ASSUME NEW service, NEW parts, Numeric(parts), NEW signals,
         signals[ProfileOf(service).target].value \in Value
  PROVE  ProviderDensity(service, parts, signals).combined \in Value
<1> DEFINE mappings == Mappings(service)
           target == signals[ProfileOf(service).target].value
           rows(d) == {r \in parts[d].rows : r.code \in DOMAIN mappings}
           totals == [d \in Supply |-> IF d \in DOMAIN parts
                                       THEN Aggregated(rows(d), mappings, SupplyMeasure[d]) ELSE None]
           known == {d \in Supply : Density(totals[d], target) # None}
           term(d) == Density(totals[d], target)
           f == [d \in known |-> term(d)]
           c == IF known = {} THEN None ELSE SumFunctionOnSet(f, known)
<1>1. ProviderDensity(service, parts, signals).combined = c
  BY DEF ProviderDensity, SumOver
<1>2. ASSUME NEW d \in Supply PROVE totals[d] \in Value
  <2>1. CASE d \in DOMAIN parts
    <3>1. IsFiniteSet(rows(d)) /\ Numbers(rows(d))
      <4>1. IsFiniteSet(parts[d].rows) /\ Numbers(parts[d].rows)
        BY <2>1 DEF Numeric
      <4>2. rows(d) \subseteq parts[d].rows
        OBVIOUS
      <4> HIDE DEF rows
      <4>3. IsFiniteSet(rows(d))
        BY <4>1, <4>2, FS_Subset
      <4>4. Numbers(rows(d))
        BY <4>1, <4>2 DEF Numbers
      <4> QED BY <4>3, <4>4
    <3> HIDE DEF rows
    <3>2. Aggregated(rows(d), mappings, SupplyMeasure[d]) \in Value
      BY <3>1, AggregatedInt
    <3> QED BY <2>1, <3>2
  <2>2. CASE d \notin DOMAIN parts
    BY <2>2 DEF Value
  <2> QED BY <2>1, <2>2
<1> HIDE DEF totals
<1>3. target \in Value
  OBVIOUS
<1> HIDE DEF target
<1>4. \A d \in known : term(d) \in Int
  <2>1. \A d \in Supply : Density(totals[d], target) \in Value
    BY <1>2, <1>3, DensityInt
  <2> QED BY <2>1 DEF Value
<1>5. IsFiniteSet(known)
  <2>1. known \subseteq {"cbp"} \cup {"nes"}
    BY DEF Supply
  <2>2. IsFiniteSet({"cbp"} \cup {"nes"})
    BY FS_Singleton, FS_Union
  <2> HIDE DEF known
  <2> QED BY <2>1, <2>2, FS_Subset
<1> HIDE DEF known, term
<1>6. \A d \in known : f[d] \in Int
  BY <1>4
<1> HIDE DEF f
<1>7. SumFunctionOnSet(f, known) \in Int
  BY <1>5, <1>6, SumStep
<1>8. c \in Value
  BY <1>7 DEF Value
<1> QED BY <1>1, <1>8

---------------------------------------------------------------------------
(* The assessment of a market                                                *)

\* A signal as a profile configures it
Configured(p) ==
    /\ p.weight \in Int /\ p.credit \in Int
    /\ \/ p.scale = "linear" /\ p.strong \in Int /\ p.strong > 0
       \/ p.scale = "log" /\ p.strong \in Int /\ p.strong >= 1
       \/ /\ p.scale = "ideal" /\ p.low \in Int /\ p.low > 0
          /\ p.high \in Int /\ p.top \in Int /\ p.top > p.high
Signals == Measures \cup Derived \cup {"combined_supply_density"}

LEMMA ProfileShape ==
  ASSUME NEW service
  PROVE  LET profile == ProfileOf(service) IN
         /\ profile.target \in Measures /\ profile.minimum \in Int
         /\ DOMAIN profile.signals \subseteq Signals
         /\ \A s \in DOMAIN profile.signals : Configured(profile.signals[s])
<1> DEFINE Fine(profile) ==
              /\ profile.target \in Measures /\ profile.minimum \in Int
              /\ DOMAIN profile.signals \subseteq Signals
              /\ \A s \in DOMAIN profile.signals : Configured(profile.signals[s])
<1>1. Fine(Profiles.plumbing)
  BY DEF Profiles, Higher, Ideal, Configured, Signals, Measures, Derived
<1>2. Fine(Profiles.hvac_services)
  BY DEF Profiles, Higher, Ideal, Configured, Signals, Measures, Derived
<1>3. Fine(Profiles.generic_local_service)
  BY DEF Profiles, Higher, Ideal, Configured, Signals, Measures, Derived
<1>4. DOMAIN Profiles = {"plumbing", "hvac_services", "generic_local_service"}
  BY DEF Profiles
<1>5. ProfileOf(service) \in {Profiles.plumbing, Profiles.hvac_services,
                              Profiles.generic_local_service}
  BY <1>4 DEF ProfileOf
<1> HIDE DEF Fine
<1>6. Fine(ProfileOf(service))
  BY <1>1, <1>2, <1>3, <1>5
<1> QED BY <1>6 DEF Fine

LEMMA LogNat ==
  ASSUME NEW n \in Int
  PROVE  Log(n) \in Nat /\ (n >= 1 => Log(n) > 0)
<1> DEFINE K == {k \in 1..30 : 2^k <= n + 1}
<1>1. Log(n) = Cardinality(K)
  BY DEF Log
<1>2. IsFiniteSet(K)
  <2>1. 1 \in Int /\ 30 \in Int
    OBVIOUS
  <2>2. IsFiniteSet(1..30)
    BY <2>1, FS_Interval
  <2>3. K \subseteq 1..30
    OBVIOUS
  <2> HIDE DEF K
  <2> QED BY <2>2, <2>3, FS_Subset
<1>3. n >= 1 => 1 \in K
  <2>1. 2^1 = 2
    OBVIOUS
  <2> QED BY <2>1
<1> HIDE DEF K
<1>4. Cardinality(K) \in Nat /\ (Cardinality(K) = 0 <=> K = {})
  BY <1>2, FS_CardinalityType, FS_EmptySet
<1> QED BY <1>1, <1>3, <1>4

LEMMA NormalizedInt ==
  ASSUME NEW value \in Int, NEW p, Configured(p)
  PROVE  Normalized(value, p) \in Int
<1> DEFINE v == Most(0, value)
<1>1. v \in Int /\ Unit \in Int
  BY DEF Most, Unit
<1> HIDE DEF v
<1>2. \A x \in Int : Unit * x \in Int
  BY <1>1
<1>3. CASE p.scale = "linear"
  <2>1. p.strong \in Int /\ p.strong > 0
    BY <1>3 DEF Configured
  <2>2. Round(Unit * v, p.strong) \in Int
    BY <1>1, <1>2, <2>1, RoundInt
  <2>3. Normalized(value, p) = Least(Unit, Round(Unit * v, p.strong))
    BY <1>3 DEF Normalized, v
  <2> QED BY <1>1, <2>2, <2>3 DEF Least
<1>4. CASE p.scale = "log"
  <2>1. p.strong \in Int /\ p.strong >= 1
    BY <1>4 DEF Configured
  <2>2. Log(v) \in Int /\ Log(p.strong) \in Int /\ Log(p.strong) > 0
    BY <1>1, <2>1, LogNat
  <2>3. Round(Unit * Log(v), Log(p.strong)) \in Int
    BY <1>2, <2>2, RoundInt
  <2>4. Normalized(value, p) = Least(Unit, Round(Unit * Log(v), Log(p.strong)))
    BY <1>4 DEF Normalized, v
  <2> QED BY <1>1, <2>3, <2>4 DEF Least
<1>5. CASE p.scale = "ideal"
  <2>1. /\ p.low \in Int /\ p.low > 0 /\ p.high \in Int /\ p.top \in Int
        /\ p.top - p.high \in Int /\ p.top - p.high > 0 /\ Most(0, p.top - v) \in Int
    BY <1>1, <1>5 DEF Configured, Most
  <2>2. Round(Unit * v, p.low) \in Int
    BY <1>1, <1>2, <2>1, RoundInt
  <2>3. Round(Unit * Most(0, p.top - v), p.top - p.high) \in Int
    BY <1>2, <2>1, RoundInt
  <2>4. Normalized(value, p) =
          IF v < p.low THEN Round(Unit * v, p.low)
          ELSE IF v <= p.high THEN Unit
          ELSE Round(Unit * Most(0, p.top - v), p.top - p.high)
    BY <1>5 DEF Normalized, v
  <2> QED BY <1>1, <2>2, <2>3, <2>4
<1> QED BY <1>3, <1>4, <1>5 DEF Configured

\* What ranks an assessment
Keyed(a) == a.score \in Value /\ a.coverage \in Int /\ a.market \in MarketRecord
\* Every signal of a profile has a number or no value
Valued(signals) == \A s \in Signals : signals[s].value \in Value

LEMMA AssessedOf ==
  ASSUME NEW market \in MarketRecord, NEW service, NEW signals, Valued(signals),
         NEW supply, NEW stale \in BOOLEAN
  PROVE  LET profile == ProfileOf(service)
             a == Assessed(market, profile, signals, supply, stale)
         IN  /\ Keyed(a) /\ a.market = market
             /\ a.evidence = [s \in DOMAIN profile.signals |-> signals[s]]
             /\ a.confidence \in {"medium", "high"} => ~stale
             /\ DOMAIN a = {"market", "score", "coverage", "points", "evidence", "confidence",
                            "recommendation"}
<1> DEFINE profile == ProfileOf(service)
           there == {s \in DOMAIN profile.signals : signals[s].value # None}
           term(s) == LET p == profile.signals[s]
                      IN  Round(Normalized(signals[s].value, p) * p.credit * p.weight, Unit)
           points == [s \in DOMAIN profile.signals |-> IF s \notin there THEN 0 ELSE term(s)]
           weight == [s \in there |-> profile.signals[s].weight]
           coverage == SumFunctionOnSet(weight, there)
           each == [s \in DOMAIN points |-> points[s]]
           rating == IF coverage < profile.minimum THEN None
                     ELSE SumFunctionOnSet(each, DOMAIN points)
           confidence == AssessmentConfidence(coverage, stale, supply.confidence)
           a == Assessed(market, profile, signals, supply, stale)
<1>1. a = [market |-> market, score |-> rating, coverage |-> coverage, points |-> points,
           evidence |-> [s \in DOMAIN profile.signals |-> signals[s]],
           confidence |-> confidence, recommendation |-> Recommendation(rating)]
  BY DEF Assessed, SumOver
<1>2. /\ profile.minimum \in Int /\ DOMAIN profile.signals \subseteq Signals
      /\ \A s \in DOMAIN profile.signals : Configured(profile.signals[s])
  BY ProfileShape
<1> HIDE DEF profile
<1>3. IsFiniteSet(DOMAIN profile.signals)
  <2> DEFINE f == <<"population", "households", "housing_units", "owner_occupied_units",
                    "median_year_built", "median_household_income", "storm_exposure",
                    "homeownership_rate", "housing_age", "household_density", "purchasing_power",
                    "combined_supply_density">>
             T == {f[i] : i \in 1..12}
  <2>1. 1 \in Int /\ 12 \in Int
    OBVIOUS
  <2>2. IsFiniteSet(1..12)
    BY <2>1, FS_Interval
  <2>3. IsFiniteSet(T)
    <3> HIDE DEF f
    <3> QED BY <2>2, ImageFinite
  <2>4. Signals \subseteq T
    <3>1. /\ f[1] \in T /\ f[2] \in T /\ f[3] \in T /\ f[4] \in T /\ f[5] \in T /\ f[6] \in T
          /\ f[7] \in T /\ f[8] \in T /\ f[9] \in T /\ f[10] \in T /\ f[11] \in T /\ f[12] \in T
      OBVIOUS
    <3> HIDE DEF T
    <3> QED BY <3>1 DEF Signals, Measures, Derived
  <2> HIDE DEF T
  <2> QED BY <1>2, <2>3, <2>4, FS_Subset
<1>4. coverage \in Int
  <2>1. IsFiniteSet(there) /\ \A s \in there : weight[s] \in Int
    <3>1. there \subseteq DOMAIN profile.signals
      OBVIOUS
    <3>2. \A s \in there : weight[s] \in Int
      BY <1>2 DEF Configured
    <3> HIDE DEF there
    <3> QED BY <1>3, <3>1, <3>2, FS_Subset
  <2> HIDE DEF there, weight
  <2> QED BY <2>1, SumStep
<1>5. \A s \in there : term(s) \in Int
  <2> SUFFICES ASSUME NEW s \in there PROVE term(s) \in Int
    OBVIOUS
  <2> DEFINE p == profile.signals[s]
             n == Normalized(signals[s].value, p)
  <2>1. signals[s].value \in Int /\ Configured(p)
    BY <1>2 DEF Valued, Value
  <2> HIDE DEF p
  <2>2. n \in Int /\ p.credit \in Int /\ p.weight \in Int
    BY <2>1, NormalizedInt DEF Configured
  <2> HIDE DEF n
  <2>3. n * p.credit * p.weight \in Int /\ Unit \in Int /\ Unit > 0
    BY <2>2 DEF Unit
  <2>4. Round(n * p.credit * p.weight, Unit) \in Int
    BY <2>3, RoundInt
  <2> QED BY <2>4 DEF n, p
<1> HIDE DEF term, there, coverage
<1>6. DOMAIN points = DOMAIN profile.signals /\ \A s \in DOMAIN points : points[s] \in Int
  BY <1>5
<1> HIDE DEF points
<1>7. SumFunctionOnSet(each, DOMAIN points) \in Int
  <2>1. \A s \in DOMAIN points : each[s] \in Int
    BY <1>6
  <2> HIDE DEF each
  <2> QED BY <1>3, <1>6, <2>1, SumStep
<1> HIDE DEF each
<1>8. rating \in Value
  BY <1>7 DEF Value
<1>9. confidence \in {"medium", "high"} => ~stale
  BY DEF AssessmentConfidence
<1> HIDE DEF rating, confidence, a
<1>10. /\ Keyed(a) /\ a.market = market
       /\ a.evidence = [s \in DOMAIN profile.signals |-> signals[s]]
       /\ a.confidence \in {"medium", "high"} => ~stale
       /\ DOMAIN a = {"market", "score", "coverage", "points", "evidence", "confidence",
                      "recommendation"}
  BY <1>1, <1>4, <1>8, <1>9 DEF Keyed
<1> QED BY <1>10 DEF a, profile

\* What an assessment says of the measures is what the parts of its snapshot say
LEMMA AssessmentOf ==
  ASSUME NEW market \in MarketRecord, NEW service, NEW parts, Numeric(parts), NEW stale \in BOOLEAN
  PROVE  LET a == Assessment(service, market, parts, stale)
         IN  /\ Keyed(a) /\ a.market = market
             /\ \A s \in DOMAIN a.evidence \cap Measures : a.evidence[s] = Measured(market, parts, s)
             /\ a.confidence \in {"medium", "high"} => ~stale
             /\ DOMAIN a = {"market", "score", "coverage", "points", "evidence", "confidence",
                            "recommendation"}
<1> DEFINE base == MarketSignals(market, parts)
           supply == ProviderDensity(service, parts, base)
           signals == Supplied(base, supply)
           profile == ProfileOf(service)
           a == Assessment(service, market, parts, stale)
<1>1. a = Assessed(market, profile, signals, supply, stale)
  BY DEF Assessment
<1>2. /\ DOMAIN base = Measures \cup Derived
      /\ \A s \in Measures : base[s] = Measured(market, parts, s)
      /\ \A s \in Measures \cup Derived : base[s].value \in Value
  BY MarketSignalsOf
<1>3. profile.target \in Measures
  BY ProfileShape
<1> HIDE DEF base
<1>4. supply.combined \in Value
  BY <1>2, <1>3, CombinedInt
<1> HIDE DEF supply
<1> DEFINE more == [combined_supply_density |-> [value |-> supply.combined, source |-> "supply"]]
<1>5. signals = Merged(base, more)
  BY DEF Supplied
<1>6. /\ DOMAIN more = {"combined_supply_density"}
      /\ more["combined_supply_density"].value \in Value
  BY <1>4
<1> HIDE DEF more, signals
<1>7. /\ \A s \in Measures \cup Derived : signals[s] = base[s]
      /\ signals["combined_supply_density"] \in {base["combined_supply_density"],
                                                 more["combined_supply_density"]}
      /\ "combined_supply_density" \notin Measures \cup Derived
  <2>1. "combined_supply_density" \notin Measures \cup Derived
    BY DEF Measures, Derived
  <2> QED BY <1>2, <1>5, <1>6, <2>1 DEF Merged
<1>8. Valued(signals)
  <2>1. signals["combined_supply_density"] = more["combined_supply_density"]
    BY <1>2, <1>5, <1>6, <1>7 DEF Merged
  <2> QED BY <1>2, <1>6, <1>7, <2>1 DEF Valued, Signals
<1>9. /\ Keyed(a) /\ a.market = market
      /\ a.evidence = [s \in DOMAIN profile.signals |-> signals[s]]
      /\ a.confidence \in {"medium", "high"} => ~stale
      /\ DOMAIN a = {"market", "score", "coverage", "points", "evidence", "confidence",
                     "recommendation"}
  BY <1>1, <1>8, AssessedOf
<1>10. \A s \in DOMAIN a.evidence \cap Measures : a.evidence[s] = Measured(market, parts, s)
  <2> HIDE DEF a, profile
  <2> QED BY <1>2, <1>7, <1>9
<1> QED BY <1>9, <1>10

---------------------------------------------------------------------------
(* The shortlist                                                             *)

LEMMA Lexicographic ==
  ASSUME NEW k, NEW l
  PROVE  Higher4(k, l) <=>
            \/ k[1] > l[1]
            \/ k[2] > l[2] /\ k[1] = l[1]
            \/ k[3] > l[3] /\ k[1] = l[1] /\ k[2] = l[2]
            \/ k[4] > l[4] /\ k[1] = l[1] /\ k[2] = l[2] /\ k[3] = l[3]
<1>2. Higher4(k, l) <=> \E i \in 1..4 : k[i] > l[i] /\ \A j \in 1..(i - 1) : k[j] = l[j]
  BY DEF Higher4
<1>3. /\ \A j \in 1..0 : FALSE
      /\ \A j \in 1..1 : j = 1
      /\ \A j \in 1..2 : j = 1 \/ j = 2
      /\ \A j \in 1..3 : j = 1 \/ j = 2 \/ j = 3
      /\ \A i \in 1..4 : i = 1 \/ i = 2 \/ i = 3 \/ i = 4
  OBVIOUS
<1>4. /\ (\A j \in 1..(1 - 1) : k[j] = l[j]) <=> TRUE
      /\ (\A j \in 1..(2 - 1) : k[j] = l[j]) <=> k[1] = l[1]
      /\ (\A j \in 1..(3 - 1) : k[j] = l[j]) <=> k[1] = l[1] /\ k[2] = l[2]
      /\ (\A j \in 1..(4 - 1) : k[j] = l[j]) <=> k[1] = l[1] /\ k[2] = l[2] /\ k[3] = l[3]
  BY <1>3
<1>5. Higher4(k, l) <=>
        \/ k[1] > l[1]
        \/ k[2] > l[2] /\ k[1] = l[1]
        \/ k[3] > l[3] /\ k[1] = l[1] /\ k[2] = l[2]
        \/ k[4] > l[4] /\ k[1] = l[1] /\ k[2] = l[2] /\ k[3] = l[3]
  <2> DEFINE P(i) == k[i] > l[i] /\ \A j \in 1..(i - 1) : k[j] = l[j]
  <2>1. Higher4(k, l) <=> P(1) \/ P(2) \/ P(3) \/ P(4)
    <3>1. Higher4(k, l) <=> \E i \in 1..4 : P(i)
      BY <1>2
    <3>2. 1 \in 1..4 /\ 2 \in 1..4 /\ 3 \in 1..4 /\ 4 \in 1..4
      OBVIOUS
    <3> HIDE DEF P
    <3> QED BY <1>3, <3>1, <3>2
  <2>2. P(1) <=> k[1] > l[1]
    BY <1>4
  <2>3. P(2) <=> k[2] > l[2] /\ k[1] = l[1]
    BY <1>4
  <2>4. P(3) <=> k[3] > l[3] /\ k[1] = l[1] /\ k[2] = l[2]
    BY <1>4
  <2>5. P(4) <=> k[4] > l[4] /\ k[1] = l[1] /\ k[2] = l[2] /\ k[3] = l[3]
    BY <1>4
  <2> HIDE DEF P
  <2> QED BY <2>1, <2>2, <2>3, <2>4, <2>5
<1> QED BY <1>5

\* The shortlist is made of assessments of the batch
LEMMA ShortlistPicks ==
  ASSUME NEW X, NEW batch \in Seq(X), \A i \in DOMAIN batch : Keyed(batch[i]), NEW limit \in Int
  PROVE  /\ Shortlist(batch, limit) \in Seq(X)
         /\ \A n \in DOMAIN Shortlist(batch, limit) :
               \E i \in DOMAIN batch : Shortlist(batch, limit)[n] = batch[i]
<1> DEFINE S == DOMAIN batch
           x(i) == IF batch[i].score = None THEN -1 ELSE batch[i].score
           y(i) == batch[i].coverage
           z(i) == batch[i].market.population
           w(i) == batch[i].market.id
           key == [i \in S |-> SortKey(batch[i])]
           over(j, i) == Higher4(key[j], key[i]) \/ (key[j] = key[i] /\ j < i)
           R == {p \in S \X S : over(p[1], p[2])}
           ahead(i) == {j \in S : over(j, i)}
           length == Least(Len(batch), Most(1, Least(limit, MaximumResults)))
<1>0. S = 1..Len(batch) /\ Len(batch) \in Nat /\ \A i \in S : batch[i] \in X
  BY LenProperties, ElementOfSeq
<1>1. \A i \in S : x(i) \in Int /\ y(i) \in Int /\ z(i) \in Int /\ w(i) \in Int
  BY DEF Keyed, Value, MarketRecord
<1>2. \A i \in S : key[i] = <<x(i), y(i), z(i), w(i)>>
  BY DEF SortKey
<1> DEFINE Lex(j, i) ==
              \/ x(j) > x(i)
              \/ x(j) = x(i) /\ y(j) > y(i)
              \/ x(j) = x(i) /\ y(j) = y(i) /\ z(j) > z(i)
              \/ x(j) = x(i) /\ y(j) = y(i) /\ z(j) = z(i) /\ w(j) > w(i)
              \/ x(j) = x(i) /\ y(j) = y(i) /\ z(j) = z(i) /\ w(j) = w(i) /\ j < i
<1> HIDE DEF key, x, y, z, w
<1>3. ASSUME NEW j \in S, NEW i \in S PROVE over(j, i) <=> Lex(j, i)
  <2>1. key[j] = <<x(j), y(j), z(j), w(j)>> /\ key[i] = <<x(i), y(i), z(i), w(i)>>
    BY <1>2
  <2>2. Higher4(key[j], key[i]) <=>
          \/ x(j) > x(i)
          \/ x(j) = x(i) /\ y(j) > y(i)
          \/ x(j) = x(i) /\ y(j) = y(i) /\ z(j) > z(i)
          \/ x(j) = x(i) /\ y(j) = y(i) /\ z(j) = z(i) /\ w(j) > w(i)
    <3>1. /\ key[j][1] = x(j) /\ key[j][2] = y(j) /\ key[j][3] = z(j) /\ key[j][4] = w(j)
          /\ key[i][1] = x(i) /\ key[i][2] = y(i) /\ key[i][3] = z(i) /\ key[i][4] = w(i)
      BY <2>1
    <3>2. Higher4(key[j], key[i]) <=>
            \/ key[j][1] > key[i][1]
            \/ key[j][2] > key[i][2] /\ key[j][1] = key[i][1]
            \/ key[j][3] > key[i][3] /\ key[j][1] = key[i][1] /\ key[j][2] = key[i][2]
            \/ /\ key[j][4] > key[i][4] /\ key[j][1] = key[i][1] /\ key[j][2] = key[i][2]
               /\ key[j][3] = key[i][3]
      BY Lexicographic
    <3> QED BY <3>1, <3>2
  <2>3. key[j] = key[i] <=> x(j) = x(i) /\ y(j) = y(i) /\ z(j) = z(i) /\ w(j) = w(i)
    BY <2>1
  <2> QED BY <2>2, <2>3
<1> HIDE DEF over
<1>4. Orders(R, S)
  <2>1. \A j, i \in S : <<j, i>> \in R <=> Lex(j, i)
    BY <1>3
  <2> HIDE DEF R
  <2>2. S \subseteq Int
    BY <1>0
  <2>3. \A i \in S : <<i, i>> \notin R
    BY <1>1, <2>1, <2>2
  <2>4. \A i, j \in S : i # j => <<i, j>> \in R \/ <<j, i>> \in R
    <3> SUFFICES ASSUME NEW i \in S, NEW j \in S, i # j
                 PROVE  Lex(i, j) \/ Lex(j, i)
      BY <2>1
    <3>1. /\ x(i) \in Int /\ y(i) \in Int /\ z(i) \in Int /\ w(i) \in Int /\ i \in Int
          /\ x(j) \in Int /\ y(j) \in Int /\ z(j) \in Int /\ w(j) \in Int /\ j \in Int
      BY <1>1, <2>2
    <3> HIDE DEF S
    <3> QED BY ONLY <3>1, i # j
  <2>5. \A i, j, k \in S : <<i, j>> \in R /\ <<j, k>> \in R => <<i, k>> \in R
    <3> SUFFICES ASSUME NEW i \in S, NEW j \in S, NEW k \in S, Lex(i, j), Lex(j, k)
                 PROVE  Lex(i, k)
      BY <2>1
    <3>1. /\ x(i) \in Int /\ y(i) \in Int /\ z(i) \in Int /\ w(i) \in Int /\ i \in Int
          /\ x(j) \in Int /\ y(j) \in Int /\ z(j) \in Int /\ w(j) \in Int /\ j \in Int
          /\ x(k) \in Int /\ y(k) \in Int /\ z(k) \in Int /\ w(k) \in Int /\ k \in Int
      BY <1>1, <2>2
    <3> HIDE DEF S
    <3> QED BY ONLY <3>1, Lex(i, j), Lex(j, k), SMTT(30)
  <2> QED BY <2>3, <2>4, <2>5 DEF Orders
<1>5. \A i \in S : Below(S, R, i) = ahead(i)
  BY DEF Below
<1> HIDE DEF R
<1>6. IsFiniteSet(S) /\ Cardinality(S) = Len(batch)
  <2>1. IsFiniteSet(1..Len(batch))
        /\ Cardinality(1..Len(batch)) = IF 1 > Len(batch) THEN 0 ELSE Len(batch) - 1 + 1
    BY <1>0, FS_Interval
  <2> QED BY <1>0, <2>1
<1>7. length \in Nat /\ length <= Len(batch)
  BY <1>0 DEF Least, Most, MaximumResults
<1> HIDE DEF ahead
<1>8. \A n \in 1..length : \E i \in S : Cardinality(ahead(i)) = n - 1
  <2> SUFFICES ASSUME NEW n \in 1..length PROVE \E i \in S : Cardinality(ahead(i)) = n - 1
    OBVIOUS
  <2>1. n - 1 \in 0..(Cardinality(S) - 1)
    <3> HIDE DEF length
    <3> QED BY <1>0, <1>6, <1>7
  <2> HIDE DEF S
  <2> QED BY <1>4, <1>5, <1>6, <2>1, RankExists
<1> DEFINE pick(n) == CHOOSE i \in S : Cardinality(ahead(i)) = n - 1
           elem(n) == batch[pick(n)]
<1>9. \A n \in 1..length : pick(n) \in S
  <2> HIDE DEF S, length
  <2> QED BY <1>8
<1>10. Shortlist(batch, limit) = [n \in 1..length |-> elem(n)]
  BY DEF Shortlist, ahead, over, key
<1> HIDE DEF pick, length
<1>11. \A n \in 1..length : elem(n) \in X
  BY <1>0, <1>9
<1>12. Shortlist(batch, limit) \in Seq(X)
  <2> HIDE DEF elem
  <2> QED BY <1>7, <1>10, <1>11, IsASeq
<1>13. \A n \in 1..length : \E i \in S : elem(n) = batch[i]
  BY <1>9
<1> HIDE DEF elem, S
<1>14. DOMAIN Shortlist(batch, limit) = 1..length
       /\ \A n \in 1..length : Shortlist(batch, limit)[n] = elem(n)
  BY <1>10
<1>15. \A n \in DOMAIN Shortlist(batch, limit) :
          \E i \in S : Shortlist(batch, limit)[n] = batch[i]
  BY <1>13, <1>14
<1> QED BY <1>12, <1>15 DEF S

---------------------------------------------------------------------------
(* Snapshots of the public data                                              *)

Kinds == ToSet(Datasets)
AllRows == UNION {Releases[v].rows : v \in DOMAIN Releases}
PartOf == [release : DOMAIN Releases \cup {None}, rows : SUBSET AllRows]

\* A part of a snapshot has this market's rows of the release it names, unless the
\* dataset's release changed while it was read; the supply datasets add the county's
Faithful(part, d, torn, market) ==
    /\ IsFiniteSet(part.rows)
    /\ part.release # None =>
         /\ part.release \in DOMAIN Releases /\ Releases[part.release].dataset = d
         /\ \/ d \in Supply
            \/ d \in torn
            \/ \A r \in part.rows : r \in Releases[part.release].rows /\ r.geo = market.id

\* EvidenceTraceable, of one assessment
Traced(a) ==
    /\ \A s \in DOMAIN a.evidence \cap Measures :
        LET e == a.evidence[s] IN
        \/ e.source = "embedded" /\ e.value = (IF s \in Embedded THEN a.market[s] ELSE None)
        \/ e.source \in a.versions /\ Releases[e.source].dataset \in a.torn
        \/ /\ e.source \in a.versions
           /\ \E r \in Releases[e.source].rows :
                 r.geo = a.market.id /\ s \in DOMAIN r.values /\ r.values[s] = e.value
    /\ a.confidence \in {"medium", "high"} => \A v \in a.versions : ~Releases[v].old

ActiveInv ==
    /\ DOMAIN active = Kinds
    /\ active = [d \in Kinds |-> active[d]]
    /\ \A d \in Kinds : active[d] # None =>
          active[d] \in DOMAIN Releases /\ Releases[active[d]].dataset = d

\* The dataset whose release has been named and not read yet
NamedInv ==
    /\ Len(reading.parts) < Len(Datasets)
    /\ reading.named \in DOMAIN Releases /\ Releases[reading.named].dataset = AtDataset
    /\ active[AtDataset] # None
    /\ AtDataset \in reading.torn \/ active[AtDataset] = reading.named

ReadingInv ==
    /\ reading = [parts |-> reading.parts, named |-> reading.named, rows |-> reading.rows,
                  torn |-> reading.torn]
    /\ reading.parts \in Seq(PartOf) /\ Len(reading.parts) <= Len(Datasets)
    /\ \A i \in DOMAIN reading.parts :
          Faithful(reading.parts[i], Datasets[i], reading.torn, Current)
    /\ reading.named # None => NamedInv
    /\ reading.rows # None => /\ reading.named # None /\ AtDataset \in Supply
                              /\ reading.rows \in SUBSET AllRows /\ IsFiniteSet(reading.rows)

AssessedInv == Listed(assessed) /\ \A i \in DOMAIN assessed : Keyed(assessed[i]) /\ Traced(assessed[i])

PublicInv ==
    /\ ActiveInv /\ ReadingInv /\ AssessedInv
    /\ ~(Len(assessed) < Len(setup.markets)) => reading = NoReading

LEMMA KindFacts ==
  /\ DOMAIN Datasets = 1..5 /\ Len(Datasets) = 5
  /\ \A i \in 1..5 : Datasets[i] \in Kinds
  /\ \A i, j \in 1..5 : Datasets[i] = Datasets[j] => i = j
<1>1. /\ DOMAIN Datasets = 1..5 /\ Len(Datasets) = 5
      /\ Datasets[1] = "acs" /\ Datasets[2] = "cbp" /\ Datasets[3] = "nes"
      /\ Datasets[4] = "noaa" /\ Datasets[5] = "fema"
  BY DEF Datasets
<1>2. \A i \in 1..5 : Datasets[i] \in Kinds
  BY <1>1 DEF Kinds, ToSet
<1>3. \A i \in 1..5 : i = 1 \/ i = 2 \/ i = 3 \/ i = 4 \/ i = 5
  OBVIOUS
<1>4. \A i, j \in 1..5 : Datasets[i] = Datasets[j] => i = j
  BY <1>1, <1>3
<1> QED BY <1>1, <1>2, <1>4

LEMMA ReadingNothing ==
  ASSUME reading = NoReading
  PROVE  ReadingInv
<1>1. /\ reading.parts = <<>> /\ reading.named = None /\ reading.rows = None
      /\ reading = [parts |-> reading.parts, named |-> reading.named, rows |-> reading.rows,
                    torn |-> reading.torn]
  BY DEF NoReading
<1>2. <<>> \in Seq(PartOf) /\ Len(<<>>) = 0 /\ DOMAIN <<>> = {}
  BY EmptySeq
<1> QED BY <1>1, <1>2, KindFacts DEF ReadingInv

LEMMA PublicInit == Init => PublicInv
<1> SUFFICES ASSUME Init PROVE PublicInv
  OBVIOUS
<1>1. /\ setup \in Setups /\ active = setup.active /\ reading = NoReading /\ assessed = <<>>
  BY DEF Init
<1>2. /\ DOMAIN active = Kinds
      /\ \A d \in Kinds : active[d] # None =>
            active[d] \in DOMAIN Releases /\ Releases[active[d]].dataset = d
  BY <1>1, SetupConstants DEF Kinds
<1>3. active = [d \in Kinds |-> active[d]]
  BY <1>1, SetupConstants DEF Kinds
<1>4. ReadingInv
  BY <1>1, ReadingNothing
<1>5. AssessedInv
  <2>1. Listed(<<>>) /\ DOMAIN <<>> = {}
    BY EmptySeq DEF Listed
  <2> QED BY <1>1, <2>1 DEF AssessedInv
<1> QED BY <1>1, <1>2, <1>3, <1>4, <1>5 DEF PublicInv, ActiveInv

\* The rows of a release
LEMMA RowsOf ==
  ASSUME NEW v \in DOMAIN Releases, NEW rows, rows \subseteq Releases[v].rows
  PROVE  rows \in SUBSET AllRows /\ IsFiniteSet(rows)
<1>1. IsFiniteSet(Releases[v].rows)
  BY ReleaseConstants
<1>2. IsFiniteSet(rows)
  BY <1>1, FS_Subset
<1> QED BY <1>2 DEF AllRows

LEMMA RowsNumbers ==
  ASSUME NEW rows \in SUBSET AllRows
  PROVE  Numbers(rows)
<1>1. ASSUME NEW r \in rows PROVE \A m \in DOMAIN r.values : r.values[m] \in Value
  <2>1. PICK v \in DOMAIN Releases : r \in Releases[v].rows
    BY DEF AllRows
  <2> QED BY <2>1, ReleaseConstants DEF Value
<1> QED BY <1>1 DEF Numbers

\* A release that is activated, or the one before it again
LEMMA ActivateStep ==
  ASSUME PublicInv, NEW r \in DOMAIN Releases, Activate(r)
  PROVE  PublicInv'
<1> DEFINE d == Releases[r].dataset
<1>1. /\ Reading /\ active' = [active EXCEPT ![d] = r]
      /\ reading' = IF Unread /\ reading.named # None /\ d = AtDataset
                    THEN [reading EXCEPT !.torn = @ \cup {d}] ELSE reading
      /\ UNCHANGED <<setup, assessed>>
  BY DEF Activate
<1>2. d \in Kinds
  BY ReleaseConstants DEF Kinds
<1>3. ActiveInv'
  BY <1>1, <1>2 DEF ActiveInv, PublicInv
<1>4. /\ reading = [parts |-> reading.parts, named |-> reading.named, rows |-> reading.rows,
                    torn |-> reading.torn]
      /\ reading.parts \in Seq(PartOf) /\ Len(reading.parts) <= Len(Datasets)
      /\ \A i \in DOMAIN reading.parts :
            Faithful(reading.parts[i], Datasets[i], reading.torn, Current)
      /\ reading.named # None => NamedInv
      /\ reading.rows # None => /\ reading.named # None /\ AtDataset \in Supply
                                /\ reading.rows \in SUBSET AllRows /\ IsFiniteSet(reading.rows)
  BY DEF PublicInv, ReadingInv
<1>5. /\ reading'.parts = reading.parts /\ reading'.named = reading.named
      /\ reading'.rows = reading.rows /\ reading.torn \subseteq reading'.torn
      /\ reading' = [parts |-> reading'.parts, named |-> reading'.named, rows |-> reading'.rows,
                     torn |-> reading'.torn]
      /\ Unread /\ reading.named # None /\ d = AtDataset => d \in reading'.torn
  BY <1>1, <1>4
<1>6. AtDataset' = AtDataset /\ Current' = Current
  BY <1>1, <1>5 DEF AtDataset, Current
<1>7. \A i \in DOMAIN reading'.parts :
         Faithful(reading'.parts[i], Datasets[i], reading'.torn, Current')
  <2>1. ASSUME NEW i \in DOMAIN reading.parts
        PROVE  Faithful(reading.parts[i], Datasets[i], reading'.torn, Current)
    BY <1>4, <1>5 DEF Faithful
  <2> QED BY <1>5, <1>6, <2>1
<1>8. ASSUME reading'.named # None PROVE NamedInv'
  <2>1. NamedInv /\ reading.named # None
    BY <1>4, <1>5, <1>8
  <2>2. Unread
    BY <1>1, <2>1 DEF Unread, NamedInv
  <2>3. AtDataset \in Kinds
    BY <2>1, ReleaseConstants DEF NamedInv, Kinds
  <2>4. CASE d = AtDataset
    <3>1. d \in reading'.torn /\ active'[AtDataset] = r
      BY <1>1, <1>2, <1>5, <2>1, <2>2, <2>3, <2>4 DEF PublicInv, ActiveInv
    <3>2. r # None
      BY ReleaseConstants
    <3> QED BY <1>5, <1>6, <2>1, <2>4, <3>1, <3>2 DEF NamedInv
  <2>5. CASE d # AtDataset
    <3>1. active'[AtDataset] = active[AtDataset]
      BY <1>1, <2>3, <2>5 DEF PublicInv, ActiveInv
    <3> QED BY <1>5, <1>6, <2>1, <3>1 DEF NamedInv
  <2> QED BY <2>4, <2>5
<1>9. ReadingInv'
  BY <1>4, <1>5, <1>6, <1>7, <1>8 DEF ReadingInv
<1>10. AssessedInv'
  BY <1>1 DEF PublicInv, AssessedInv
<1>11. Len(assessed') < Len(setup'.markets)
  BY <1>1 DEF Reading
<1> QED BY <1>3, <1>9, <1>10, <1>11 DEF PublicInv

\* Another dataset has been read
LEMMA PartStep ==
  ASSUME PublicInv, Unread, NEW named, NEW rows, reading' = Part(named, rows),
         UNCHANGED <<setup, active, assessed>>,
         [release |-> named, rows |-> rows] \in PartOf,
         Faithful([release |-> named, rows |-> rows], AtDataset, reading.torn, Current)
  PROVE  PublicInv'
<1> DEFINE part == [release |-> named, rows |-> rows]
           n == Len(reading.parts)
<1>1. /\ reading = [parts |-> reading.parts, named |-> reading.named, rows |-> reading.rows,
                    torn |-> reading.torn]
      /\ reading.parts \in Seq(PartOf)
      /\ \A i \in DOMAIN reading.parts :
            Faithful(reading.parts[i], Datasets[i], reading.torn, Current)
  BY DEF PublicInv, ReadingInv
<1>2. n \in Nat /\ DOMAIN reading.parts = 1..n /\ n < 5
  BY <1>1, LenProperties, KindFacts DEF Unread
<1> HIDE DEF part
<1>3. /\ reading'.parts = Append(reading.parts, part)
      /\ reading'.named = None /\ reading'.rows = None /\ reading'.torn = reading.torn
      /\ reading' = [parts |-> reading'.parts, named |-> reading'.named, rows |-> reading'.rows,
                     torn |-> reading'.torn]
  BY <1>1 DEF Part, part
<1>4. part \in PartOf /\ Faithful(part, AtDataset, reading.torn, Current)
  BY DEF part
<1>5. /\ Append(reading.parts, part) \in Seq(PartOf)
      /\ Len(Append(reading.parts, part)) = n + 1
      /\ \A i \in 1..n : Append(reading.parts, part)[i] = reading.parts[i]
      /\ Append(reading.parts, part)[n + 1] = part
  BY <1>1, <1>4, AppendProperties
<1>6. DOMAIN reading'.parts = 1..(n + 1)
  BY <1>3, <1>5, LenProperties
<1>7. Current' = Current
  BY DEF Current
<1>8. \A i \in DOMAIN reading'.parts :
         Faithful(reading'.parts[i], Datasets[i], reading'.torn, Current')
  <2>1. ASSUME NEW i \in 1..n PROVE Faithful(reading'.parts[i], Datasets[i], reading'.torn, Current')
    BY <1>1, <1>2, <1>3, <1>5, <1>7
  <2>2. Faithful(reading'.parts[n + 1], Datasets[n + 1], reading'.torn, Current')
    BY <1>3, <1>4, <1>5, <1>7 DEF AtDataset
  <2>3. \A i \in 1..(n + 1) : i \in 1..n \/ i = n + 1
    BY <1>2
  <2> QED BY <1>6, <2>1, <2>2, <2>3
<1>9. Len(reading'.parts) <= Len(Datasets)
  BY <1>2, <1>3, <1>5, KindFacts
<1>10. ReadingInv'
  BY <1>3, <1>5, <1>8, <1>9 DEF ReadingInv
<1>11. ActiveInv' /\ AssessedInv'
  BY DEF PublicInv, ActiveInv, AssessedInv
<1>12. Len(assessed') < Len(setup'.markets)
  BY DEF Unread, Reading
<1> QED BY <1>10, <1>11, <1>12 DEF PublicInv

LEMMA ReadStep ==
  ASSUME PublicInv, ReadManifest \/ ReadRecords \/ ReadCounty
  PROVE  PublicInv'
<1>0. /\ reading = [parts |-> reading.parts, named |-> reading.named, rows |-> reading.rows,
                    torn |-> reading.torn]
      /\ reading.parts \in Seq(PartOf) /\ Len(reading.parts) <= Len(Datasets)
      /\ \A i \in DOMAIN reading.parts :
            Faithful(reading.parts[i], Datasets[i], reading.torn, Current)
      /\ reading.named # None => NamedInv
      /\ reading.rows # None => /\ reading.named # None /\ AtDataset \in Supply
                                /\ reading.rows \in SUBSET AllRows /\ IsFiniteSet(reading.rows)
  BY DEF PublicInv, ReadingInv
<1>1. UNCHANGED <<setup, active, assessed>> /\ Unread
  BY DEF ReadManifest, ReadRecords, ReadCounty
<1>2. AtDataset \in Kinds /\ Len(reading.parts) < Len(Datasets)
  <2>1. Len(reading.parts) \in Nat /\ Len(reading.parts) < 5
    BY <1>0, <1>1, LenProperties, KindFacts DEF Unread
  <2>2. Len(reading.parts) + 1 \in 1..5
    BY <2>1
  <2> QED BY <1>1, <2>2, KindFacts DEF AtDataset, Unread
\* Only the named release or the rows are noted
<1>3. ASSUME reading'.parts = reading.parts, reading'.torn = reading.torn,
             reading' = [parts |-> reading'.parts, named |-> reading'.named,
                         rows |-> reading'.rows, torn |-> reading'.torn],
             reading'.named # None => NamedInv',
             reading'.rows # None => /\ reading'.named # None /\ AtDataset \in Supply
                                     /\ reading'.rows \in SUBSET AllRows
                                     /\ IsFiniteSet(reading'.rows)
      PROVE  PublicInv'
  <2>1. AtDataset' = AtDataset /\ Current' = Current
    BY <1>1, <1>3 DEF AtDataset, Current
  <2>2. ReadingInv'
    BY <1>0, <1>3, <2>1 DEF ReadingInv
  <2>3. ActiveInv' /\ AssessedInv'
    BY <1>1 DEF PublicInv, ActiveInv, AssessedInv
  <2>4. Len(assessed') < Len(setup'.markets)
    BY <1>1 DEF Unread, Reading
  <2> QED BY <2>2, <2>3, <2>4 DEF PublicInv
<1>4. CASE ReadManifest
  <2>1. /\ reading.named = None
        /\ reading' = IF active[AtDataset] = None THEN Part(None, {})
                      ELSE [reading EXCEPT !.named = active[AtDataset]]
    BY <1>4 DEF ReadManifest
  <2>2. reading.rows = None
    BY <1>0, <2>1
  <2>3. CASE active[AtDataset] = None
    <3> DEFINE part == [release |-> None, rows |-> {}]
    <3>1. part \in PartOf
      BY DEF PartOf
    <3>2. Faithful(part, AtDataset, reading.torn, Current)
      BY FS_EmptySet DEF Faithful
    <3>3. reading' = Part(None, {})
      BY <2>1, <2>3
    <3> QED BY <1>1, <3>1, <3>2, <3>3, PartStep
  <2>4. CASE active[AtDataset] # None
    <3>1. reading' = [reading EXCEPT !.named = active[AtDataset]]
      BY <2>1, <2>4
    <3>2. /\ reading'.parts = reading.parts /\ reading'.torn = reading.torn
          /\ reading'.rows = None /\ reading'.named = active[AtDataset]
          /\ reading' = [parts |-> reading'.parts, named |-> reading'.named,
                         rows |-> reading'.rows, torn |-> reading'.torn]
      BY <1>0, <2>2, <3>1
    <3>3. active[AtDataset] \in DOMAIN Releases /\ Releases[active[AtDataset]].dataset = AtDataset
      BY <1>2, <2>4 DEF PublicInv, ActiveInv
    <3>4. AtDataset' = AtDataset
      BY <3>2 DEF AtDataset
    <3>5. NamedInv'
      BY <1>1, <1>2, <2>4, <3>2, <3>3, <3>4 DEF NamedInv
    <3> QED BY <1>3, <3>2, <3>5
  <2> QED BY <2>3, <2>4
<1>5. CASE ReadRecords
  <2> DEFINE rows == {r \in Releases[active[AtDataset]].rows : r.geo = Current.id}
             part == [release |-> reading.named, rows |-> rows]
  <2>1. /\ reading.named # None
        /\ reading' = IF AtDataset \in Supply /\ Current.county # None
                      THEN [reading EXCEPT !.rows = rows] ELSE Part(reading.named, rows)
    BY <1>5 DEF ReadRecords
  <2>2. NamedInv
    BY <1>0, <2>1
  <2>3. active[AtDataset] \in DOMAIN Releases
    BY <1>2, <2>2 DEF PublicInv, ActiveInv, NamedInv
  <2>4. rows \in SUBSET AllRows /\ IsFiniteSet(rows)
    BY <2>3, RowsOf
  <2>5. AtDataset \in reading.torn \/
          \A r \in rows : r \in Releases[reading.named].rows /\ r.geo = Current.id
    BY <2>2 DEF NamedInv
  <2> HIDE DEF rows
  <2>6. CASE AtDataset \in Supply /\ Current.county # None
    <3>1. reading' = [reading EXCEPT !.rows = rows]
      BY <2>1, <2>6
    <3>2. /\ reading'.parts = reading.parts /\ reading'.torn = reading.torn
          /\ reading'.rows = rows /\ reading'.named = reading.named
          /\ reading' = [parts |-> reading'.parts, named |-> reading'.named,
                         rows |-> reading'.rows, torn |-> reading'.torn]
      BY <1>0, <3>1
    <3>3. AtDataset' = AtDataset
      BY <3>2 DEF AtDataset
    <3>4. NamedInv'
      BY <1>1, <2>2, <3>2, <3>3 DEF NamedInv
    <3> QED BY <1>3, <2>1, <2>4, <2>6, <3>2, <3>4
  <2>7. CASE ~(AtDataset \in Supply /\ Current.county # None)
    <3>1. reading' = Part(reading.named, rows)
      BY <2>1, <2>7
    <3>2. part \in PartOf
      BY <2>2, <2>4 DEF PartOf, NamedInv
    <3>3. Faithful(part, AtDataset, reading.torn, Current)
      BY <2>2, <2>4, <2>5 DEF Faithful, NamedInv
    <3> QED BY <1>1, <3>1, <3>2, <3>3, PartStep
  <2> QED BY <2>6, <2>7
<1>6. CASE ReadCounty
  <2> DEFINE known == {Identity(r) : r \in reading.rows}
             county == {r \in Releases[active[AtDataset]].rows :
                           r.geoid = Current.county /\ Identity(r) \notin known}
             rows == reading.rows \cup county
             part == [release |-> reading.named, rows |-> rows]
  <2>1. reading.rows # None /\ reading' = Part(reading.named, rows)
    BY <1>6 DEF ReadCounty
  <2>2. /\ NamedInv /\ AtDataset \in Supply
        /\ reading.rows \in SUBSET AllRows /\ IsFiniteSet(reading.rows)
    BY <1>0, <2>1
  <2>3. active[AtDataset] \in DOMAIN Releases
    BY <1>2, <2>2 DEF PublicInv, ActiveInv, NamedInv
  <2>4. county \in SUBSET AllRows /\ IsFiniteSet(county)
    <3>1. county \subseteq Releases[active[AtDataset]].rows
      OBVIOUS
    <3> HIDE DEF county
    <3> QED BY <2>3, <3>1, RowsOf
  <2> HIDE DEF county
  <2>5. rows \in SUBSET AllRows /\ IsFiniteSet(rows)
    BY <2>2, <2>4, FS_Union
  <2> HIDE DEF rows
  <2>6. part \in PartOf
    BY <2>2, <2>5 DEF PartOf, NamedInv
  <2>7. Faithful(part, AtDataset, reading.torn, Current)
    BY <2>2, <2>5 DEF Faithful, NamedInv
  <2> QED BY <1>1, <2>1, <2>6, <2>7, PartStep
<1> QED BY <1>4, <1>5, <1>6

\* A full reading is a snapshot that the assessment can be traced to
LEMMA PartsOf ==
  ASSUME ReadingInv, Len(reading.parts) = 5
  PROVE  /\ Numeric(Parts)
         /\ \A d \in DOMAIN Parts :
               Parts[d].release # None /\ Faithful(Parts[d], d, reading.torn, Current)
<1> DEFINE J == {j \in DOMAIN Datasets : reading.parts[j].release # None}
           at(d) == CHOOSE i \in DOMAIN Datasets : Datasets[i] = d
           D == {Datasets[i] : i \in J}
<1>1. Parts = [d \in D |-> reading.parts[at(d)]]
  BY DEF Parts
<1>2. /\ DOMAIN Datasets = 1..5 /\ DOMAIN reading.parts = 1..5
      /\ \A i \in 1..5 : reading.parts[i] \in PartOf
      /\ \A i \in 1..5 : Faithful(reading.parts[i], Datasets[i], reading.torn, Current)
  <2>1. reading.parts \in Seq(PartOf)
    BY DEF ReadingInv
  <2>2. DOMAIN reading.parts = 1..5
    BY <2>1, LenProperties
  <2>3. \A i \in 1..5 : reading.parts[i] \in PartOf
    BY <2>1, ElementOfSeq
  <2> QED BY <2>2, <2>3, KindFacts DEF ReadingInv
<1>3. ASSUME NEW i \in 1..5 PROVE at(Datasets[i]) = i
  <2>1. \A j \in 1..5 : Datasets[j] = Datasets[i] => j = i
    BY KindFacts
  <2> QED BY <1>2, <2>1
<1> HIDE DEF at
<1>4. ASSUME NEW d \in D
      PROVE  /\ Parts[d].release # None /\ Parts[d] \in PartOf
             /\ Faithful(Parts[d], d, reading.torn, Current)
  <2>1. PICK i \in J : d = Datasets[i]
    OBVIOUS
  <2>2. i \in 1..5 /\ reading.parts[i].release # None
    BY <1>2
  <2>3. Parts[d] = reading.parts[i]
    BY <1>1, <1>3, <2>1, <2>2
  <2> QED BY <1>2, <2>1, <2>2, <2>3
<1>5. DOMAIN Parts = D
  BY <1>1
<1> HIDE DEF D
<1>6. ASSUME NEW d \in D PROVE IsFiniteSet(Parts[d].rows) /\ Numbers(Parts[d].rows)
  <2>1. Parts[d].rows \in SUBSET AllRows
    BY <1>4 DEF PartOf
  <2>2. Numbers(Parts[d].rows)
    BY <2>1, RowsNumbers
  <2> QED BY <1>4, <2>2 DEF Faithful
<1>7. Numeric(Parts)
  BY <1>5, <1>6 DEF Numeric
<1> QED BY <1>4, <1>5, <1>7

LEMMA AssessStep ==
  ASSUME setup \in Setups, PublicInv, AssessMarket
  PROVE  PublicInv'
<1> DEFINE stale == \E d \in DOMAIN Parts : Releases[Parts[d].release].old
           a == Assessment(setup.service, Current, Parts, stale)
           versions == {Parts[d].release : d \in DOMAIN Parts}
           more == [torn |-> reading.torn, versions |-> versions]
           b == Merged(a, more)
<1>1. /\ Reading /\ ~Unread /\ assessed' = Append(assessed, b) /\ reading' = NoReading
      /\ UNCHANGED <<setup, active>>
  BY DEF AssessMarket
<1>2. ReadingInv /\ Listed(assessed)
      /\ \A i \in DOMAIN assessed : Keyed(assessed[i]) /\ Traced(assessed[i])
  BY DEF PublicInv, AssessedInv
<1>3. Len(reading.parts) = 5
  <2> DEFINE n == Len(reading.parts)
  <2>1. n \in Nat /\ n <= 5
    BY <1>2, LenProperties, KindFacts DEF ReadingInv
  <2>2. ~(n < 5)
    BY <1>1, KindFacts DEF Unread
  <2> HIDE DEF n
  <2>3. n = 5
    BY <2>1, <2>2
  <2> QED BY <2>3 DEF n
<1>4. /\ Numeric(Parts)
      /\ \A d \in DOMAIN Parts :
            Parts[d].release # None /\ Faithful(Parts[d], d, reading.torn, Current)
  BY <1>2, <1>3, PartsOf
<1>5. Current \in MarketRecord
  <2>1. setup.markets \in Seq(MarketRecord)
    BY SetupConstants
  <2>2. Len(assessed) \in Nat
    BY <1>2, LenProperties DEF Listed
  <2>3. Len(setup.markets) \in Nat /\ Len(assessed) < Len(setup.markets)
    BY <1>1, <2>1, LenProperties DEF Reading
  <2>4. Len(assessed) + 1 \in 1..Len(setup.markets)
    BY <2>2, <2>3
  <2> QED BY <2>1, <2>4, ElementOfSeq DEF Current
<1>6. stale \in BOOLEAN
  OBVIOUS
<1> DEFINE parts == Parts
           market == Current
<1>7. /\ Keyed(a) /\ a.market = market
      /\ \A s \in DOMAIN a.evidence \cap Measures : a.evidence[s] = Measured(market, parts, s)
      /\ a.confidence \in {"medium", "high"} => ~stale
      /\ DOMAIN a = {"market", "score", "coverage", "points", "evidence", "confidence",
                     "recommendation"}
  <2> HIDE DEF stale
  <2> QED BY <1>4, <1>5, <1>6, AssessmentOf
<1>8. /\ b.market = a.market /\ b.score = a.score /\ b.coverage = a.coverage
      /\ b.evidence = a.evidence /\ b.confidence = a.confidence
      /\ b.torn = reading.torn /\ b.versions = versions
  <2>1. /\ DOMAIN more = {"torn", "versions"} /\ more.torn = reading.torn
        /\ more.versions = versions
    OBVIOUS
  <2> HIDE DEF a, more
  <2>2. DOMAIN b = DOMAIN a \cup DOMAIN more
        /\ \A x \in DOMAIN b : b[x] = IF x \in DOMAIN a THEN a[x] ELSE more[x]
    BY DEF Merged
  <2> HIDE DEF b
  <2> QED BY <1>7, <2>1, <2>2
<1>9. Keyed(b)
  BY <1>7, <1>8 DEF Keyed
<1> HIDE DEF a, b
<1>10. Traced(b)
  <2>1. ASSUME NEW s \in DOMAIN b.evidence \cap Measures
        PROVE  LET e == b.evidence[s] IN
               \/ e.source = "embedded" /\ e.value = (IF s \in Embedded THEN b.market[s] ELSE None)
               \/ e.source \in b.versions /\ Releases[e.source].dataset \in b.torn
               \/ /\ e.source \in b.versions
                  /\ \E r \in Releases[e.source].rows :
                        r.geo = b.market.id /\ s \in DOMAIN r.values /\ r.values[s] = e.value
    <3> DEFINE e == b.evidence[s]
    <3>1. e = Measured(market, parts, s)
      BY <1>7, <1>8
    <3>2. \/ e.source = "embedded" /\ e.value = (IF s \in Embedded THEN market[s] ELSE None)
          \/ \E d \in DOMAIN parts \ Supply : \E r \in parts[d].rows :
                /\ s \in DOMAIN r.values
                /\ e.value = r.values[s] /\ e.source = parts[d].release
      <4> HIDE DEF e, parts, market
      <4> QED BY <3>1, MeasuredOf
    <3> HIDE DEF e
    <3>3. CASE e.source = "embedded" /\ e.value = (IF s \in Embedded THEN market[s] ELSE None)
      BY <1>7, <1>8, <3>3 DEF e
    <3>4. ASSUME NEW d \in DOMAIN parts \ Supply, NEW r \in parts[d].rows,
                 s \in DOMAIN r.values, e.value = r.values[s], e.source = parts[d].release
          PROVE  /\ e.source \in b.versions
                 /\ \/ Releases[e.source].dataset \in b.torn
                    \/ \E q \in Releases[e.source].rows :
                         q.geo = b.market.id /\ s \in DOMAIN q.values /\ q.values[s] = e.value
      <4>1. e.source \in b.versions
        BY <1>8, <3>4
      <4>2. /\ e.source # None /\ Faithful(parts[d], d, reading.torn, market)
        BY <1>4, <3>4
      <4>3. /\ Releases[e.source].dataset = d
            /\ d \in reading.torn \/ (r \in Releases[e.source].rows /\ r.geo = market.id)
        <5> HIDE DEF parts, market
        <5> QED BY <3>4, <4>2 DEF Faithful
      <4> HIDE DEF parts, market
      <4> QED BY <1>7, <1>8, <3>4, <4>1, <4>3
    <3> HIDE DEF parts, market
    <3> QED BY <3>2, <3>3, <3>4 DEF e
  <2>2. b.confidence \in {"medium", "high"} => \A v \in b.versions : ~Releases[v].old
    <3>1. b.confidence \in {"medium", "high"} => ~stale
      BY <1>7, <1>8
    <3>2. ~stale => \A v \in versions : ~Releases[v].old
      OBVIOUS
    <3> HIDE DEF stale, versions
    <3> QED BY <1>8, <3>1, <3>2
  <2> QED BY <2>1, <2>2 DEF Traced
<1>11. AssessedInv'
  <2> DEFINE S == {assessed[i] : i \in DOMAIN assessed} \cup {b}
             n == Len(assessed)
  <2>1. assessed \in Seq(S) /\ b \in S
    <3>1. {assessed[i] : i \in DOMAIN assessed} \subseteq S
      OBVIOUS
    <3>2. assessed \in Seq({assessed[i] : i \in DOMAIN assessed})
      BY <1>2 DEF Listed
    <3>3. n \in Nat /\ DOMAIN assessed = 1..n /\ assessed = [i \in 1..n |-> assessed[i]]
      BY <3>2, LenProperties
    <3>4. \A i \in 1..n : assessed[i] \in S
      BY <3>3
    <3> HIDE DEF S
    <3>5. assessed \in Seq(S)
      BY <3>3, <3>4, IsASeq
    <3> QED BY <3>5 DEF S
  <2> HIDE DEF S
  <2>2. /\ Append(assessed, b) \in Seq(S) /\ Len(Append(assessed, b)) = n + 1
        /\ \A i \in 1..n : Append(assessed, b)[i] = assessed[i]
        /\ Append(assessed, b)[n + 1] = b
    BY <2>1, AppendProperties
  <2>3. n \in Nat /\ DOMAIN assessed = 1..n /\ DOMAIN assessed' = 1..(n + 1)
    BY <1>1, <2>1, <2>2, LenProperties
  <2>4. \A i \in DOMAIN assessed' : Keyed(assessed'[i]) /\ Traced(assessed'[i])
    <3>1. \A i \in 1..(n + 1) : i \in 1..n \/ i = n + 1
      BY <2>3
    <3>2. \A i \in 1..n : Keyed(assessed'[i]) /\ Traced(assessed'[i])
      BY <1>1, <1>2, <2>2, <2>3
    <3>3. Keyed(assessed'[n + 1]) /\ Traced(assessed'[n + 1])
      BY <1>1, <1>9, <1>10, <2>2
    <3> QED BY <2>3, <3>1, <3>2, <3>3
  <2>5. Listed(assessed')
    <3>1. assessed' \in Seq(S)
      BY <1>1, <2>2
    <3>2. assessed' = [i \in DOMAIN assessed' |-> assessed'[i]]
      BY <3>1, LenProperties
    <3>3. n + 1 \in Nat
      BY <2>3
    <3> QED BY <2>3, <3>2, <3>3, ListOf
  <2> QED BY <2>4, <2>5 DEF AssessedInv
<1>12. ReadingInv'
  <2>1. /\ reading'.parts = <<>> /\ reading'.named = None /\ reading'.rows = None
        /\ reading' = [parts |-> reading'.parts, named |-> reading'.named,
                       rows |-> reading'.rows, torn |-> reading'.torn]
    BY <1>1 DEF NoReading
  <2>2. <<>> \in Seq(PartOf) /\ Len(<<>>) = 0 /\ DOMAIN <<>> = {}
    BY EmptySeq
  <2> QED BY <2>1, <2>2, KindFacts DEF ReadingInv
<1>13. ActiveInv'
  BY <1>1 DEF PublicInv, ActiveInv
<1> QED BY <1>1, <1>11, <1>12, <1>13 DEF PublicInv

LEMMA PublicStep == EvidenceInv /\ PublicInv /\ [Next]_vars => PublicInv'
<1> SUFFICES ASSUME EvidenceInv, PublicInv, [Next]_vars PROVE PublicInv'
  OBVIOUS
<1>0. setup \in Setups
  BY DEF EvidenceInv
<1>1. ASSUME UNCHANGED <<setup, active, reading, assessed>>
      PROVE  PublicInv'
  <2>1. AtDataset' = AtDataset /\ Current' = Current
    BY <1>1 DEF AtDataset, Current
  <2>2. NamedInv' = NamedInv
    BY <1>1, <2>1 DEF NamedInv
  <2>3. ReadingInv'
    BY <1>1, <2>1, <2>2 DEF PublicInv, ReadingInv
  <2>4. ActiveInv' /\ AssessedInv'
    BY <1>1 DEF PublicInv, ActiveInv, AssessedInv
  <2> QED BY <1>1, <2>3, <2>4 DEF PublicInv
<1>2. CASE ListMarkets
  <2> DEFINE short == Shortlist(assessed, setup.limit)
             X == {assessed[i] : i \in DOMAIN assessed}
  <2>1. /\ stage = "prefiltering" /\ ~Reading /\ assessed' = short
        /\ UNCHANGED <<setup, active, reading>>
    BY <1>2 DEF ListMarkets
  <2>2. reading = NoReading
    BY <2>1 DEF Reading, PublicInv
  <2>3. /\ assessed \in Seq(X)
        /\ \A i \in DOMAIN assessed : Keyed(assessed[i]) /\ Traced(assessed[i])
    BY DEF PublicInv, AssessedInv, Listed
  <2>4. setup.limit \in Int
    BY <1>0, SetupConstants
  <2> HIDE DEF X
  <2>5. /\ short \in Seq(X)
        /\ \A n \in DOMAIN short : \E i \in DOMAIN assessed : short[n] = assessed[i]
    <3>1. assessed \in Seq(X)
      BY <2>3
    <3>2. \A i \in DOMAIN assessed : Keyed(assessed[i])
      BY <2>3
    <3> QED BY ONLY <2>4, <3>1, <3>2, ShortlistPicks
  <2> HIDE DEF short
  <2>6. \A n \in DOMAIN short : Keyed(short[n]) /\ Traced(short[n])
    BY <2>3, <2>5
  <2>7. Listed(short)
    <3>1. /\ Len(short) \in Nat /\ DOMAIN short = 1..Len(short)
          /\ short = [i \in DOMAIN short |-> short[i]]
      BY <2>5, LenProperties
    <3> QED BY <3>1, ListOf
  <2>8. AssessedInv'
    BY <2>1, <2>6, <2>7 DEF AssessedInv
  <2>9. ReadingInv'
    <3>1. /\ reading'.parts = <<>> /\ reading'.named = None /\ reading'.rows = None
          /\ reading' = [parts |-> reading'.parts, named |-> reading'.named,
                         rows |-> reading'.rows, torn |-> reading'.torn]
      BY <2>1, <2>2 DEF NoReading
    <3>2. <<>> \in Seq(PartOf) /\ Len(<<>>) = 0 /\ DOMAIN <<>> = {}
      BY EmptySeq
    <3> QED BY <3>1, <3>2, KindFacts DEF ReadingInv
  <2>10. ActiveInv'
    BY <2>1 DEF PublicInv, ActiveInv
  <2> QED BY <2>1, <2>2, <2>8, <2>9, <2>10 DEF PublicInv
<1>3. ASSUME NEW r \in DOMAIN Releases, Activate(r) PROVE PublicInv'
  BY <1>3, ActivateStep
<1>4. CASE ReadManifest \/ ReadRecords \/ ReadCounty
  BY <1>4, ReadStep
<1>5. CASE AssessMarket
  BY <1>0, <1>5, AssessStep
<1>6. CASE PlanScan \/ ScoreScan \/ Publish \/ Fail
  BY <1>1, <1>6 DEF PlanScan, ScoreScan, Publish, Fail, public
<1>7. ASSUME NEW list \in CandidateLists, DiscoverKeywords(list) PROVE PublicInv'
  BY <1>1, <1>7 DEF DiscoverKeywords, public
<1>8. ASSUME NEW answer \in MetricAnswers, FetchMetrics(answer) PROVE PublicInv'
  BY <1>1, <1>8 DEF FetchMetrics, public
<1>9. ASSUME NEW answer \in SerpAnswers, FetchSerp(answer) PROVE PublicInv'
  BY <1>1, <1>9 DEF FetchSerp, public
<1>10. ASSUME NEW answer \in CompetitorAnswers, FetchCompetitors(answer) PROVE PublicInv'
  BY <1>1, <1>10 DEF FetchCompetitors, public
<1>11. ASSUME NEW list \in ProviderLists, FetchProviders(list) PROVE PublicInv'
  BY <1>1, <1>11 DEF FetchProviders, public
<1>12. CASE UNCHANGED vars
  BY <1>1, <1>12 DEF vars, public
<1> QED
  BY <1>2, <1>3, <1>4, <1>5, <1>6, <1>7, <1>8, <1>9, <1>10, <1>11, <1>12 DEF Next

\* Every measure of an assessment is that of the release, or of the embedded record,
\* it names, although a release may be activated between any two reads (snapshot and
\* active_records, store.py:227; assess_record, market_prefilter.py:362), and a
\* confident assessment names no release past its age: EvidenceTraceable, for every
\* catalog of releases, market and order of the activations.
THEOREM EvidenceIsTraceable == Spec => []EvidenceTraceable
<1>1. Init => EvidenceInv /\ PublicInv
  BY EvidenceInit, PublicInit
<1>2. EvidenceInv /\ PublicInv /\ [Next]_vars => (EvidenceInv /\ PublicInv)'
  BY EvidenceStep, PublicStep
<1>3. PublicInv => EvidenceTraceable
  BY DEF PublicInv, AssessedInv, Traced, EvidenceTraceable
<1> QED BY <1>1, <1>2, <1>3, PTL DEF Spec

---------------------------------------------------------------------------
(* The classes of results and the archetypes of competitors                  *)

\* The rules that match a result, and what listings add: at most the local rule,
\* which is the last
Hits(r, listings) ==
    {i \in DOMAIN Rules :
        IF Rules[i].class = "local_provider" THEN LocalMatches(r, listings)
                                             ELSE RuleMatches(Rules[i], r)}

LEMMA HitsOf ==
  ASSUME NEW r, NEW listings
  PROVE  /\ Hits(r, listings) \in SUBSET (1..7)
         /\ Hits(r, listings) # {} => /\ Min(Hits(r, listings)) \in Hits(r, listings)
                                      /\ \A i \in Hits(r, listings) : Min(Hits(r, listings)) <= i
<1>1. DOMAIN Rules = 1..7
  BY DEF Rules
<1> DEFINE hits == Hits(r, listings)
<1>2. hits \in SUBSET (1..7)
  BY <1>1 DEF Hits
<1> HIDE DEF hits
<1>3. IsFiniteSet(1..7)
  <2>1. 1 \in Int /\ 7 \in Int
    OBVIOUS
  <2> QED BY ONLY <2>1, FS_Interval
<1>4. IsFiniteSet(hits)
  BY ONLY <1>2, <1>3, FS_Subset
<1>5. hits \in SUBSET Int
  BY <1>2
<1>6. hits # {} => Min(hits) \in hits /\ \A i \in hits : Min(hits) <= i
  BY ONLY <1>4, <1>5, MinOf
<1> QED BY <1>2, <1>6 DEF hits

\* Classifying again with the providers changes an unknown result to a local
\* provider or nothing
LEMMA ClassGrows ==
  ASSUME NEW r, NEW listings
  PROVE  \/ ClassOf(r, listings) = ClassOf(r, <<>>)
         \/ ClassOf(r, <<>>) = "unknown" /\ ClassOf(r, listings) = "local_provider"
<1> DEFINE old == Hits(r, <<>>)
           new == Hits(r, listings)
<1>1. /\ ClassOf(r, <<>>) = IF old = {} THEN "unknown" ELSE Rules[Min(old)].class
      /\ ClassOf(r, listings) = IF new = {} THEN "unknown" ELSE Rules[Min(new)].class
  BY DEF ClassOf, Hits
<1>2. Rules[7].class = "local_provider" /\ \A i \in 1..6 : Rules[i].class # "local_provider"
  BY DEF Rules
<1>3. DOMAIN Rules = 1..7
  BY DEF Rules
<1>4. LocalMatches(r, <<>>) => LocalMatches(r, listings)
  BY DEF LocalMatches
<1>5. /\ \A i \in 1..6 : i \in old <=> i \in new
      /\ 7 \in old => 7 \in new
  <2>1. ASSUME NEW i \in 1..6 PROVE i \in old <=> i \in new
    <3>1. i \in DOMAIN Rules /\ Rules[i].class # "local_provider"
      BY <1>2, <1>3
    <3> QED BY <3>1 DEF Hits
  <2>2. ASSUME 7 \in old PROVE 7 \in new
    BY <1>2, <1>4, <2>2 DEF Hits
  <2> QED BY <2>1, <2>2
<1>6. /\ old \in SUBSET (1..7) /\ new \in SUBSET (1..7)
      /\ old # {} => Min(old) \in old /\ \A i \in old : Min(old) <= i
      /\ new # {} => Min(new) \in new /\ \A i \in new : Min(new) <= i
  BY HitsOf
<1> HIDE DEF old, new
<1>7. CASE old = {}
  <2>1. CASE new = {}
    BY <1>1, <1>7, <2>1
  <2>2. CASE new # {}
    <3>1. Min(new) = 7
      <4>1. Min(new) \in 1..7 /\ Min(new) \in new
        BY <1>6, <2>2
      <4>2. Min(new) \notin 1..6
        BY <1>5, <1>7, <4>1
      <4> QED BY <4>1, <4>2
    <3> QED BY <1>1, <1>2, <1>7, <2>2, <3>1
  <2> QED BY <2>1, <2>2
<1>8. CASE old # {}
  <2>1. new # {} /\ Min(new) = Min(old)
    <3>1. Min(old) \in new
      <4>1. Min(old) \in 1..7 /\ Min(old) \in old
        BY <1>6, <1>8
      <4>2. Min(old) \in 1..6 \/ Min(old) = 7
        BY <4>1
      <4> QED BY <1>5, <4>1, <4>2
    <3>2. Min(new) \in 1..7 /\ Min(old) \in 1..7 /\ Min(new) <= Min(old)
      BY <1>6, <1>8, <3>1
    <3>3. Min(new) \in old
      <4>1. CASE Min(new) = 7
        <5>1. Min(old) = 7
          BY <3>2, <4>1
        <5> QED BY <1>6, <1>8, <4>1, <5>1
      <4>2. CASE Min(new) \in 1..6
        BY <1>5, <1>6, <3>1, <4>2
      <4> QED BY <3>2, <4>1, <4>2
    <3>4. Min(old) <= Min(new)
      BY <1>6, <1>8, <3>3
    <3> QED BY <3>1, <3>2, <3>4
  <2> QED BY <1>1, <1>8, <2>1
<1> QED BY <1>7, <1>8

\* A directory that the rules know is never unknown
LEMMA DirectoryKnown ==
  ASSUME NEW r, NEW i \in DOMAIN Rules, Rules[i].class = "directory", r.domain \in Rules[i].domains
  PROVE  ClassOf(r, <<>>) # "unknown"
<1> DEFINE hits == Hits(r, <<>>)
<1>1. ClassOf(r, <<>>) = IF hits = {} THEN "unknown" ELSE Rules[Min(hits)].class
  BY DEF ClassOf, Hits
<1>2. i \in hits
  BY DEF Hits, RuleMatches
<1>3. \A j \in 1..7 : Rules[j].class # "unknown"
  BY DEF Rules
<1>4. Min(hits) \in 1..7
  BY <1>2, HitsOf
<1> HIDE DEF hits
<1> QED BY <1>1, <1>2, <1>3, <1>4

\* An observation of a result leads back to it: the queries differ, and so do the
\* places on one page
Indexed(snapshots) ==
    /\ \A i, j \in DOMAIN snapshots : snapshots[i].query = snapshots[j].query => i = j
    /\ \A i \in DOMAIN snapshots : OnePlace(snapshots[i].results)

LEMMA ResultAtIs ==
  ASSUME NEW snapshots, Indexed(snapshots), NEW i \in DOMAIN snapshots,
         NEW r \in Organic(snapshots[i]), NEW o,
         o.query = snapshots[i].query, o.position = r.order, o.url = r.url
  PROVE  ResultAt(o, snapshots) = r
<1> DEFINE S == UNION {Organic(snapshots[k]) : k \in {j \in DOMAIN snapshots :
                                                      snapshots[j].query = o.query}}
<1>1. S = Organic(snapshots[i])
  BY DEF Indexed
<1>2. \A q \in S : q.order = o.position => q = r
  BY <1>1 DEF Indexed, OnePlace, Organic
<1>3. r \in S /\ r.order = o.position /\ r.url = o.url
  BY <1>1
<1>4. ResultAt(o, snapshots) = CHOOSE q \in S : q.order = o.position /\ q.url = o.url
  BY DEF ResultAt
<1> HIDE DEF S
<1> QED BY <1>2, <1>3, <1>4

LEMMA SerpsIndexed ==
  ASSUME EvidenceInv
  PROVE  Indexed(serps)
<1>1. metrics \in Seq(Metric) /\ serps \in Seq(Snapshots) /\ OneEach(metrics)
  BY DEF EvidenceInv
<1>2. /\ DOMAIN selected \subseteq DOMAIN metrics
      /\ \A i \in DOMAIN selected : selected[i] = metrics[i].keyword
      /\ selected \in Seq(DOMAIN Words)
  BY <1>1, SerpLimitNat, KeywordsOf DEF EvidenceInv
<1>3. DOMAIN serps \subseteq DOMAIN selected
  BY <1>1, <1>2, LenProperties DEF EvidenceInv
<1>4. \A i \in DOMAIN serps : serps[i].query = metrics[i].keyword /\ i \in DOMAIN metrics
  BY <1>2, <1>3 DEF EvidenceInv
<1>5. \A i \in DOMAIN serps : serps[i] \in Snapshots
  BY <1>1, LenProperties, ElementOfSeq
<1> QED BY <1>1, <1>4, <1>5 DEF Indexed, OneEach, Snapshots

\* The fields of a result, and that its class says nothing of its rules
LEMMA ResultRecord ==
  ASSUME NEW r, IsResult(r)
  PROVE  /\ DOMAIN r = {"order", "url", "domain", "words", "site", "type", "class"}
         /\ \E a \in SerpAnswers : \E q \in a.items :
               q.url # None /\ q.type = r.type /\ q.domain = r.domain
<1>1. PICK q \in Items : r = [q EXCEPT !.class = r.class]
  BY DEF IsResult
<1>2. q \in Item /\ q.url # None
  BY SerpConstants DEF Items
<1>3. DOMAIN q = {"order", "url", "domain", "words", "site", "type", "class"}
  BY <1>2 DEF Item
<1> DEFINE c == r.class
<1>4. r = [q EXCEPT !.class = c]
  BY <1>1
<1> HIDE DEF c
<1>5. DOMAIN r = DOMAIN q /\ r.domain = q.domain /\ r.type = q.type
  BY <1>3, <1>4
<1>6. PICK a \in SerpAnswers : q \in a.items
  BY DEF Items
<1> QED BY <1>2, <1>3, <1>5, <1>6

LEMMA ClassBlind ==
  ASSUME NEW r, NEW c, NEW listings,
         DOMAIN r = {"order", "url", "domain", "words", "site", "type", "class"}
  PROVE  ClassOf([r EXCEPT !.class = c], listings) = ClassOf(r, listings)
<1> DEFINE s == [r EXCEPT !.class = c]
<1>1. s.domain = r.domain /\ s.words = r.words /\ s.site = r.site
  OBVIOUS
<1> HIDE DEF s
<1>2. \A i \in DOMAIN Rules : RuleMatches(Rules[i], s) = RuleMatches(Rules[i], r)
  BY <1>1 DEF RuleMatches
<1>3. LocalMatches(s, listings) = LocalMatches(r, listings)
  BY <1>1 DEF LocalMatches, ListingMatches
<1>4. Hits(s, listings) = Hits(r, listings)
  BY <1>2, <1>3 DEF Hits
<1>5. ClassOf(s, listings) = ClassOf(r, listings)
  BY <1>4 DEF ClassOf, Hits
<1> QED BY <1>5 DEF s

\* What the points of a competitor depend on: everything but the archetype's name
CompetitorFields ==
    {"domain", "refs", "reported", "relevance", "local", "archetype", "observations"}
SamePoints(c, d) ==
    /\ DOMAIN c = CompetitorFields /\ DOMAIN d = CompetitorFields
    /\ c.domain = d.domain /\ c.observations = d.observations
    /\ c.refs = d.refs /\ c.relevance = d.relevance /\ c.local = d.local
    /\ ArchetypeAdjustment(c.archetype) = ArchetypeAdjustment(d.archetype)
Matching(cs, ds) ==
    DOMAIN cs = DOMAIN ds /\ \A i \in DOMAIN cs : SamePoints(cs[i], ds[i])

LEMMA UniqueMatching ==
  ASSUME NEW cs, NEW ds, Matching(cs, ds)
  PROVE  Matching(UniqueDomains(cs), UniqueDomains(ds))
<1> DEFINE same(i) == {j \in DOMAIN cs : cs[j].domain = cs[i].domain}
           also(i) == {j \in DOMAIN ds : ds[j].domain = ds[i].domain}
           chosen == {i \in DOMAIN cs : \A j \in same(i) \ {i} :
                         \/ BetterPlaced(cs[i], cs[j])
                         \/ i < j /\ ~BetterPlaced(cs[j], cs[i])}
           taken == {i \in DOMAIN ds : \A j \in also(i) \ {i} :
                         \/ BetterPlaced(ds[i], ds[j])
                         \/ i < j /\ ~BetterPlaced(ds[j], ds[i])}
           all(i) == UNION {cs[j].observations : j \in same(i)}
           every(i) == UNION {ds[j].observations : j \in also(i)}
<1>1. /\ DOMAIN cs = DOMAIN ds
      /\ \A i \in DOMAIN cs : /\ SamePoints(cs[i], ds[i])
                              /\ cs[i].domain = ds[i].domain
                              /\ cs[i].observations = ds[i].observations
  BY DEF Matching, SamePoints
<1>2. \A i, j \in DOMAIN cs : BetterPlaced(cs[i], cs[j]) = BetterPlaced(ds[i], ds[j])
  BY <1>1 DEF BetterPlaced, BestPosition
<1>3. \A i \in DOMAIN cs : same(i) = also(i)
  BY <1>1
<1>4. chosen = taken
  BY <1>1, <1>2, <1>3
<1>5. \A i \in DOMAIN cs : all(i) = every(i)
  BY <1>1, <1>3
<1>6. /\ UniqueDomains(cs) = [i \in chosen |-> [cs[i] EXCEPT !.observations = all(i)]]
      /\ UniqueDomains(ds) = [i \in taken |-> [ds[i] EXCEPT !.observations = every(i)]]
  BY DEF UniqueDomains
<1>7. chosen \subseteq DOMAIN cs
  OBVIOUS
<1> HIDE DEF same, also, chosen, taken, all, every
<1>8. ASSUME NEW i \in DOMAIN cs
      PROVE  SamePoints([cs[i] EXCEPT !.observations = all(i)],
                        [ds[i] EXCEPT !.observations = every(i)])
  <2> DEFINE c == cs[i]
             d == ds[i]
             x == all(i)
  <2>1. SamePoints(c, d) /\ every(i) = x
    BY <1>1, <1>5
  <2> HIDE DEF c, d, x
  <2>2. SamePoints([c EXCEPT !.observations = x], [d EXCEPT !.observations = x])
    BY <2>1 DEF SamePoints, CompetitorFields
  <2> QED BY <2>1, <2>2 DEF c, d, x
<1> DEFINE U == UniqueDomains(cs)
           V == UniqueDomains(ds)
<1>9. /\ DOMAIN U = chosen /\ DOMAIN V = chosen
      /\ \A i \in chosen : /\ U[i] = [cs[i] EXCEPT !.observations = all(i)]
                            /\ V[i] = [ds[i] EXCEPT !.observations = every(i)]
  BY <1>4, <1>6
<1> HIDE DEF U, V
<1>10. \A i \in chosen : SamePoints(U[i], V[i])
  <2>1. ASSUME NEW i \in chosen PROVE SamePoints(U[i], V[i])
    <3>1. i \in DOMAIN cs
      BY <1>7
    <3>2. SamePoints([cs[i] EXCEPT !.observations = all(i)],
                     [ds[i] EXCEPT !.observations = every(i)])
      BY <1>8, <3>1
    <3>3. /\ U[i] = [cs[i] EXCEPT !.observations = all(i)]
          /\ V[i] = [ds[i] EXCEPT !.observations = every(i)]
      BY <1>9
    <3> QED BY ONLY <3>2, <3>3
  <2> QED BY <2>1
<1>11. Matching(U, V)
  BY <1>9, <1>10 DEF Matching
<1> QED BY <1>11 DEF U, V

\* Competitors with the same points make the same component
LEMMA SameWeakness ==
  ASSUME NEW cs, NEW ds, Matching(cs, ds), NEW ms, (cs = <<>>) <=> (ds = <<>>)
  PROVE  CompetitorWeakness(cs, ms) = CompetitorWeakness(ds, ms)
<1> DEFINE U == UniqueDomains(cs)
           V == UniqueDomains(ds)
<1>1. Matching(U, V)
  BY UniqueMatching
<1>2. /\ CompetitorWeakness(cs, ms) =
           IF cs = <<>> THEN 0
           ELSE Bounded(ExposureMean(U, ms, LAMBDA c : Clamp(RawWeakness(c), Unit)),
                        Weights.competitor_weakness)
      /\ CompetitorWeakness(ds, ms) =
           IF ds = <<>> THEN 0
           ELSE Bounded(ExposureMean(V, ms, LAMBDA c : Clamp(RawWeakness(c), Unit)),
                        Weights.competitor_weakness)
  BY DEF CompetitorWeakness
<1> HIDE DEF U, V
<1>3. DOMAIN U = DOMAIN V /\ \A i \in DOMAIN U : SamePoints(U[i], V[i])
  BY <1>1 DEF Matching
<1>4. Queries(U) = Queries(V)
  BY <1>3 DEF Queries, SamePoints
<1> DEFINE queries == Queries(U)
<1>5. \A i \in DOMAIN U : RawWeakness(U[i]) = RawWeakness(V[i])
  BY <1>3 DEF SamePoints, RawWeakness, RelevanceDeduction
<1>6. \A i \in DOMAIN U : Exposure(U[i], queries, ms) = Exposure(V[i], queries, ms)
  BY <1>3 DEF SamePoints, Exposure
<1> DEFINE raw(i) == Clamp(RawWeakness(U[i]), Unit) * Exposure(U[i], queries, ms)
           war(i) == Clamp(RawWeakness(V[i]), Unit) * Exposure(V[i], queries, ms)
<1>7. /\ [i \in DOMAIN U |-> raw(i)] = [i \in DOMAIN V |-> war(i)]
      /\ [i \in DOMAIN U |-> Exposure(U[i], queries, ms)] =
           [i \in DOMAIN V |-> Exposure(V[i], queries, ms)]
  BY <1>3, <1>5, <1>6
<1>8. /\ ExposureMean(U, ms, LAMBDA c : Clamp(RawWeakness(c), Unit)) =
           Weights.competitor_weakness
             * Round(SumFunctionOnSet([i \in DOMAIN U |-> raw(i)], DOMAIN U),
                     SumFunctionOnSet([i \in DOMAIN U |-> Exposure(U[i], queries, ms)], DOMAIN U))
      /\ ExposureMean(V, ms, LAMBDA c : Clamp(RawWeakness(c), Unit)) =
           Weights.competitor_weakness
             * Round(SumFunctionOnSet([i \in DOMAIN V |-> war(i)], DOMAIN V),
                     SumFunctionOnSet([i \in DOMAIN V |-> Exposure(V[i], queries, ms)], DOMAIN V))
  BY <1>4 DEF ExposureMean, SumOver
<1> QED BY <1>2, <1>3, <1>7, <1>8

\* A page type that the provider may state of a domain
Truthful(page, d) ==
    \/ page \in {"unknown", "local_provider"}
    \/ page = "directory" /\ \E i \in DOMAIN Rules : /\ Rules[i].class = "directory"
                                                     /\ d \in Rules[i].domains

\* A competitor has the archetype of the result it was enriched with ...
Told(c, snapshots) ==
    LET o == First(c.observations)
    IN  /\ DOMAIN c = CompetitorFields
        /\ o \in Observations(snapshots)
        /\ Truthful(c.reported, o.domain)
        /\ c.archetype = Archetype(PageType(ResultAt(o, snapshots).class, c.reported))
\* ... and, once the SERPs are classified again, one of the same points
Rated(c) ==
    /\ DOMAIN c = CompetitorFields
    /\ ArchetypeAdjustment(Fresh(c).archetype) = ArchetypeAdjustment(c.archetype)
FirstClasses(snapshots) ==
    \A i \in DOMAIN snapshots : \A r \in snapshots[i].results : r.class = ClassOf(r, <<>>)

ToldInv ==
    /\ stage \in {"fetching_serps", "fetching_providers"} => FirstClasses(serps)
    /\ stage = "fetching_providers" =>
         \A i \in DOMAIN competitors : Told(competitors[i], serps)
    /\ stage = "scoring" => \A i \in DOMAIN competitors : Rated(competitors[i])

\* What Enriched says of a domain it was given
LEMMA ReportedTruthful ==
  ASSUME NEW su, NEW answer \in CompetitorAnswers, NEW d \in DOMAIN answer,
         Reported(su, answer)[d] # None
  PROVE  Truthful(Reported(su, answer)[d].page, d)
<1>1. Reported(su, answer)[d] =
        IF answer[d] = None \/ su.mode = "fixture" THEN answer[d]
        ELSE [answer[d] EXCEPT !.relevance = None, !.local = None, !.page = "unknown"]
  BY DEF Reported
<1>2. CASE su.mode = "fixture"
  <2>1. Reported(su, answer)[d] = answer[d] /\ answer[d] # None
    BY <1>1, <1>2
  <2>2. /\ answer[d] \in CompetitorAnswer
        /\ answer[d].page = "directory" =>
             \E i \in DOMAIN Rules : Rules[i].class = "directory" /\ d \in Rules[i].domains
    BY <2>1, CompetitorConstants
  <2>3. answer[d].page \in {"unknown", "local_provider", "directory"}
    BY <2>2 DEF CompetitorAnswer
  <2> QED BY <2>1, <2>2, <2>3 DEF Truthful
<1>3. CASE su.mode # "fixture"
  <2> DEFINE a == answer[d]
  <2>1. a # None
    BY <1>1
  <2>2. a \in CompetitorAnswer
    BY <2>1, CompetitorConstants
  <2>3. Reported(su, answer)[d] =
          [a EXCEPT !.relevance = None, !.local = None, !.page = "unknown"]
    BY <1>1, <1>3, <2>1
  <2> HIDE DEF a
  <2>4. [a EXCEPT !.relevance = None, !.local = None, !.page = "unknown"].page = "unknown"
    BY <2>2 DEF CompetitorAnswer
  <2> QED BY <2>3, <2>4 DEF Truthful
<1> QED BY <1>2, <1>3

LEMMA EnrichedTold ==
  ASSUME EvidenceInv, NEW answer \in CompetitorAnswers,
         NEW cs, cs = Enriched(SelectCompetitors(serps, CompetitorLimit),
                               Reported(setup, answer), serps)
  PROVE  \A i \in DOMAIN cs : Told(cs[i], serps)
<1> DEFINE domains == SelectCompetitors(serps, CompetitorLimit)
           said == Reported(setup, answer)
           kept == {i \in DOMAIN domains : said[domains[i]] # None}
           answered == At(domains, kept)
           S == {domains[i] : i \in DOMAIN domains}
           seen(d) == OfDomain(d, serps)
           result(d) == ResultAt(First(seen(d)), serps)
           enrich(d) ==
               [domain |-> d, refs |-> said[d].refs, reported |-> said[d].page,
                relevance |-> Most(OrZero(said[d].relevance),
                                   Overlap(result(d).words, Service.words)),
                local |-> Most(OrZero(said[d].local), Overlap(result(d).words, MarketWords)),
                archetype |-> Archetype(PageType(result(d).class, said[d].page)),
                observations |-> seen(d)]
<1>0. Shown(serps) /\ serps \in Seq(Snapshots)
  BY SerpsShown DEF EvidenceInv
<1>1. PICK k \in 0..CompetitorLimit :
         /\ DOMAIN domains = 1..k
         /\ \A n \in 1..k : \E o \in Observations(serps) : domains[n] = o.domain
  BY <1>0, SerpLimitNat, SelectedDomains
<1>2. domains = [n \in DOMAIN domains |-> domains[n]]
  BY DEF SelectCompetitors
<1>3. cs = [i \in DOMAIN answered |-> enrich(answered[i])]
  BY DEF Enriched
<1> HIDE DEF domains
<1>4. Listed(domains)
  BY <1>1, <1>2, SerpLimitNat, ListOf
<1>5. domains \in Seq(S) /\ kept \subseteq DOMAIN domains
  BY <1>4 DEF Listed
<1>6. \A i \in kept : i \in 1..k /\ said[domains[i]] # None
  BY <1>1
<1> HIDE DEF kept, S
<1>7. \A m \in DOMAIN answered : \E i \in kept : answered[m] = domains[i]
  BY <1>5, AtSeq
<1>8. \A m \in DOMAIN answered : /\ said[answered[m]] # None
                                 /\ \E o \in Observations(serps) : answered[m] = o.domain
  BY <1>1, <1>6, <1>7
<1> HIDE DEF answered, said
<1>9. ASSUME NEW d, said[d] # None, NEW o \in Observations(serps), d = o.domain
      PROVE  Told(enrich(d), serps)
  <2>1. seen(d) \in SUBSET Observations(serps) /\ o \in seen(d)
        /\ \A p \in seen(d) : p.domain = d
    BY <1>9 DEF OfDomain
  <2>2. First(seen(d)) \in seen(d)
    <3> DEFINE T == seen(d)
    <3>1. T \in SUBSET Observations(serps) /\ T # {}
      BY <2>1
    <3> HIDE DEF T, seen
    <3>2. First(T) \in T
      BY <1>0, <3>1, FirstOf
    <3> QED BY <3>2 DEF T
  <2>3. d \in DOMAIN answer
    <3>1. PICK i \in DOMAIN serps : \E r \in Organic(serps[i]) : IsResult(r) /\ o.domain = r.domain
      BY <1>0, ObservationOf
    <3>2. PICK r \in Organic(serps[i]) : IsResult(r) /\ o.domain = r.domain
      BY <3>1
    <3>3. PICK a \in SerpAnswers : \E q \in a.items :
             q.url # None /\ q.type = r.type /\ q.domain = r.domain
      BY <3>2, ResultRecord
    <3>4. r.type = "organic"
      BY DEF Organic
    <3>5. \A q \in a.items : q.url # None /\ q.type = "organic" => q.domain \in DOMAIN answer
      BY CompetitorConstants
    <3> QED BY <1>9, <3>2, <3>3, <3>4, <3>5
  <2>4. Truthful(said[d].page, d)
    BY <1>9, <2>3, ReportedTruthful DEF said
  <2> DEFINE c == enrich(d)
  <2>5. /\ DOMAIN c = CompetitorFields
        /\ c.observations = seen(d) /\ c.reported = said[d].page
        /\ c.archetype = Archetype(PageType(result(d).class, said[d].page))
    BY DEF CompetitorFields
  <2>6. First(seen(d)) \in Observations(serps) /\ First(seen(d)).domain = d
    BY <2>1, <2>2
  <2>7. result(d) = ResultAt(First(seen(d)), serps)
    OBVIOUS
  <2> HIDE DEF c, seen, result
  <2>8. Told(c, serps)
    BY <2>4, <2>5, <2>6, <2>7 DEF Told
  <2> QED BY <2>8 DEF c
<1>10. \A m \in DOMAIN cs : cs[m] = enrich(answered[m]) /\ m \in DOMAIN answered
  BY <1>3
<1> HIDE DEF enrich
<1> QED BY <1>8, <1>9, <1>10

\* Classified again, the SERPs may change an archetype from unknown to local, and
\* no points with it
Anew(c, snapshots) ==
    Archetype(PageType(ResultAt(First(c.observations), snapshots).class, c.reported))

LEMMA AgainRated ==
  ASSUME NEW snapshots \in Seq(Snapshots), Indexed(snapshots), FirstClasses(snapshots),
         NEW listings, NEW again, Indexed(again),
         again = [i \in DOMAIN snapshots |-> Classified(snapshots[i], listings)],
         NEW c, Told(c, snapshots)
  PROVE  ArchetypeAdjustment(Anew(c, again)) = ArchetypeAdjustment(c.archetype)
<1> DEFINE o == First(c.observations)
<1>1. /\ o \in Observations(snapshots) /\ Truthful(c.reported, o.domain)
      /\ c.archetype = Archetype(PageType(ResultAt(o, snapshots).class, c.reported))
  BY DEF Told
<1> HIDE DEF o
<1>2. Shown(snapshots)
  BY SerpsShown
<1>3. PICK i \in DOMAIN snapshots : \E r \in Organic(snapshots[i]) :
         /\ IsResult(r)
         /\ o = [domain |-> r.domain, query |-> snapshots[i].query, position |-> r.order,
                 url |-> r.url]
  BY <1>1, <1>2, ObservationOf
<1>4. PICK r \in Organic(snapshots[i]) :
         /\ IsResult(r)
         /\ o = [domain |-> r.domain, query |-> snapshots[i].query, position |-> r.order,
                 url |-> r.url]
  BY <1>3
<1>5. /\ o.domain = r.domain /\ o.query = snapshots[i].query
      /\ o.position = r.order /\ o.url = r.url
  BY <1>4
<1>6. ResultAt(o, snapshots) = r
  BY <1>5, ResultAtIs
<1> DEFINE k == ClassOf(r, listings)
           s == [r EXCEPT !.class = k]
<1>7. DOMAIN r = {"order", "url", "domain", "words", "site", "type", "class"}
  BY <1>4, ResultRecord
<1>8. /\ s.order = r.order /\ s.url = r.url /\ s.type = r.type /\ s.class = k
  BY <1>7
<1>9. s \in Organic(again[i]) /\ again[i].query = snapshots[i].query /\ i \in DOMAIN again
  <2>1. snapshots[i] \in Snapshots
    BY LenProperties, ElementOfSeq
  <2>2. Classified(snapshots[i], listings).query = snapshots[i].query
    BY <2>1, ClassifiedSnapshot
  <2>3. again[i] = Classified(snapshots[i], listings)
    OBVIOUS
  <2>4. again[i].results = {[q EXCEPT !.class = ClassOf(q, listings)] : q \in snapshots[i].results}
    BY <2>1, <2>3 DEF Classified, Snapshots
  <2>5. r \in snapshots[i].results /\ r.type = "organic"
    BY DEF Organic
  <2>6. s \in again[i].results
    BY <2>4, <2>5
  <2> HIDE DEF s
  <2> QED BY <1>8, <2>2, <2>3, <2>5, <2>6 DEF Organic
<1> HIDE DEF s, k
<1>10. ResultAt(o, again) = s
  BY <1>5, <1>8, <1>9, ResultAtIs
<1>11. r.class = ClassOf(r, <<>>)
  BY DEF FirstClasses, Organic
<1>12. Anew(c, again) = Archetype(PageType(k, c.reported))
  BY <1>8, <1>10 DEF Anew, o
<1>13. CASE k = r.class
  BY <1>1, <1>6, <1>12, <1>13
<1>14. CASE r.class = "unknown" /\ k = "local_provider"
  <2>1. c.reported \in {"unknown", "local_provider"}
    <3>1. \A j \in DOMAIN Rules :
             ~(Rules[j].class = "directory" /\ r.domain \in Rules[j].domains)
      BY <1>11, <1>14, DirectoryKnown
    <3> QED BY <1>1, <1>5, <3>1 DEF Truthful
  <2>2. c.archetype = Archetype(c.reported) /\ Anew(c, again) = Archetype("local_provider")
    BY <1>1, <1>6, <1>12, <1>14 DEF PageType
  <2>3. Archetype(c.reported) \in {"unknown", "local_provider"}
    BY <2>1 DEF Archetype
  <2>4. Archetype("local_provider") = "local_provider"
    BY DEF Archetype
  <2>5. ArchetypeAdjustment("unknown") = 0 /\ ArchetypeAdjustment("local_provider") = 0
    BY DEF ArchetypeAdjustment
  <2> QED BY <2>2, <2>3, <2>4, <2>5
<1>15. k = r.class \/ (r.class = "unknown" /\ k = "local_provider")
  BY <1>11, ClassGrows DEF k
<1> QED BY <1>13, <1>14, <1>15

LEMMA ToldInit == Init => ToldInv
BY DEF Init, ToldInv

LEMMA ToldStep == EvidenceInv /\ ToldInv /\ [Next]_vars => ToldInv'
<1> SUFFICES ASSUME EvidenceInv, ToldInv, [Next]_vars PROVE ToldInv'
  OBVIOUS
<1>1. ASSUME UNCHANGED <<stage, serps, competitors>> PROVE ToldInv'
  BY <1>1 DEF ToldInv, FirstClasses, Rated, Fresh
<1>2. ASSUME stage' \notin {"fetching_serps", "fetching_providers", "scoring"} PROVE ToldInv'
  BY <1>2 DEF ToldInv
<1>3. ASSUME NEW answer \in MetricAnswers, FetchMetrics(answer) PROVE ToldInv'
  <2>1. stage = "fetching_metrics" /\ stage' = "fetching_serps" /\ serps' = serps
    BY <1>3 DEF FetchMetrics
  <2>2. serps' = <<>>
    BY <2>1 DEF EvidenceInv
  <2> QED BY <2>1, <2>2 DEF ToldInv, FirstClasses
<1>4. ASSUME NEW answer \in SerpAnswers, FetchSerp(answer) PROVE ToldInv'
  <2> DEFINE new == Snapshot(selected[Len(serps) + 1], answer)
             s == Classified(new, <<>>)
  <2>1. /\ stage = "fetching_serps" /\ stage' = "fetching_serps"
        /\ serps' = Append(serps, s) /\ Len(serps) < Len(selected)
    BY <1>4 DEF FetchSerp
  <2>2. serps \in Seq(Snapshots) /\ selected \in Seq(DOMAIN Words)
    BY SerpLimitNat, KeywordsOf DEF EvidenceInv
  <2>3. new \in Snapshots
    <3>1. Len(serps) \in Nat /\ Len(selected) \in Nat
      BY <2>2, LenProperties
    <3>2. selected[Len(serps) + 1] \in DOMAIN Words
      BY <2>1, <2>2, <3>1, ElementOfSeq
    <3> QED BY <3>2, SnapshotOf
  <2> HIDE DEF new
  <2>4. s \in Snapshots
    BY <2>3, ClassifiedSnapshot
  <2>5. ASSUME NEW r \in s.results PROVE r.class = ClassOf(r, <<>>)
    <3>1. s.results = {[q EXCEPT !.class = ClassOf(q, <<>>)] : q \in new.results}
      BY <2>3 DEF Classified, Snapshots
    <3>2. PICK q \in new.results : r = [q EXCEPT !.class = ClassOf(q, <<>>)]
      BY <2>5, <3>1
    <3>3. IsResult(q)
      BY <2>3, ResultsAreResults DEF Snapshots
    <3>4. DOMAIN q = {"order", "url", "domain", "words", "site", "type", "class"}
      BY <3>3, ResultRecord
    <3> DEFINE k == ClassOf(q, <<>>)
    <3>5. r = [q EXCEPT !.class = k]
      BY <3>2
    <3>6. ClassOf([q EXCEPT !.class = k], <<>>) = ClassOf(q, <<>>)
      BY <3>4, ClassBlind
    <3>7. ClassOf(r, <<>>) = k
      BY <3>5, <3>6
    <3> HIDE DEF k
    <3>8. r.class = k
      BY <3>4, <3>5
    <3> QED BY <3>7, <3>8
  <2> HIDE DEF s
  <2>6. FirstClasses(serps')
    <3>1. FirstClasses(serps)
      BY <2>1 DEF ToldInv
    <3>2. /\ DOMAIN serps' = 1..(Len(serps) + 1) /\ DOMAIN serps = 1..Len(serps)
          /\ Len(serps) \in Nat
          /\ \A i \in 1..Len(serps) : serps'[i] = serps[i]
          /\ serps'[Len(serps) + 1] = s
      BY <2>1, <2>2, <2>4, AppendProperties, LenProperties
    <3>3. ASSUME NEW i \in DOMAIN serps', NEW r \in serps'[i].results
          PROVE  r.class = ClassOf(r, <<>>)
      <4>1. CASE i \in 1..Len(serps)
        BY <3>1, <3>2, <3>3, <4>1 DEF FirstClasses
      <4>2. CASE i = Len(serps) + 1
        BY <2>5, <3>2, <3>3, <4>2
      <4> QED BY <3>2, <4>1, <4>2
    <3> QED BY <3>3 DEF FirstClasses
  <2> QED BY <2>1, <2>6 DEF ToldInv
<1>5. ASSUME NEW answer \in CompetitorAnswers, FetchCompetitors(answer) PROVE ToldInv'
  <2> DEFINE cs == Enriched(SelectCompetitors(serps, CompetitorLimit),
                            Reported(setup, answer), serps)
  <2>1. /\ stage = "fetching_serps" /\ stage' = "fetching_providers" /\ serps' = serps
        /\ competitors' = cs
    BY <1>5 DEF FetchCompetitors
  <2>2. \A i \in DOMAIN cs : Told(cs[i], serps)
    BY EnrichedTold
  <2> HIDE DEF cs
  <2>3. FirstClasses(serps)
    BY <2>1 DEF ToldInv
  <2> QED BY <2>1, <2>2, <2>3 DEF ToldInv
<1>6. ASSUME NEW list \in ProviderLists, FetchProviders(list) PROVE ToldInv'
  <2>1. /\ stage = "fetching_providers" /\ stage' = "scoring" /\ competitors' = competitors
        /\ serps' = [i \in DOMAIN serps |-> Classified(serps[i], providers')]
    BY <1>6 DEF FetchProviders
  <2>2. serps \in Seq(Snapshots) /\ FirstClasses(serps)
        /\ \A i \in DOMAIN competitors : Told(competitors[i], serps)
    BY <2>1 DEF EvidenceInv, ToldInv
  <2>3. Indexed(serps)
    BY SerpsIndexed
  <2>4. Indexed(serps')
    <3>1. \A i \in DOMAIN serps : serps[i] \in Snapshots
      BY <2>2, LenProperties, ElementOfSeq
    <3>2. \A i \in DOMAIN serps :
             serps'[i] \in Snapshots /\ serps'[i].query = serps[i].query
      BY <2>1, <3>1, ClassifiedSnapshot
    <3>3. DOMAIN serps' = DOMAIN serps
      BY <2>1
    <3> QED BY <2>3, <3>2, <3>3 DEF Indexed, Snapshots
  <2>5. ASSUME NEW i \in DOMAIN competitors
        PROVE  ArchetypeAdjustment(Anew(competitors[i], serps'))
                 = ArchetypeAdjustment(competitors[i].archetype)
    <3>1. Told(competitors[i], serps)
      BY <2>2
    <3> QED BY <2>1, <2>2, <2>3, <2>4, <3>1, AgainRated
  <2>6. ASSUME NEW i \in DOMAIN competitors PROVE Rated(competitors[i])'
    <3>1. DOMAIN competitors[i] = CompetitorFields
      BY <2>2 DEF Told
    <3> DEFINE x == Anew(competitors[i], serps')
    <3>2. Fresh(competitors[i])' = [competitors[i] EXCEPT !.archetype = x]
      BY <2>1 DEF Fresh, Anew
    <3>3. ArchetypeAdjustment(x) = ArchetypeAdjustment(competitors[i].archetype)
      BY <2>5
    <3> HIDE DEF x
    <3>4. [competitors[i] EXCEPT !.archetype = x].archetype = x
      BY <3>1 DEF CompetitorFields
    <3> QED BY <2>1, <3>1, <3>2, <3>3, <3>4 DEF Rated
  <2> QED BY <2>1, <2>6 DEF ToldInv
<1>7. ASSUME NEW r \in DOMAIN Releases, Activate(r) PROVE ToldInv'
  BY <1>1, <1>7 DEF Activate, evidence
<1>8. CASE ReadManifest
  BY <1>1, <1>8 DEF ReadManifest, evidence
<1>9. CASE ReadRecords
  BY <1>1, <1>9 DEF ReadRecords, evidence
<1>10. CASE ReadCounty
  BY <1>1, <1>10 DEF ReadCounty, evidence
<1>11. CASE AssessMarket
  BY <1>1, <1>11 DEF AssessMarket, evidence
<1>12. CASE ListMarkets
  BY <1>2, <1>12 DEF ListMarkets
<1>13. CASE PlanScan
  BY <1>2, <1>13 DEF PlanScan
<1>14. ASSUME NEW list \in CandidateLists, DiscoverKeywords(list) PROVE ToldInv'
  BY <1>2, <1>14 DEF DiscoverKeywords
<1>15. CASE ScoreScan
  BY <1>2, <1>15 DEF ScoreScan
<1>16. CASE Publish
  BY <1>2, <1>16 DEF Publish
<1>17. CASE Fail
  BY <1>2, <1>17 DEF Fail
<1>18. CASE UNCHANGED vars
  BY <1>1, <1>18 DEF vars, evidence
<1> QED
  BY <1>3, <1>4, <1>5, <1>6, <1>7, <1>8, <1>9, <1>10, <1>11, <1>12, <1>13, <1>14, <1>15, <1>16,
     <1>17, <1>18 DEF Next

LEMMA HarmlesslyStale == ScoreInv /\ ToldInv => StaleArchetypeHarmless
<1> SUFFICES ASSUME ScoreInv, ToldInv, stage = "scoring"
             PROVE  CompetitorWeakness([i \in DOMAIN competitors |-> Fresh(competitors[i])], metrics)
                      = CompetitorWeakness(competitors, metrics)
  BY DEF StaleArchetypeHarmless
<1> DEFINE fresh == [i \in DOMAIN competitors |-> Fresh(competitors[i])]
<1>1. \A i \in DOMAIN competitors : Rated(competitors[i])
  BY DEF ToldInv
<1>2. ASSUME NEW i \in DOMAIN competitors
      PROVE  SamePoints(Fresh(competitors[i]), competitors[i])
  <2> DEFINE c == competitors[i]
             x == Archetype(PageType(ResultAt(First(c.observations), serps).class, c.reported))
  <2>1. Fresh(c) = [c EXCEPT !.archetype = x]
    BY DEF Fresh
  <2>2. DOMAIN c = CompetitorFields
        /\ ArchetypeAdjustment(Fresh(c).archetype) = ArchetypeAdjustment(c.archetype)
    BY <1>1 DEF Rated
  <2> HIDE DEF c, x
  <2>3. SamePoints([c EXCEPT !.archetype = x], c)
    BY <2>1, <2>2 DEF SamePoints, CompetitorFields
  <2> QED BY <2>1, <2>3 DEF c
<1>3. DOMAIN fresh = DOMAIN competitors
      /\ \A i \in DOMAIN competitors : fresh[i] = Fresh(competitors[i])
  OBVIOUS
<1>4. (fresh = <<>>) <=> (competitors = <<>>)
  <2>1. Listed(competitors)
    BY DEF ScoreInv
  <2>2. competitors = [i \in DOMAIN competitors |-> competitors[i]]
    BY <2>1, LenProperties DEF Listed
  <2>3. fresh = <<>> <=> DOMAIN fresh = {}
    OBVIOUS
  <2>4. competitors = <<>> <=> DOMAIN competitors = {}
    BY <2>2
  <2> QED BY <1>3, <2>3, <2>4
<1> HIDE DEF fresh
<1>5. Matching(fresh, competitors)
  BY <1>2, <1>3 DEF Matching
<1>6. CompetitorWeakness(fresh, metrics) = CompetitorWeakness(competitors, metrics)
  BY <1>4, <1>5, SameWeakness
<1> QED BY <1>6 DEF fresh

\* The competitors are scored with the archetypes they had before the providers
\* were known, and the points are those of the final classes (scanner.py:221-234).
THEOREM ArchetypesAreHarmless == Spec => []StaleArchetypeHarmless
<1>1. Init => EvidenceInv /\ ScoreInv /\ ToldInv
  BY EvidenceInit, ScoreInit, ToldInit
<1>2. EvidenceInv /\ ScoreInv /\ ToldInv /\ [Next]_vars => EvidenceInv' /\ ScoreInv' /\ ToldInv'
  BY EvidenceStep, ScoreStep, ToldStep
<1>3. EvidenceInv /\ ScoreInv /\ ToldInv => StaleArchetypeHarmless
  BY HarmlesslyStale
<1> QED BY <1>1, <1>2, <1>3, PTL DEF Spec

---------------------------------------------------------------------------
(* The points of a component and the steps that explain them                 *)

LEMMA RoundSpan ==
  ASSUME NEW n \in Int, NEW d \in Int, d > 0
  PROVE  /\ Round(n, d) \in Int
         /\ 2 * (d * Round(n, d)) <= 2 * n + d
         /\ 2 * n + d < 2 * (d * Round(n, d)) + 2 * d
<1> DEFINE a == 2 * n + d
           b == 2 * d
<1>1. a \in Int /\ b \in Int /\ b > 0
  OBVIOUS
<1>2. Round(n, d) = a \div b
  BY DEF Round
<1> HIDE DEF a, b
<1> DEFINE q == a \div b
<1>3. q \in Int /\ b * q <= a /\ a < b * q + b
  BY <1>1
<1> HIDE DEF q
<1>4. b * q = 2 * (d * q)
  BY <1>3 DEF b
<1> QED BY <1>2, <1>3, <1>4 DEF a, b, q

LEMMA RoundBetween ==
  ASSUME NEW n \in Nat, NEW d \in Int, d > 0, NEW k \in Nat, n <= k * d
  PROVE  Round(n, d) \in Nat /\ Round(n, d) <= k
<1> DEFINE q == Round(n, d)
<1>1. q \in Int /\ 2 * (d * q) <= 2 * n + d /\ 2 * n + d < 2 * (d * q) + 2 * d
  BY RoundSpan
<1> HIDE DEF q
<1>2. q >= 0
  <2>1. SUFFICES ASSUME q <= -1 PROVE FALSE
    BY <1>1
  <2>2. d * q <= d * (-1)
    BY <1>1, <2>1
  <2>3. d * (-1) = -d
    OBVIOUS
  <2> QED BY <1>1, <2>2, <2>3
<1>3. q <= k
  <2>1. SUFFICES ASSUME q >= k + 1 PROVE FALSE
    BY <1>1
  <2>2. d * q >= d * (k + 1)
    BY <1>1, <2>1
  <2>3. d * (k + 1) = k * d + d
    OBVIOUS
  <2> DEFINE x == d * q
             y == k * d
             z == d * (k + 1)
  <2>4. x \in Int /\ y \in Int /\ z \in Int /\ x >= z /\ z = y + d /\ n <= y
        /\ 2 * x <= 2 * n + d
    BY <1>1, <2>2, <2>3
  <2> HIDE DEF x, y, z
  <2> QED BY <2>4
<1> QED BY <1>1, <1>2, <1>3 DEF q

\* Points in ten-thousandths and in hundredths agree to a hundredth
Agree(steps, points) ==
    steps \in Int /\ steps - 100 * points <= 100 /\ 100 * points - steps <= 100

LEMMA BoundedOf ==
  ASSUME NEW v \in Int, NEW weight \in Nat
  PROVE  /\ Bounded(v, weight) \in Nat /\ Bounded(v, weight) <= 100 * weight
         /\ 0 <= v /\ v <= 10000 * weight =>
              /\ v - 100 * Bounded(v, weight) <= 50
              /\ 100 * Bounded(v, weight) - v <= 50
<1> DEFINE c == Clamp(v, weight * Unit)
<1>1. /\ c \in Nat /\ c <= (100 * weight) * 100
      /\ 0 <= v /\ v <= 10000 * weight => c = v
  BY DEF Clamp, Most, Least, Unit
<1>2. Bounded(v, weight) = Round(c, 100)
  BY DEF Bounded
<1> HIDE DEF c
<1>3. Round(c, 100) \in Nat /\ Round(c, 100) <= 100 * weight
  <2>1. 100 \in Int /\ 100 > 0 /\ 100 * weight \in Nat
    OBVIOUS
  <2> QED BY ONLY <1>1, <2>1, RoundBetween
<1>4. /\ 2 * (100 * Round(c, 100)) <= 2 * c + 100
      /\ 2 * c + 100 < 2 * (100 * Round(c, 100)) + 2 * 100
  <2>1. 100 \in Int /\ 100 > 0 /\ c \in Int
    BY <1>1
  <2> QED BY ONLY <2>1, RoundSpan
<1> QED BY <1>1, <1>2, <1>3, <1>4

\* The points of a trace of two, three or four steps
LEMMA StepsOf ==
  ASSUME NEW s, NEW n \in Nat, DOMAIN s = 1..n, \A i \in 1..n : s[i] \in Int
  PROVE  /\ Steps(s) = SumFunctionOnSet(s, 1..n)
         /\ \A k \in 0..n : IsFiniteSet(1..k) /\ SumFunctionOnSet(s, 1..k) \in Int
         /\ SumFunctionOnSet(s, 1..0) = 0
         /\ \A k \in 1..n : SumFunctionOnSet(s, 1..k) = s[k] + SumFunctionOnSet(s, 1..(k - 1))
<1>1. ASSUME NEW k \in 0..n PROVE IsFiniteSet(1..k) /\ SumFunctionOnSet(s, 1..k) \in Int
  <2>1. IsFiniteSet(1..k) /\ \A i \in 1..k : s[i] \in Int
    BY FS_Interval
  <2> QED BY <2>1, SumStep
<1>2. SumFunctionOnSet(s, 1..0) = 0
  <2>1. 1..0 = {}
    OBVIOUS
  <2> QED BY <2>1, SumEmpty
<1>3. ASSUME NEW k \in 1..n
      PROVE  SumFunctionOnSet(s, 1..k) = s[k] + SumFunctionOnSet(s, 1..(k - 1))
  <2>1. IsFiniteSet(1..k) /\ (\A i \in 1..k : s[i] \in Int) /\ k \in 1..k
    BY <1>1
  <2>2. (1..k) \ {k} = 1..(k - 1)
    OBVIOUS
  <2>3. SumFunctionOnSet(s, 1..k) = s[k] + SumFunctionOnSet(s, (1..k) \ {k})
    BY <2>1, SumStep
  <2> QED BY <2>2, <2>3
<1>4. Steps(s) = SumFunctionOnSet(s, 1..n)
  <2> DEFINE t == [x \in DOMAIN s |-> s[x]]
  <2>1. Steps(s) = SumFunctionOnSet(t, DOMAIN s)
    BY DEF Steps, SumOver
  <2>2. \A x \in 1..n : t[x] \in Int /\ t[x] = s[x]
    OBVIOUS
  <2>3. n \in 0..n
    OBVIOUS
  <2> HIDE DEF t
  <2>4. SumFunctionOnSet(t, 1..n) = SumFunctionOnSet(s, 1..n)
    BY <1>1, <2>2, <2>3, SumEqual
  <2> QED BY <2>1, <2>4
<1> QED BY <1>1, <1>2, <1>3, <1>4

LEMMA TwoSteps ==
  ASSUME NEW a \in Int, NEW b \in Int
  PROVE  Steps(<<a, b>>) = a + b
<1> DEFINE s == <<a, b>>
<1>1. DOMAIN s = 1..2 /\ (\A i \in 1..2 : s[i] \in Int) /\ s[1] = a /\ s[2] = b /\ 2 \in Nat
  OBVIOUS
<1> HIDE DEF s
<1> DEFINE f(k) == SumFunctionOnSet(s, 1..k)
<1>2. Steps(s) = f(2) /\ f(0) = 0 /\ \A k \in 1..2 : f(k) = s[k] + f(k - 1)
  BY <1>1, StepsOf
<1> HIDE DEF f
<1>3. f(1) = s[1] + f(0) /\ f(2) = s[2] + f(1)
  BY <1>2
<1> QED BY <1>1, <1>2, <1>3 DEF s

LEMMA ThreeSteps ==
  ASSUME NEW a \in Int, NEW b \in Int, NEW c \in Int
  PROVE  Steps(<<a, b, c>>) = a + b + c
<1> DEFINE s == <<a, b, c>>
<1>1. /\ DOMAIN s = 1..3 /\ (\A i \in 1..3 : s[i] \in Int) /\ 3 \in Nat
      /\ s[1] = a /\ s[2] = b /\ s[3] = c
  OBVIOUS
<1> HIDE DEF s
<1> DEFINE f(k) == SumFunctionOnSet(s, 1..k)
<1>2. Steps(s) = f(3) /\ f(0) = 0 /\ \A k \in 1..3 : f(k) = s[k] + f(k - 1)
  BY <1>1, StepsOf
<1> HIDE DEF f
<1>3. f(1) = s[1] + f(0) /\ f(2) = s[2] + f(1) /\ f(3) = s[3] + f(2)
  BY <1>2
<1> QED BY <1>1, <1>2, <1>3 DEF s

LEMMA FourSteps ==
  ASSUME NEW a \in Int, NEW b \in Int, NEW c \in Int, NEW d \in Int
  PROVE  Steps(<<a, b, c, d>>) = a + b + c + d
<1> DEFINE s == <<a, b, c, d>>
<1>1. /\ DOMAIN s = 1..4 /\ (\A i \in 1..4 : s[i] \in Int) /\ 4 \in Nat
      /\ s[1] = a /\ s[2] = b /\ s[3] = c /\ s[4] = d
  OBVIOUS
<1> HIDE DEF s
<1> DEFINE f(k) == SumFunctionOnSet(s, 1..k)
<1>2. Steps(s) = f(4) /\ f(0) = 0 /\ \A k \in 1..4 : f(k) = s[k] + f(k - 1)
  BY <1>1, StepsOf
<1> HIDE DEF f
<1>3. f(1) = s[1] + f(0) /\ f(2) = s[2] + f(1) /\ f(3) = s[3] + f(2) /\ f(4) = s[4] + f(3)
  BY <1>2
<1> QED BY <1>1, <1>2, <1>3 DEF s

\* Steps that add up to no less than nothing and no more than the weight
Within(steps, weight) == steps \in Int /\ 0 <= steps /\ steps <= 10000 * weight

LEMMA WithinAgrees ==
  ASSUME NEW v, NEW weight \in Nat, Within(v, weight)
  PROVE  Agree(v, Bounded(v, weight))
<1>1. v \in Int /\ 0 <= v /\ v <= 10000 * weight
  BY DEF Within
<1>2. /\ Bounded(v, weight) \in Nat
      /\ v - 100 * Bounded(v, weight) <= 50 /\ 100 * Bounded(v, weight) - v <= 50
  BY <1>1, BoundedOf
<1> QED BY <1>1, <1>2 DEF Agree

LEMMA MetricsFinite ==
  ASSUME NEW ms \in Seq(Metric)
  PROVE  /\ IsFiniteSet(DOMAIN ms) /\ Len(ms) \in Nat /\ Cardinality(DOMAIN ms) = Len(ms)
         /\ \A i \in DOMAIN ms : ms[i] \in Metric
         /\ \A S \in SUBSET DOMAIN ms : IsFiniteSet(S) /\ Cardinality(S) \in Nat
                                        /\ Cardinality(S) <= Len(ms)
<1>1. DOMAIN ms = 1..Len(ms) /\ Len(ms) \in Nat /\ \A i \in DOMAIN ms : ms[i] \in Metric
  BY LenProperties, ElementOfSeq
<1> DEFINE n == Len(ms)
<1>2. IsFiniteSet(1..n) /\ Cardinality(1..n) = n
  <2>1. n \in Nat /\ 1 \in Int /\ n \in Int
    BY <1>1
  <2> HIDE DEF n
  <2>2. IsFiniteSet(1..n) /\ Cardinality(1..n) = IF 1 > n THEN 0 ELSE n - 1 + 1
    BY <2>1, FS_Interval
  <2> QED BY <2>1, <2>2
<1>3. \A S \in SUBSET DOMAIN ms : IsFiniteSet(S) /\ Cardinality(S) \in Nat
                                   /\ Cardinality(S) <= Cardinality(DOMAIN ms)
  BY <1>1, <1>2, FS_Subset, FS_CardinalityType
<1> QED BY <1>1, <1>2, <1>3

LEMMA VolumeNat ==
  ASSUME NEW ms \in Seq(Metric), NEW G
  PROVE  VolumeAt(ms, G) \in Nat
<1> DEFINE S == {i \in DOMAIN ms : ms[i].granularity \in G}
           f == [i \in S |-> OrZero(ms[i].volume)]
<1>1. VolumeAt(ms, G) = SumFunctionOnSet(f, S)
  BY DEF VolumeAt, SumOver
<1>2. IsFiniteSet(S)
  BY MetricsFinite
<1>3. \A i \in S : f[i] \in Nat
  <2>1. ASSUME NEW i \in S PROVE f[i] \in Nat
    <3>1. ms[i] \in Metric
      BY MetricsFinite
    <3>2. ms[i].volume \in Nat \cup {None}
      BY <3>1 DEF Metric
    <3> QED BY <3>2 DEF OrZero
  <2> QED BY <2>1
<1> HIDE DEF f, S
<1> QED BY <1>1, <1>2, <1>3, SumNat

\* A market whose demand can be estimated
Placeable(market) ==
    /\ market.population \in Nat \cup {None}
    /\ market.reference \in (Nat \ {0}) \cup {None}

LEMMA DemandNat ==
  ASSUME NEW ms \in Seq(Metric), NEW market, Placeable(market)
  PROVE  /\ Demand(ms, market).service \in Nat
         /\ Demand(ms, market).market \in Nat \cup {None}
<1> DEFINE national == VolumeAt(ms, National)
           measured == VolumeAt(ms, Local)
           estimate == Estimate(national, market)
<1>1. national \in Nat /\ measured \in Nat
  BY VolumeNat
<1>2. /\ Demand(ms, market).service = national
      /\ Demand(ms, market).market = IF measured > 0 THEN 100 * measured ELSE estimate
  BY DEF Demand
<1> HIDE DEF national, measured
<1>3. estimate \in Nat \cup {None}
  <2>1. CASE national <= 0 \/ market.population = None \/ market.reference = None
    BY <2>1 DEF Estimate
  <2>2. CASE ~(national <= 0 \/ market.population = None \/ market.reference = None)
    <3> DEFINE p == market.population
               r == market.reference
    <3>1. estimate = Round(100 * national * p, r)
      BY <2>2 DEF Estimate
    <3>2. p \in Nat /\ r \in Nat /\ r > 0
      BY <2>2 DEF Placeable
    <3> HIDE DEF p, r, estimate
    <3> DEFINE n == 100 * national * p
    <3>3. n \in Nat /\ n <= n * r
      <4>1. n \in Nat
        BY <1>1, <3>2
      <4> HIDE DEF n
      <4> QED BY <3>2, <4>1
    <3> HIDE DEF n
    <3>4. r \in Int /\ r > 0
      BY <3>2
    <3>5. Round(n, r) \in Nat
      BY ONLY <3>3, <3>4, RoundBetween
    <3> QED BY <3>1, <3>5 DEF n
  <2> QED BY <2>1, <2>2
<1> HIDE DEF estimate
<1> QED BY <1>1, <1>2, <1>3

LEMMA DemandWithin ==
  ASSUME NEW demand, demand.service \in Nat, demand.market \in Nat \cup {None}
  PROVE  Within(Steps(DemandSteps(demand)), 24)
<1> DEFINE x == Least(demand.service, 900) * 1560
           p == MarketProfile(demand)
           y == Least(OrZero(demand.market) * 840, 840 * p.strong * p.credit)
           z == 100 * p.strong
<1>1. x \in Nat /\ x <= 1560 * 900
  BY DEF Least
<1>2. Round(x, 900) \in Nat /\ Round(x, 900) <= 1560
  <2>1. 900 \in Int /\ 900 > 0 /\ 1560 \in Nat
    OBVIOUS
  <2> HIDE DEF x
  <2> QED BY ONLY <1>1, <2>1, RoundBetween
<1>3. (p.strong = 50 /\ p.credit = 100) \/ (p.strong = 15 /\ p.credit = 40)
  BY DEF MarketProfile
<1>4. y \in Nat /\ z \in Int /\ z > 0 /\ y <= 840 * z
  <2>1. OrZero(demand.market) \in Nat
    BY DEF OrZero
  <2>2. OrZero(demand.market) * 840 \in Nat
    BY <2>1
  <2> HIDE DEF p
  <2> QED BY <1>3, <2>2 DEF Least
<1>5. Round(y, z) \in Nat /\ Round(y, z) <= 840
  <2>1. 840 \in Nat
    OBVIOUS
  <2> HIDE DEF y, z
  <2> QED BY ONLY <1>4, <2>1, RoundBetween
<1>6. DemandSteps(demand) = <<100 * Round(x, 900), 100 * Round(y, z)>>
  BY DEF DemandSteps
<1> HIDE DEF x, y, z
<1>7. Steps(DemandSteps(demand)) = 100 * Round(x, 900) + 100 * Round(y, z)
  <2> DEFINE a == 100 * Round(x, 900)
             b == 100 * Round(y, z)
  <2>1. a \in Int /\ b \in Int
    BY <1>2, <1>5
  <2> HIDE DEF a, b
  <2>2. Steps(<<a, b>>) = a + b
    BY <2>1, TwoSteps
  <2> QED BY <1>6, <2>2 DEF a, b
<1> QED BY <1>2, <1>5, <1>7 DEF Within

LEMMA TotalNat ==
  ASSUME NEW ms \in Seq(Metric), NEW field \in {"cpc", "paid"}
  PROVE  Total(ms, field) \in Nat /\ Cardinality(Known(ms, field)) \in Nat
<1> DEFINE S == Known(ms, field)
           f == [i \in S |-> ms[i][field]]
<1>1. Total(ms, field) = SumFunctionOnSet(f, S)
  BY DEF Total, SumOver
<1>2. S \in SUBSET DOMAIN ms
  BY DEF Known
<1>3. IsFiniteSet(S) /\ Cardinality(S) \in Nat
  BY <1>2, MetricsFinite
<1>4. \A i \in S : f[i] \in Nat
  <2>1. ASSUME NEW i \in S PROVE f[i] \in Nat
    <3>1. ms[i] \in Metric /\ ms[i][field] # None
      BY <1>2, MetricsFinite DEF Known
    <3> QED BY <3>1 DEF Metric
  <2> QED BY <2>1
<1> HIDE DEF f, S
<1> QED BY <1>1, <1>3, <1>4, SumNat DEF S

\* A signal against its target, of which it earns at most all the points
LEMMA TargetShare ==
  ASSUME NEW n \in Nat, NEW target \in Nat, target > 0, NEW points \in Nat
  PROVE  /\ Round(points * Least(n, target), target) \in Nat
         /\ Round(points * Least(n, target), target) <= points
<1> DEFINE x == Least(n, target)
           y == points * x
<1>1. x \in Nat /\ x <= target
  BY DEF Least
<1> HIDE DEF x
<1>2. y \in Nat /\ y <= points * target
  BY <1>1
<1> HIDE DEF y
<1>3. target \in Int
  OBVIOUS
<1>4. Round(y, target) \in Nat /\ Round(y, target) <= points
  BY <1>2, <1>3, RoundBetween
<1> QED BY <1>4 DEF x, y

LEMMA CommercialWithin ==
  ASSUME NEW ms \in Seq(Metric)
  PROVE  Within(Steps(CommercialSteps(ms)), 16)
<1> DEFINE cpcs == Most(1, Cardinality(Known(ms, "cpc")))
           paid == Most(1, Cardinality(Known(ms, "paid")))
           high == Cardinality({i \in DOMAIN ms : ms[i].intent \in HighIntents})
           all == Most(1, Len(ms))
           a == Round(9 * Unit * Least(Total(ms, "cpc"), 2800 * cpcs), 2800 * cpcs)
           b == Round(3 * Unit * Least(Total(ms, "paid"), 80 * paid), 80 * paid)
           c == Round(4 * Unit * high, all)
<1>1. CommercialSteps(ms) = <<a, b, c>>
  BY DEF CommercialSteps
<1>2. /\ cpcs \in Nat /\ 2800 * cpcs \in Nat /\ 2800 * cpcs > 0 /\ Total(ms, "cpc") \in Nat
      /\ paid \in Nat /\ 80 * paid \in Nat /\ 80 * paid > 0 /\ Total(ms, "paid") \in Nat
  <2>1. Cardinality(Known(ms, "cpc")) \in Nat /\ Cardinality(Known(ms, "paid")) \in Nat
        /\ Total(ms, "cpc") \in Nat /\ Total(ms, "paid") \in Nat
    BY TotalNat
  <2> QED BY <2>1 DEF Most
<1>3. high \in Nat /\ high <= all /\ all \in Nat /\ all > 0
  <2>1. high \in Nat /\ high <= Len(ms) /\ Len(ms) \in Nat
    BY MetricsFinite
  <2> HIDE DEF high
  <2> QED BY <2>1 DEF Most
<1> HIDE DEF cpcs, paid, high, all
<1>4. 9 * Unit = 90000 /\ 3 * Unit = 30000 /\ 4 * Unit = 40000
  BY DEF Unit
<1>5. a \in Nat /\ a <= 90000
  <2> DEFINE t == 2800 * cpcs
             k == 9 * Unit
             n == Total(ms, "cpc")
  <2>1. t \in Nat /\ t > 0 /\ n \in Nat /\ k \in Nat
    BY <1>2, <1>4
  <2> HIDE DEF t, k, n
  <2>2. Round(k * Least(n, t), t) \in Nat /\ Round(k * Least(n, t), t) <= k
    BY <2>1, TargetShare
  <2> QED BY <1>4, <2>2 DEF t, k, n
<1>6. b \in Nat /\ b <= 30000
  <2> DEFINE t == 80 * paid
             k == 3 * Unit
             n == Total(ms, "paid")
  <2>1. t \in Nat /\ t > 0 /\ n \in Nat /\ k \in Nat
    BY <1>2, <1>4
  <2> HIDE DEF t, k, n
  <2>2. Round(k * Least(n, t), t) \in Nat /\ Round(k * Least(n, t), t) <= k
    BY <2>1, TargetShare
  <2> QED BY <1>4, <2>2 DEF t, k, n
<1>7. c \in Nat /\ c <= 40000
  <2>1. 40000 * high \in Nat /\ 40000 * high <= 40000 * all /\ all \in Int /\ 40000 \in Nat
    BY <1>3
  <2>2. Round(40000 * high, all) \in Nat /\ Round(40000 * high, all) <= 40000
    BY <1>3, <2>1, RoundBetween
  <2> QED BY <1>4, <2>2
<1> HIDE DEF a, b, c
<1>8. Steps(<<a, b, c>>) = a + b + c
  BY <1>5, <1>6, <1>7, ThreeSteps
<1> QED BY <1>1, <1>5, <1>6, <1>7, <1>8 DEF Within

LEMMA CompletenessWithin ==
  ASSUME NEW missing \in SUBSET Fields
  PROVE  Within(Steps(CompletenessSteps(missing)), 8)
<1> DEFINE f == <<"keyword_metrics", "local_demand", "serp_snapshots", "competitor_metrics",
                  "provider_candidates", "keyword_cpc", "serp_results">>
           n == Cardinality(missing)
           x == Round(8 * Unit * n, 7)
<1>1. Cardinality(Fields) <= 7
  <2>1. f \in [1..7 -> Fields] /\ \A y \in Fields : \E i \in 1..7 : f[i] = y
    <3>1. f \in [1..7 -> Fields]
      BY DEF Fields
    <3>2. \A y \in Fields : \E i \in 1..7 : f[i] = y
      <4>1. /\ f[1] = "keyword_metrics" /\ f[2] = "local_demand" /\ f[3] = "serp_snapshots"
            /\ f[4] = "competitor_metrics" /\ f[5] = "provider_candidates"
            /\ f[6] = "keyword_cpc" /\ f[7] = "serp_results"
        OBVIOUS
      <4> HIDE DEF f
      <4> QED BY <4>1 DEF Fields
    <3> QED BY <3>1, <3>2
  <2> HIDE DEF f
  <2>2. f \in Surjection(1..7, Fields)
    BY <2>1 DEF Surjection
  <2>3. ExistsSurjection(1..7, Fields) /\ 7 \in Nat
    BY <2>2 DEF ExistsSurjection
  <2> QED BY ONLY <2>3, FS_SurjCardinalityBound
<1>2. n \in Nat /\ n <= 7
  <2>1. IsFiniteSet(missing) /\ n <= Cardinality(Fields) /\ n \in Nat /\ Cardinality(Fields) \in Nat
    BY FieldsFinite, FS_Subset, FS_CardinalityType
  <2> HIDE DEF n
  <2> QED BY <1>1, <2>1
<1> HIDE DEF n
<1>3. x \in Nat /\ x <= 80000
  <2> DEFINE m == 8 * Unit * n
  <2>1. m \in Nat /\ m <= 80000 * 7 /\ 7 \in Int /\ 7 > 0 /\ 80000 \in Nat
    BY <1>2 DEF Unit
  <2> HIDE DEF m
  <2>2. Round(m, 7) \in Nat /\ Round(m, 7) <= 80000
    BY ONLY <2>1, RoundBetween
  <2> QED BY <2>2 DEF m
<1>4. CompletenessSteps(missing) = <<8 * Unit, -x>> /\ 8 * Unit = 80000
  BY DEF CompletenessSteps, n, Unit
<1> HIDE DEF x
<1>5. Steps(CompletenessSteps(missing)) = 8 * Unit + (-x)
  <2> DEFINE a == 8 * Unit
             b == -x
  <2>1. a \in Int /\ b \in Int
    BY <1>3, <1>4
  <2> HIDE DEF a, b
  <2>2. Steps(<<a, b>>) = a + b
    BY <2>1, TwoSteps
  <2> QED BY <1>4, <2>2 DEF a, b
<1> QED BY <1>3, <1>4, <1>5 DEF Within

\* A sum of values of at most c
LEMMA SumBelow ==
  ASSUME NEW f, NEW S, IsFiniteSet(S), NEW c \in Int,
         \A x \in S : f[x] \in Int /\ f[x] <= c
  PROVE  SumFunctionOnSet(f, S) <= c * Cardinality(S)
<1> DEFINE P == {s \in SUBSET S : SumFunctionOnSet(f, s) <= c * Cardinality(s)}
<1>1. ASSUME NEW s \in SUBSET S, \A x \in s : s \ {x} \in P
      PROVE  s \in P
  <2>1. IsFiniteSet(s) /\ \A x \in s : IsFiniteSet(s \ {x})
    BY FS_Subset
  <2>2. CASE s = {}
    <3>1. Cardinality(s) = 0 /\ SumFunctionOnSet(f, s) = 0
      BY <2>2, FS_EmptySet, SumEmpty
    <3> QED BY <3>1
  <2>3. ASSUME NEW x \in s PROVE s \in P
    <3> DEFINE n == Cardinality(s)
               m == Cardinality(s \ {x})
               u == SumFunctionOnSet(f, s)
               v == SumFunctionOnSet(f, s \ {x})
    <3>1. u = f[x] + v /\ v \in Int
      BY <2>1, SumStep
    <3>2. m = n - 1 /\ n \in Nat
      BY <2>1, FS_RemoveElement, FS_CardinalityType
    <3>3. v <= c * m /\ f[x] \in Int /\ f[x] <= c
      BY <1>1
    <3> HIDE DEF n, m, u, v
    <3>4. c * m = c * n - c
      BY <3>2
    <3>5. u <= c * n
      BY <3>1, <3>2, <3>3, <3>4
    <3> QED BY <3>5 DEF u, n
  <2> QED BY <2>2, <2>3
<1>2. S \in P
  <2> HIDE DEF P
  <2> QED BY <1>1, SubsetInduction
<1> QED BY <1>2

\* Providers as they are scored
Quoted(ps) == Listed(ps) /\ \A i \in DOMAIN ps : ps[i].score \in Int /\ ps[i].score <= 10000

LEMMA ProviderWithin ==
  ASSUME NEW ps, Quoted(ps)
  PROVE  Within(Steps(ProviderSteps(ps)), 14)
<1> DEFINE S == Suitable(ps)
           ahead(i) == {j \in S : \/ ps[j].score > ps[i].score
                                  \/ ps[j].score = ps[i].score /\ j < i}
           top == {i \in S : Cardinality(ahead(i)) < 5}
           f == [i \in top |-> ps[i].score]
           k == Cardinality(top)
           q == TopQuality(ps)
           suitable == Cardinality(S)
           supply == Round(65 * 14 * Unit * Least(suitable, 2), 200)
           multiplier == IF suitable > 14 THEN 72 ELSE IF suitable > 8 THEN 88 ELSE 100
           less == Round(supply * (100 - multiplier), 100)
           best == Round(35 * 14 * q, 100)
<1>1. IsFiniteSet(DOMAIN ps)
  <2>1. ps \in Seq({ps[i] : i \in DOMAIN ps})
    BY DEF Quoted, Listed
  <2>2. DOMAIN ps = 1..Len(ps) /\ Len(ps) \in Nat
    BY <2>1, LenProperties
  <2>3. IsFiniteSet(1..Len(ps))
    BY <2>2, FS_Interval
  <2> QED BY <2>2, <2>3
<1>2. S \in SUBSET DOMAIN ps /\ top \in SUBSET S
  BY DEF Suitable
<1>3. IsFiniteSet(S) /\ IsFiniteSet(top)
  <2> HIDE DEF S, top
  <2> QED BY <1>1, <1>2, FS_Subset
<1>4. \A i \in top : f[i] \in Nat /\ f[i] <= 10000
  <2>1. ASSUME NEW i \in top PROVE ps[i].score \in Nat /\ ps[i].score <= 10000
    <3>1. i \in DOMAIN ps /\ ps[i].score >= 5500
      BY <1>2 DEF Suitable
    <3>2. ps[i].score \in Int /\ ps[i].score <= 10000
      BY <3>1 DEF Quoted
    <3> QED BY <3>1, <3>2
  <2> HIDE DEF top
  <2> QED BY <2>1
<1>5. q = Round(SumFunctionOnSet(f, top), Most(1, k))
  BY DEF TopQuality, SumOver
<1>6. suitable \in Nat /\ k \in Nat
  BY <1>3, FS_CardinalityType
<1> HIDE DEF top, f
<1>7. SumFunctionOnSet(f, top) \in Nat
  BY <1>3, <1>4, SumNat
<1>8. SumFunctionOnSet(f, top) <= 10000 * k
  <2> DEFINE c == 10000
  <2>1. c \in Int /\ \A i \in top : f[i] \in Int /\ f[i] <= c
    BY <1>4
  <2> HIDE DEF c
  <2>2. SumFunctionOnSet(f, top) <= c * Cardinality(top)
    BY ONLY <1>3, <2>1, SumBelow
  <2> QED BY <2>2 DEF c
<1> HIDE DEF k, suitable, q
<1>9. q \in Nat /\ q <= 10000
  <2> DEFINE n == SumFunctionOnSet(f, top)
             d == Most(1, k)
  <2>1. n \in Nat /\ d \in Int /\ d > 0 /\ n <= 10000 * d /\ 10000 \in Nat
    BY <1>6, <1>7, <1>8 DEF Most
  <2> HIDE DEF n, d
  <2>2. Round(n, d) \in Nat /\ Round(n, d) <= 10000
    BY ONLY <2>1, RoundBetween
  <2> QED BY <1>5, <2>2 DEF n, d
<1>10. supply \in Nat /\ supply <= 91000
  <2> DEFINE n == 65 * 14 * Unit * Least(suitable, 2)
  <2>1. n \in Nat /\ n <= 91000 * 200 /\ 200 \in Int /\ 200 > 0 /\ 91000 \in Nat
    BY <1>6 DEF Least, Unit
  <2> HIDE DEF n
  <2>2. Round(n, 200) \in Nat /\ Round(n, 200) <= 91000
    BY ONLY <2>1, RoundBetween
  <2> QED BY <2>2 DEF n
<1> HIDE DEF supply
<1>11. less \in Nat /\ less <= supply
  <2> DEFINE n == supply * (100 - multiplier)
  <2>1. n \in Nat /\ n <= supply * 100 /\ 100 \in Int /\ 100 > 0
    BY <1>10
  <2> HIDE DEF n
  <2>2. Round(n, 100) \in Nat /\ Round(n, 100) <= supply
    BY ONLY <1>10, <2>1, RoundBetween
  <2> QED BY <2>2 DEF n
<1>12. best \in Nat /\ best <= 49000
  <2> DEFINE n == 35 * 14 * q
  <2>1. n \in Nat /\ n <= 49000 * 100 /\ 100 \in Int /\ 100 > 0 /\ 49000 \in Nat
    BY <1>9
  <2> HIDE DEF n
  <2>2. Round(n, 100) \in Nat /\ Round(n, 100) <= 49000
    BY ONLY <2>1, RoundBetween
  <2> QED BY <2>2 DEF n
<1>13. ProviderSteps(ps) = <<supply, -less, best>>
  <2>1. Weights.provider_suitability = 14
    BY DEF Weights
  <2> QED BY <2>1 DEF ProviderSteps, supply, q, suitable
<1> HIDE DEF less, best
<1>14. Steps(<<supply, -less, best>>) = supply + (-less) + best
  <2> DEFINE b == -less
  <2>1. supply \in Int /\ b \in Int /\ best \in Int
    BY <1>10, <1>11, <1>12
  <2> HIDE DEF b
  <2>2. Steps(<<supply, b, best>>) = supply + b + best
    BY <2>1, ThreeSteps
  <2> QED BY <2>2 DEF b
<1> QED BY <1>10, <1>11, <1>12, <1>13, <1>14 DEF Within

LEMMA CardinalityIn ==
  ASSUME NEW A, NEW B, IsFiniteSet(B)
  PROVE  Cardinality(A \cap B) \in Nat /\ Cardinality(A \cap B) <= Cardinality(B)
         /\ Cardinality(B) \in Nat /\ (B # {} => Cardinality(B) > 0)
<1>1. A \cap B \in SUBSET B
  OBVIOUS
<1>2. IsFiniteSet(A \cap B) /\ Cardinality(A \cap B) <= Cardinality(B)
  BY <1>1, FS_Subset
<1>3. Cardinality(A \cap B) \in Nat /\ Cardinality(B) \in Nat
  BY <1>2, FS_CardinalityType
<1>4. B # {} => Cardinality(B) # 0
  BY FS_EmptySet
<1> QED BY <1>2, <1>3, <1>4

\* Every set of the integers is bounded by its largest: Max of one with zero, too
LEMMA MaxInt ==
  ASSUME NEW S, IsFiniteSet(S), S \in SUBSET Int, S # {}
  PROVE  Max(S) \in Int
BY MaxOf

LEMMA CoverageInt ==
  ASSUME NEW words, NEW expected, IsFiniteSet(expected)
  PROVE  Coverage(words, expected) \in Int
<1>1. CASE words = {} \/ expected = {}
  BY <1>1 DEF Coverage
<1>2. CASE ~(words = {} \/ expected = {})
  <2> DEFINE n == Cardinality(words \cap expected)
             d == Cardinality(expected)
  <2>1. n \in Nat /\ d \in Nat /\ d > 0
    BY <1>2, CardinalityIn
  <2>2. Coverage(words, expected) = Round(1000 * n, d)
    BY <1>2 DEF Coverage
  <2> HIDE DEF n, d
  <2>3. 1000 * n \in Int /\ d \in Int
    BY <2>1
  <2> QED BY <2>1, <2>2, <2>3, RoundInt
<1> QED BY <1>1, <1>2

LEMMA ServiceFitInt ==
  ASSUME NEW p, IsFiniteSet(p.categories)
  PROVE  ServiceFit(p) \in Int
<1> DEFINE text == p.name \cup UNION p.categories
           C == p.categories
           E == Service.categories
           pairs == C \X E
           f == [x \in pairs |-> Coverage(x[1], x[2])]
           A == {f[x] : x \in pairs}
           F == E \cup {Service.words}
           g == [e \in F |-> Coverage(text, e)]
           B == {g[e] : e \in F}
           configured == Max({0} \cup {Coverage(c, e) : c \in C, e \in E})
           language == Max({Coverage(text, e) : e \in F})
<1>1. /\ IsFiniteSet(E) /\ (\A e \in E : IsFiniteSet(e)) /\ IsFiniteSet(Service.words)
  BY KeywordConstants
<1>2. A = {Coverage(c, e) : c \in C, e \in E} /\ B = {Coverage(text, e) : e \in F}
  <2>1. ASSUME NEW x \in pairs PROVE f[x] \in {Coverage(c, e) : c \in C, e \in E}
    <3>1. x[1] \in C /\ x[2] \in E /\ f[x] = Coverage(x[1], x[2])
      OBVIOUS
    <3> HIDE DEF f, pairs
    <3> QED BY <3>1
  <2>2. ASSUME NEW c \in C, NEW e \in E PROVE Coverage(c, e) \in A
    <3>1. <<c, e>> \in pairs /\ f[<<c, e>>] = Coverage(c, e)
      OBVIOUS
    <3> HIDE DEF f, pairs
    <3> QED BY <3>1
  <2>3. B = {Coverage(text, e) : e \in F}
    <3>1. \A e \in F : g[e] = Coverage(text, e)
      OBVIOUS
    <3> HIDE DEF F, g, text
    <3> QED BY <3>1
  <2>4. A = {Coverage(c, e) : c \in C, e \in E}
    <3>1. \A y \in A : \E x \in pairs : y = f[x]
      OBVIOUS
    <3> DEFINE Z == {Coverage(c, e) : c \in C, e \in E}
    <3>2. \A y \in Z : \E c \in C, e \in E : y = Coverage(c, e)
      OBVIOUS
    <3>3. \A y \in A : y \in Z
      <4> HIDE DEF A, Z, f, pairs
      <4> QED BY <3>1, <2>1 DEF Z
    <3>4. \A y \in Z : y \in A
      <4> HIDE DEF A, Z, f, pairs
      <4> QED BY <3>2, <2>2
    <3> HIDE DEF A, Z
    <3>5. A = Z
      BY <3>3, <3>4
    <3> QED BY <3>5 DEF Z
  <2> HIDE DEF A, B
  <2> QED BY <2>3, <2>4
<1>3. IsFiniteSet(pairs) /\ IsFiniteSet(F)
  <2>1. IsFiniteSet(C \X E)
    BY <1>1, FS_Product
  <2>2. IsFiniteSet(E \cup {Service.words})
    BY <1>1, FS_AddElement
  <2> QED BY <2>1, <2>2
<1>4. \A x \in pairs : f[x] \in Int
  <2>1. ASSUME NEW x \in pairs PROVE f[x] \in Int
    <3>1. IsFiniteSet(x[2])
      BY <1>1
    <3> QED BY <3>1, CoverageInt
  <2> QED BY <2>1
<1>5. \A e \in F : g[e] \in Int
  <2>1. ASSUME NEW e \in F PROVE g[e] \in Int
    <3>1. IsFiniteSet(e)
      BY <1>1
    <3> QED BY <3>1, CoverageInt
  <2> QED BY <2>1
<1>6. IsFiniteSet(A) /\ IsFiniteSet(B)
  <2> HIDE DEF f, g, pairs, F
  <2> QED BY <1>3, ImageFinite
<1>7. A \in SUBSET Int /\ B \in SUBSET Int /\ B # {}
  <2>1. F # {}
    OBVIOUS
  <2> HIDE DEF f, g, pairs, F
  <2> QED BY <1>4, <1>5, <2>1
<1> HIDE DEF A, B, F, pairs
<1>8. configured \in Int
  <2> DEFINE T == {0} \cup A
  <2>1. IsFiniteSet(A \cup {0})
    BY <1>6, FS_AddElement
  <2>2. A \cup {0} = T
    OBVIOUS
  <2>3. T \in SUBSET Int /\ T # {}
    BY <1>7
  <2>4. configured = Max(T)
    BY <1>2
  <2> HIDE DEF T, configured
  <2> QED BY <2>1, <2>2, <2>3, <2>4, MaxInt
<1>9. language \in Int
  <2>1. language = Max(B)
    BY <1>2 DEF F
  <2> HIDE DEF language
  <2> QED BY <1>6, <1>7, <2>1, MaxInt
<1>10. ServiceFit(p) = IF C \cap E # {} THEN 1000
                       ELSE Most(configured, Round(65 * language, 100))
  BY DEF ServiceFit, F
<1> HIDE DEF configured, language
<1>11. Round(65 * language, 100) \in Int
  <2>1. 65 * language \in Int /\ 100 \in Int /\ 100 > 0
    BY <1>9
  <2> QED BY <2>1, RoundInt
<1> QED BY <1>8, <1>10, <1>11 DEF Most

LEMMA GeographicFitInt ==
  ASSUME NEW p, p.km \in Int \cup {None}
  PROVE  GeographicFit(p) \in Int
<1> DEFINE k == Clamp(Round(1000 * (100 - p.km), 75), 1000)
           A == IF p.km = None THEN {} ELSE {k}
           B == IF p.area THEN {1000} ELSE {}
           C == IF p.address THEN {850} ELSE {}
           S == {0} \cup A \cup B \cup C
<1>1. p.km # None => k \in Int
  <2>1. SUFFICES ASSUME p.km # None PROVE k \in Int
    OBVIOUS
  <2>2. 1000 * (100 - p.km) \in Int /\ 75 \in Int /\ 75 > 0
    BY <2>1
  <2>3. Round(1000 * (100 - p.km), 75) \in Int
    BY <2>2, RoundInt
  <2> QED BY <2>3 DEF Clamp, Most, Least
<1>2. GeographicFit(p) = Max(S)
  BY DEF GeographicFit
<1> HIDE DEF k
<1>3. IsFiniteSet(A) /\ IsFiniteSet(B) /\ IsFiniteSet(C) /\ IsFiniteSet({0})
  <2>1. \A x : IsFiniteSet({x})
    BY FS_Singleton
  <2>2. IsFiniteSet({})
    BY FS_EmptySet
  <2>3. A = {} \/ A = {k}
    OBVIOUS
  <2>4. B = {} \/ \E n : B = {n}
    OBVIOUS
  <2>5. C = {} \/ \E n : C = {n}
    OBVIOUS
  <2> HIDE DEF A, B, C
  <2>6. IsFiniteSet(A)
    BY <2>1, <2>2, <2>3, Zenon
  <2>7. IsFiniteSet(B)
    BY <2>1, <2>2, <2>4, Zenon
  <2>8. IsFiniteSet(C)
    BY <2>1, <2>2, <2>5, Zenon
  <2>9. IsFiniteSet({0})
    BY <2>1, Zenon
  <2> QED BY <2>6, <2>7, <2>8, <2>9
<1>4. A \in SUBSET Int /\ B \in SUBSET Int /\ C \in SUBSET Int
  BY <1>1
<1> HIDE DEF A, B, C
<1>5. IsFiniteSet(S)
  BY <1>3, FS_Union
<1>6. S \in SUBSET Int /\ S # {}
  BY <1>4
<1> HIDE DEF S
<1> QED BY <1>2, <1>5, <1>6, MaxInt

LEMMA ContactabilityInt ==
  ASSUME NEW p, p.channels \in SUBSET {"website", "phone", "email", "contact_form"},
         p.contact \in Int \cup {None}
  PROVE  Contactability(p) \in Int
<1> DEFINE certain == IF p.contact = None THEN 50 ELSE Clamp(p.contact, 100)
           f == ChannelStrength
           A == {f[c] : c \in p.channels}
           S == {0} \cup A
           m == Max(S)
<1>1. certain \in Int
  BY DEF Clamp, Most, Least
<1>2. IsFiniteSet(p.channels)
  <2> DEFINE W == {"website", "phone", "email", "contact_form"}
  <2>1. IsFiniteSet(W)
    <3> DEFINE W1 == {"website"}
               W2 == W1 \cup {"phone"}
               W3 == W2 \cup {"email"}
               W4 == W3 \cup {"contact_form"}
    <3>1. W4 = W
      OBVIOUS
    <3>2. IsFiniteSet(W1)
      BY FS_Singleton
    <3> HIDE DEF W1
    <3>3. IsFiniteSet(W2)
      BY <3>2, FS_AddElement
    <3> HIDE DEF W2
    <3>4. IsFiniteSet(W3)
      BY <3>3, FS_AddElement
    <3> HIDE DEF W3
    <3>5. IsFiniteSet(W4)
      BY <3>4, FS_AddElement
    <3> QED BY <3>1, <3>5
  <2> HIDE DEF W
  <2> QED BY <2>1, FS_Subset DEF W
<1>3. A \in SUBSET Int
  BY DEF ChannelStrength
<1>4. IsFiniteSet(A)
  <2> HIDE DEF f
  <2> QED BY <1>2, ImageFinite
<1>5. Contactability(p) = Round(m * (300 + certain), 400)
  BY DEF Contactability
<1> HIDE DEF A, certain
<1>6. m \in Int
  <2>1. IsFiniteSet(A \cup {0}) /\ A \cup {0} = S
    BY <1>4, FS_AddElement
  <2>2. S \in SUBSET Int /\ S # {}
    BY <1>3
  <2> HIDE DEF S
  <2> QED BY <2>1, <2>2, MaxInt
<1> HIDE DEF m
<1>7. m * (300 + certain) \in Int /\ 400 \in Int /\ 400 > 0
  BY <1>1, <1>6
<1> QED BY <1>5, <1>7, RoundInt

LEMMA ReputationInt ==
  ASSUME NEW p, p.rating \in Int \cup {None}, p.reviews \in Int \cup {None}
  PROVE  Reputation(p) \in Int
<1> DEFINE a == 700 * Clamp(OrZero(p.rating), 50)
           b == 300 * Clamp(OrZero(p.reviews), 100)
<1>1. a \in Int /\ b \in Int /\ 50 \in Int /\ 100 \in Int /\ 50 > 0 /\ 100 > 0
  BY DEF Clamp, Most, Least, OrZero
<1>2. Reputation(p) = Round(a, 50) + Round(b, 100)
  BY DEF Reputation
<1> HIDE DEF a, b
<1>3. Round(a, 50) \in Int /\ Round(b, 100) \in Int
  BY <1>1, RoundInt
<1> QED BY <1>2, <1>3

LEMMA QuotedListing ==
  ASSUME NEW su, NEW p \in Listing, IsFiniteSet(p.categories)
  PROVE  /\ ScoredProvider(FoundProvider(su, p)).score \in Int
         /\ ScoredProvider(FoundProvider(su, p)).score <= 10000
<1> DEFINE q == FoundProvider(su, p)
<1>1. /\ q.categories = p.categories /\ q.km \in Int \cup {None}
      /\ q.channels \in SUBSET {"website", "phone", "email", "contact_form"}
      /\ q.contact \in Int \cup {None}
      /\ q.rating \in Int \cup {None} /\ q.reviews \in Int \cup {None}
  <2>1. CASE su.mode = "fixture"
    BY <2>1 DEF FoundProvider, Listing
  <2>2. CASE su.mode # "fixture"
    <3> DEFINE c == IF p.channels \cap {"phone", "email"} # {} THEN (IF p.listed THEN 90 ELSE 80)
                    ELSE IF "website" \in p.channels THEN 55 ELSE None
               s == IF p.status = "close" THEN "closed_now" ELSE p.status
    <3>1. q = [p EXCEPT !.contact = c, !.status = s]
      BY <2>2 DEF FoundProvider
    <3>2. c \in Int \cup {None}
      OBVIOUS
    <3> HIDE DEF c, s, q
    <3> QED BY <3>1, <3>2 DEF Listing
  <2> QED BY <2>1, <2>2
<1> HIDE DEF q
<1> DEFINE v == StatusValue(q.status)
           sf == ServiceFit(q)
           gf == GeographicFit(q)
           ct == Contactability(q)
           rp == Reputation(q)
           sum == 30 * sf + 25 * gf + 15 * v + 20 * ct + 10 * rp
           total == Round(sum, 10)
<1>2. v \in Int /\ sf \in Int /\ gf \in Int /\ ct \in Int /\ rp \in Int
  <2>1. v \in Int
    BY DEF StatusValue
  <2>2. sf \in Int
    BY <1>1, ServiceFitInt
  <2>3. gf \in Int
    BY <1>1, GeographicFitInt
  <2>4. ct \in Int
    BY <1>1, ContactabilityInt
  <2>5. rp \in Int
    BY <1>1, ReputationInt
  <2> QED BY <2>1, <2>2, <2>3, <2>4, <2>5
<1>3. ScoredProvider(q).score = IF v <= 0 THEN Least(total, 4000) ELSE Clamp(total, 10000)
  BY DEF ScoredProvider
<1> HIDE DEF v, sf, gf, ct, rp
<1>4. sum \in Int
  BY <1>2
<1> HIDE DEF sum
<1>5. total \in Int
  <2>1. 10 \in Int /\ 10 > 0
    OBVIOUS
  <2> QED BY <1>4, <2>1, RoundInt
<1> HIDE DEF total
<1>6. ScoredProvider(q).score \in Int /\ ScoredProvider(q).score <= 10000
  BY <1>3, <1>5 DEF Clamp, Most, Least
<1> QED BY <1>6 DEF q

---------------------------------------------------------------------------
(* Competitor weakness: four means are rounded in the trace, one in the points *)

LEMMA TimesMore ==
  ASSUME NEW d \in Int, d > 0, NEW z \in Int, NEW k \in Int, z >= k
  PROVE  d * z >= d * k
<1> DEFINE m == z - k
<1>1. m \in Nat /\ d \in Nat
  OBVIOUS
<1>2. d * m >= 0
  BY <1>1
<1>3. d * m = d * z - d * k
  OBVIOUS
<1> QED BY <1>2, <1>3

LEMMA FourRoundings ==
  ASSUME NEW a \in Int, NEW b \in Int, NEW c \in Int, NEW g \in Int, NEW d \in Int, d > 0
  PROVE  /\ Round(a, d) + Round(b, d) + Round(c, d) + Round(g, d) - Round(a + b + c + g, d) <= 2
         /\ Round(a + b + c + g, d) - (Round(a, d) + Round(b, d) + Round(c, d) + Round(g, d)) <= 2
<1> DEFINE e == a + b + c + g
           p == Round(a, d)
           q == Round(b, d)
           r == Round(c, d)
           s == Round(g, d)
           t == Round(e, d)
           x == p + q + r + s - t
<1>1. e \in Int /\ e = a + b + c + g
  OBVIOUS
<1> HIDE DEF e
<1>2. p \in Int /\ 2 * (d * p) <= 2 * a + d /\ 2 * a + d < 2 * (d * p) + 2 * d
  BY RoundSpan
<1>3. q \in Int /\ 2 * (d * q) <= 2 * b + d /\ 2 * b + d < 2 * (d * q) + 2 * d
  BY RoundSpan
<1>4. r \in Int /\ 2 * (d * r) <= 2 * c + d /\ 2 * c + d < 2 * (d * r) + 2 * d
  BY RoundSpan
<1>5. s \in Int /\ 2 * (d * s) <= 2 * g + d /\ 2 * g + d < 2 * (d * s) + 2 * d
  BY RoundSpan
<1>6. t \in Int /\ 2 * (d * t) <= 2 * e + d /\ 2 * e + d < 2 * (d * t) + 2 * d
  BY <1>1, RoundSpan
<1> HIDE DEF p, q, r, s, t
<1>7. x \in Int /\ d * x = d * p + d * q + d * r + d * s - d * t
  BY <1>2, <1>3, <1>4, <1>5, <1>6
<1> DEFINE P == d * p
           Q == d * q
           R == d * r
           S == d * s
           T == d * t
           X == d * x
<1>8. P \in Int /\ Q \in Int /\ R \in Int /\ S \in Int /\ T \in Int /\ X \in Int
  BY <1>2, <1>3, <1>4, <1>5, <1>6, <1>7
<1>9. /\ 2 * P <= 2 * a + d /\ 2 * a + d < 2 * P + 2 * d
      /\ 2 * Q <= 2 * b + d /\ 2 * b + d < 2 * Q + 2 * d
      /\ 2 * R <= 2 * c + d /\ 2 * c + d < 2 * R + 2 * d
      /\ 2 * S <= 2 * g + d /\ 2 * g + d < 2 * S + 2 * d
      /\ 2 * T <= 2 * e + d /\ 2 * e + d < 2 * T + 2 * d
      /\ X = P + Q + R + S - T
  BY <1>2, <1>3, <1>4, <1>5, <1>6, <1>7
<1>10. x >= 3 => X >= d * 3
  BY <1>7, TimesMore
<1>11. -x >= 3 => -X >= d * 3
  <2> DEFINE y == -x
  <2>1. y \in Int /\ d * y = -X
    BY <1>7
  <2> HIDE DEF y
  <2>2. y >= 3 => d * y >= d * 3
    BY <2>1, TimesMore
  <2> QED BY <2>1, <2>2 DEF y
<1>12. X < d * 3 /\ -X < d * 3
  <2> HIDE DEF P, Q, R, S, T, X
  <2> QED BY <1>1, <1>8, <1>9
<1>13. ~(x >= 3) /\ ~(-x >= 3)
  <2> HIDE DEF x, X
  <2> QED BY <1>7, <1>8, <1>10, <1>11, <1>12
<1>14. x <= 2 /\ -x <= 2
  <2> HIDE DEF x
  <2> QED BY <1>7, <1>13
<1> QED BY <1>2, <1>3, <1>4, <1>5, <1>6, <1>14 DEF e, p, q, r, s, t

LEMMA RoundingsAgree ==
  ASSUME NEW a \in Int, NEW b \in Int, NEW c \in Int, NEW g \in Int, NEW d \in Int, d > 0,
         a + b + c + g >= 0, a + b + c + g <= 10000 * d
  PROVE  LET points == 22 * Round(a + b + c + g, d)
             steps == <<22 * Round(a, d), 22 * Round(b, d), 22 * Round(c, d), 22 * Round(g, d)>>
         IN  Agree(Steps(steps), Bounded(points, 22))
<1> DEFINE p == Round(a, d)
           q == Round(b, d)
           r == Round(c, d)
           s == Round(g, d)
           e == a + b + c + g
           t == Round(e, d)
           v == 22 * t
           points == Bounded(v, 22)
<1>1. p + q + r + s - t <= 2 /\ t - (p + q + r + s) <= 2
  BY FourRoundings
<1>2. p \in Int /\ q \in Int /\ r \in Int /\ s \in Int
  BY RoundInt
<1>3. e \in Nat /\ e <= 10000 * d /\ 10000 \in Nat
  OBVIOUS
<1> HIDE DEF p, q, r, s, e
<1>4. t \in Nat /\ t <= 10000
  BY <1>3, RoundBetween
<1> HIDE DEF t
<1>5. v \in Int /\ 0 <= v /\ v <= 10000 * 22 /\ 22 \in Nat
  BY <1>4
<1>6. points \in Nat /\ v - 100 * points <= 50 /\ 100 * points - v <= 50
  <2> HIDE DEF v
  <2> QED BY <1>5, BoundedOf
<1>7. Steps(<<22 * p, 22 * q, 22 * r, 22 * s>>) = 22 * p + 22 * q + 22 * r + 22 * s
  <2> DEFINE p2 == 22 * p
             q2 == 22 * q
             r2 == 22 * r
             s2 == 22 * s
  <2>1. p2 \in Int /\ q2 \in Int /\ r2 \in Int /\ s2 \in Int
    BY <1>2
  <2> HIDE DEF p2, q2, r2, s2
  <2>2. Steps(<<p2, q2, r2, s2>>) = p2 + q2 + r2 + s2
    BY <2>1, FourSteps
  <2> QED BY <2>2 DEF p2, q2, r2, s2
<1> DEFINE n == Steps(<<22 * p, 22 * q, 22 * r, 22 * s>>)
<1> HIDE DEF points, n
<1>8. Agree(n, points)
  BY <1>1, <1>2, <1>4, <1>6, <1>7 DEF Agree, n
<1> QED BY <1>8 DEF p, q, r, s, e, t, points, n

\* A competitor as it is enriched, and a list of competitors of different domains
Rival(c) ==
    /\ DOMAIN c = CompetitorFields
    /\ c.refs \in Int \cup {None} /\ c.relevance \in Int \cup {None}
    /\ c.local \in Int \cup {None} /\ IsFiniteSet(c.observations)
Rivals(cs) ==
    /\ \A i \in DOMAIN cs : Rival(cs[i])
    /\ \A i, j \in DOMAIN cs : cs[i].domain = cs[j].domain => i = j

LEMMA UniqueRivals ==
  ASSUME NEW cs, Rivals(cs)
  PROVE  /\ DOMAIN UniqueDomains(cs) = DOMAIN cs
         /\ \A i \in DOMAIN cs : Rival(UniqueDomains(cs)[i])
<1> DEFINE same(i) == {j \in DOMAIN cs : cs[j].domain = cs[i].domain}
           chosen == {i \in DOMAIN cs : \A j \in same(i) \ {i} :
                         \/ BetterPlaced(cs[i], cs[j])
                         \/ i < j /\ ~BetterPlaced(cs[j], cs[i])}
           all(i) == UNION {cs[j].observations : j \in same(i)}
<1>1. \A i \in DOMAIN cs : same(i) = {i}
  BY DEF Rivals
<1>2. chosen = DOMAIN cs
  BY <1>1
<1>3. UniqueDomains(cs) = [i \in chosen |-> [cs[i] EXCEPT !.observations = all(i)]]
  BY DEF UniqueDomains
<1>4. \A i \in DOMAIN cs : all(i) = cs[i].observations
  BY <1>1
<1> HIDE DEF same, chosen, all
<1>5. ASSUME NEW i \in DOMAIN cs PROVE Rival([cs[i] EXCEPT !.observations = all(i)])
  <2> DEFINE c == cs[i]
             x == all(i)
  <2>1. Rival(c) /\ x = c.observations
    BY <1>4 DEF Rivals
  <2> HIDE DEF c, x
  <2>2. Rival([c EXCEPT !.observations = x])
    BY <2>1 DEF Rival, CompetitorFields
  <2> QED BY <2>2 DEF c, x
<1> QED BY <1>2, <1>3, <1>5

LEMMA ClampInt ==
  ASSUME NEW v \in Int, NEW top \in Nat
  PROVE  Clamp(v, top) \in Nat /\ Clamp(v, top) <= top
BY DEF Clamp, Most, Least

LEMMA LinkInt ==
  ASSUME NEW refs \in Int \cup {None}
  PROVE  LinkWeakness(refs) \in Int
<1>1. CASE refs = None
  BY <1>1 DEF LinkWeakness
<1>2. CASE refs # None
  <2> DEFINE k == Clamp(refs - 35, 225)
             n == Unit * k
             r == Round(n, 225)
  <2>1. refs - 35 \in Int /\ 225 \in Nat
    BY <1>2
  <2>2. k \in Nat
    BY <2>1, ClampInt
  <2> HIDE DEF k
  <2>3. n \in Int /\ 225 \in Int /\ 225 > 0
    BY <2>2 DEF Unit
  <2> HIDE DEF n
  <2>4. r \in Int
    BY <2>3, RoundInt
  <2> HIDE DEF r
  <2>5. LinkWeakness(refs) = Unit - r
    BY <1>2 DEF LinkWeakness, k, n, r
  <2> QED BY <2>4, <2>5 DEF Unit
<1> QED BY <1>1, <1>2

LEMMA RelevanceInt ==
  ASSUME NEW c, Rival(c)
  PROVE  RelevanceDeduction(c) \in Int
<1> DEFINE service == IF c.relevance = None THEN Unit \div 2 ELSE Clamp(c.relevance, Unit)
           local == Clamp(OrZero(c.local), Unit)
           both == Round(service * local, Unit)
           n == 55 * service + 25 * local + 20 * both
           direct == Round(n, 100)
           m == 65 * direct
           part == Round(m, 100)
           link == LinkWeakness(c.refs)
           x == link * part
<1>1. c.refs \in Int \cup {None} /\ c.relevance \in Int \cup {None} /\ c.local \in Int \cup {None}
  BY DEF Rival
<1>2. service \in Int /\ local \in Int
  <2>1. Unit \in Nat /\ Unit \div 2 \in Int
    BY DEF Unit
  <2>2. OrZero(c.local) \in Int
    BY <1>1 DEF OrZero
  <2>3. local \in Int
    BY <2>1, <2>2, ClampInt
  <2>4. ASSUME c.relevance # None PROVE Clamp(c.relevance, Unit) \in Int
    <3>1. c.relevance \in Int
      BY <1>1, <2>4
    <3> DEFINE v == c.relevance
    <3> HIDE DEF v
    <3>2. Clamp(v, Unit) \in Nat
      BY <2>1, <3>1, ClampInt DEF v
    <3> DEFINE k == Clamp(v, Unit)
    <3> HIDE DEF k
    <3>3. k \in Int
      BY <3>2 DEF k
    <3> QED BY <3>3 DEF k, v
  <2> QED BY <2>1, <2>3, <2>4
<1>3. link \in Int
  BY <1>1, LinkInt
<1>4. RelevanceDeduction(c) = -Round(x, Unit)
  BY DEF RelevanceDeduction
<1> HIDE DEF service, local, link
<1>5. service * local \in Int /\ Unit \in Int /\ Unit > 0 /\ 100 \in Int /\ 100 > 0
  BY <1>2 DEF Unit
<1>6. both \in Int
  BY <1>5, RoundInt
<1> HIDE DEF both
<1>7. n \in Int
  BY <1>2, <1>6
<1> HIDE DEF n
<1>8. direct \in Int
  BY <1>5, <1>7, RoundInt
<1> HIDE DEF direct
<1>9. m \in Int
  BY <1>8
<1> HIDE DEF m
<1>10. part \in Int
  BY <1>5, <1>9, RoundInt
<1> HIDE DEF part
<1>11. x \in Int
  BY <1>3, <1>10
<1> HIDE DEF x
<1>12. Round(x, Unit) \in Int
  BY <1>5, <1>11, RoundInt
<1> QED BY <1>4, <1>12

LEMMA ArchetypeInt ==
  ASSUME NEW a
  PROVE  ArchetypeAdjustment(a) \in Int
BY DEF ArchetypeAdjustment

LEMMA PositionMore ==
  ASSUME NEW position
  PROVE  CompetitorPositionWeight(position) \in Int /\ CompetitorPositionWeight(position) >= 18
<1> DEFINE D == DOMAIN PositionWeight
           f == PositionWeight
           S == {f[i] : i \in D}
<1>1. D = 1..10 /\ \A i \in D : f[i] \in Int /\ f[i] >= 18
  BY DEF PositionWeight
<1>2. ToSet(PositionWeight) = S
  BY DEF ToSet
<1>3. IsFiniteSet(D)
  <2>1. 1 \in Int /\ 10 \in Int
    OBVIOUS
  <2> HIDE DEF D
  <2> QED BY <1>1, <2>1, FS_Interval
<1>4. 1 \in D
  BY <1>1
<1> HIDE DEF f, D
<1>5. IsFiniteSet(S)
  BY <1>3, ImageFinite
<1>6. S \in SUBSET Int /\ S # {} /\ \A y \in S : y >= 18
  BY <1>1, <1>4
<1> HIDE DEF S
<1>7. Min(S) \in S
  BY <1>5, <1>6, MinOf
<1>8. CompetitorPositionWeight(position) = IF position \in D THEN f[position] ELSE Min(S)
  BY <1>2 DEF CompetitorPositionWeight, D, f
<1> QED BY <1>1, <1>6, <1>7, <1>8

LEMMA QueriesFinite ==
  ASSUME NEW cs, IsFiniteSet(DOMAIN cs), \A i \in DOMAIN cs : Rival(cs[i])
  PROVE  IsFiniteSet(Queries(cs))
<1> DEFINE D == DOMAIN cs
           ask == [i \in D |-> {o.query : o \in cs[i].observations}]
           all == {ask[i] : i \in D}
<1>1. ASSUME NEW i \in D PROVE IsFiniteSet(ask[i])
  <2> DEFINE T == cs[i].observations
             g == [o \in T |-> o.query]
  <2>1. IsFiniteSet(T)
    BY DEF Rival
  <2>2. ask[i] = {g[o] : o \in T}
    OBVIOUS
  <2> HIDE DEF T, g, ask
  <2> QED BY <2>1, <2>2, ImageFinite
<1>2. Queries(cs) = UNION all
  BY DEF Queries
<1> HIDE DEF D, ask
<1>3. IsFiniteSet(all)
  BY ImageFinite DEF D
<1>4. \A T \in all : IsFiniteSet(T)
  BY <1>1
<1> HIDE DEF all
<1> QED BY <1>2, <1>3, <1>4, FS_UNION

\* A competitor weighs something
LEMMA ExposureMore ==
  ASSUME NEW c, Rival(c), NEW queries, IsFiniteSet(queries), NEW ms \in Seq(Metric)
  PROVE  Exposure(c, queries, ms) \in Int /\ Exposure(c, queries, ms) >= 1
<1> DEFINE T == c.observations
           kw(o) == KeywordWeight(o.query, queries, ms)
           pw(o) == CompetitorPositionWeight(o.position)
           f == [o \in T |-> Round(kw(o) * pw(o), 100)]
<1>1. IsFiniteSet(T)
  BY DEF Rival
<1>2. Exposure(c, queries, ms) = IF T = {} THEN Unit ELSE SumFunctionOnSet(f, T)
  BY DEF Exposure, SumOver
<1>3. ASSUME NEW o \in T PROVE f[o] \in Nat /\ f[o] \in Int /\ f[o] >= 1
  <2> DEFINE a == kw(o)
             b == pw(o)
             x == a * b
             r == Round(x, 100)
  <2>1. a \in Int /\ a >= 2500
    BY KeywordWeightInt
  <2>2. b \in Int /\ b >= 18
    BY PositionMore
  <2>3. f[o] = r
    OBVIOUS
  <2> HIDE DEF a, b, r
  <2>4. x \in Int /\ x >= 18 * a
    <3>1. a * b >= a * 18
      BY <2>1, <2>2, TimesMore
    <3> QED BY <2>1, <2>2, <3>1
  <2> HIDE DEF x
  <2>5. r \in Int /\ 2 * x + 100 < 2 * (100 * r) + 2 * 100
    <3>1. 100 \in Int /\ 100 > 0
      OBVIOUS
    <3> QED BY <2>4, <3>1, RoundSpan DEF r
  <2>6. r >= 1
    BY <2>1, <2>4, <2>5
  <2> HIDE DEF f
  <2> QED BY <2>3, <2>5, <2>6
<1> HIDE DEF f, T
<1>4. ASSUME NEW o \in T PROVE SumFunctionOnSet(f, T) \in Int /\ SumFunctionOnSet(f, T) >= 1
  <2>1. /\ SumFunctionOnSet(f, T) = f[o] + SumFunctionOnSet(f, T \ {o})
        /\ SumFunctionOnSet(f, T) \in Int
    BY <1>1, <1>3, SumStep
  <2>2. IsFiniteSet(T \ {o})
    BY <1>1, FS_RemoveElement
  <2>3. SumFunctionOnSet(f, T \ {o}) \in Nat
    BY <1>3, <2>2, SumNat
  <2>4. f[o] \in Int /\ f[o] >= 1
    BY <1>3
  <2> QED BY <2>1, <2>3, <2>4
<1> QED BY <1>2, <1>4 DEF Unit

\* A weighted sum of values of at most a unit
LEMMA WeightedBelow ==
  ASSUME NEW D, IsFiniteSet(D), NEW e, NEW w, NEW k,
         \A i \in D : /\ w[i] \in Nat /\ e[i] \in Nat /\ e[i] <= 10000
                      /\ k[i] = e[i] * w[i]
  PROVE  /\ SumFunctionOnSet(k, D) \in Nat
         /\ SumFunctionOnSet(k, D) <= 10000 * SumFunctionOnSet(w, D)
<1> DEFINE h == [i \in D |-> 10000 * w[i]]
<1>1. ASSUME NEW i \in D
      PROVE  k[i] \in Nat /\ k[i] \in Int /\ h[i] \in Int /\ k[i] <= h[i] /\ w[i] \in Int
             /\ h[i] = 10000 * w[i]
  <2> DEFINE x == e[i]
             y == w[i]
  <2>1. x \in Nat /\ y \in Nat /\ x <= 10000 /\ k[i] = x * y /\ h[i] = 10000 * y
    OBVIOUS
  <2> HIDE DEF x, h
  <2>2. y \in Int
    BY <2>1
  <2>3. x * y \in Nat /\ x * y <= 10000 * y
    <3> HIDE DEF y
    <3>1. x * y \in Nat
      BY <2>1
    <3>2. CASE y = 0
      BY <2>1, <3>2
    <3>3. CASE y > 0
      <4>1. 10000 \in Int /\ x \in Int /\ y \in Int /\ 10000 >= x
        BY <2>1
      <4>2. y * 10000 >= y * x
        BY <3>3, <4>1, TimesMore
      <4>3. y * x = x * y /\ y * 10000 = 10000 * y
        BY <4>1
      <4> DEFINE xy == x * y
                 yx == y * x
      <4>4. xy \in Int /\ yx \in Int
        BY <4>1
      <4> HIDE DEF xy, yx
      <4>5. xy <= 10000 * y
        BY <4>1, <4>2, <4>3, <4>4 DEF xy, yx
      <4> QED BY <3>1, <4>5 DEF xy
    <3> QED BY <2>1, <3>2, <3>3
  <2>4. w[i] \in Int /\ h[i] = 10000 * w[i]
    BY <2>1, <2>2
  <2>5. k[i] \in Nat /\ k[i] <= h[i] /\ h[i] \in Int
    <3> HIDE DEF y
    <3> QED BY <2>1, <2>3
  <2> QED BY <2>4, <2>5
<1> HIDE DEF h
<1>2. SumFunctionOnSet(k, D) \in Nat
  BY <1>1, SumNat
<1>3. SumFunctionOnSet(k, D) <= SumFunctionOnSet(h, D)
  BY <1>1, SumMono
<1>4. SumFunctionOnSet(h, D) = 10000 * SumFunctionOnSet(w, D)
  <2>1. 10000 \in Int
    OBVIOUS
  <2> QED BY <1>1, <2>1, SumTimes
<1> QED BY <1>2, <1>3, <1>4

\* The parts of a competitor's weakness: whole numbers that add up to a share of a unit
LEMMA WeaknessParts ==
  ASSUME NEW c, Rival(c)
  PROVE  LET a == LinkWeakness(c.refs)
             b == RelevanceDeduction(c)
             r == ArchetypeAdjustment(c.archetype)
             e == Clamp(RawWeakness(c), Unit)
             g == e - RawWeakness(c)
         IN  /\ a \in Int /\ b \in Int /\ r \in Int /\ g \in Int
             /\ e \in Nat /\ e <= 10000 /\ e = a + b + r + g
<1> DEFINE a == LinkWeakness(c.refs)
           b == RelevanceDeduction(c)
           r == ArchetypeAdjustment(c.archetype)
           raw == RawWeakness(c)
           e == Clamp(raw, Unit)
<1>1. a \in Int /\ b \in Int /\ r \in Int
  <2>1. a \in Int
    BY LinkInt DEF Rival
  <2>2. b \in Int
    BY RelevanceInt
  <2>3. r \in Int
    BY ArchetypeInt
  <2> QED BY <2>1, <2>2, <2>3
<1>2. raw = a + b + r
  BY DEF RawWeakness
<1> HIDE DEF a, b, r, raw
<1>3. raw \in Int /\ Unit \in Nat /\ Unit = 10000
  BY <1>1, <1>2 DEF Unit
<1>4. e \in Nat /\ e <= Unit
  BY <1>3, ClampInt
<1> HIDE DEF e
<1>5. e - raw \in Int /\ e \in Nat /\ e <= 10000 /\ e = a + b + r + (e - raw)
  BY <1>1, <1>2, <1>3, <1>4
<1> QED BY <1>1, <1>5 DEF a, b, r, raw, e

LEMMA OneStep == Steps(<<0>>) = 0
<1> DEFINE s == <<0>>
<1>1. DOMAIN s = 1..1 /\ \A i \in 1..1 : s[i] \in Int
  OBVIOUS
<1>2. s[1] = 0 /\ 1 \in Nat /\ 1 \in 1..1 /\ 1 - 1 = 0
  OBVIOUS
<1> HIDE DEF s
<1>3. /\ Steps(s) = SumFunctionOnSet(s, 1..1)
      /\ SumFunctionOnSet(s, 1..1) = s[1] + SumFunctionOnSet(s, 1..(1 - 1))
      /\ SumFunctionOnSet(s, 1..0) = 0
  BY <1>1, <1>2, StepsOf
<1>4. Steps(s) = 0
  BY <1>2, <1>3
<1> QED BY <1>4 DEF s

LEMMA WeightsPositive ==
  ASSUME NEW D, IsFiniteSet(D), NEW w, \A i \in D : w[i] \in Int /\ w[i] >= 1, NEW j \in D
  PROVE  SumFunctionOnSet(w, D) \in Int /\ SumFunctionOnSet(w, D) > 0
<1>1. /\ SumFunctionOnSet(w, D) = w[j] + SumFunctionOnSet(w, D \ {j})
      /\ SumFunctionOnSet(w, D) \in Int
  BY SumStep
<1>2. IsFiniteSet(D \ {j})
  BY FS_RemoveElement
<1>3. \A i \in D \ {j} : w[i] \in Nat
  OBVIOUS
<1>4. SumFunctionOnSet(w, D \ {j}) \in Nat
  BY <1>2, <1>3, SumNat
<1> QED BY <1>1, <1>4

\* The trace of the means of four values agrees with the mean of their sum
Mean22(f, w, D) == 22 * Round(SumFunctionOnSet(f, D), SumFunctionOnSet(w, D))
Weighted(D, w, a, b, r, g, e, fa, fb, fr, fg, fe) ==
    \A i \in D : /\ w[i] \in Int /\ w[i] >= 1
                 /\ a[i] \in Int /\ b[i] \in Int /\ r[i] \in Int /\ g[i] \in Int
                 /\ e[i] \in Nat /\ e[i] <= 10000 /\ e[i] = a[i] + b[i] + r[i] + g[i]
                 /\ fa[i] = a[i] * w[i] /\ fb[i] = b[i] * w[i] /\ fr[i] = r[i] * w[i]
                 /\ fg[i] = g[i] * w[i] /\ fe[i] = e[i] * w[i]

LEMMA MeansAgree ==
  ASSUME NEW D, IsFiniteSet(D), D # {}, NEW w, NEW a, NEW b, NEW r, NEW g, NEW e,
         NEW fa, NEW fb, NEW fr, NEW fg, NEW fe,
         Weighted(D, w, a, b, r, g, e, fa, fb, fr, fg, fe)
  PROVE  /\ Agree(Steps(<<Mean22(fa, w, D), Mean22(fb, w, D), Mean22(fr, w, D), Mean22(fg, w, D)>>),
                  Bounded(Mean22(fe, w, D), 22))
         /\ Bounded(Mean22(fe, w, D), 22) \in Nat /\ Bounded(Mean22(fe, w, D), 22) <= 2200
<1>a. PICK j \in D : TRUE
  OBVIOUS
<1> USE DEF Weighted
<1> DEFINE k == [i \in D |-> fa[i] + fb[i]]
           h == [i \in D |-> k[i] + fr[i]]
           A == SumFunctionOnSet(fa, D)
           B == SumFunctionOnSet(fb, D)
           R == SumFunctionOnSet(fr, D)
           G == SumFunctionOnSet(fg, D)
           E == SumFunctionOnSet(fe, D)
           W == SumFunctionOnSet(w, D)
<1>1. ASSUME NEW i \in D
      PROVE  /\ fa[i] \in Int /\ fb[i] \in Int /\ fr[i] \in Int /\ fg[i] \in Int
             /\ fe[i] = fa[i] + fb[i] + fr[i] + fg[i]
  <2> DEFINE a1 == a[i]
             b1 == b[i]
             r1 == r[i]
             g1 == g[i]
             w1 == w[i]
             e1 == e[i]
  <2>1. /\ w1 \in Int /\ a1 \in Int /\ b1 \in Int /\ r1 \in Int /\ g1 \in Int
        /\ e1 = a1 + b1 + r1 + g1
        /\ fa[i] = a1 * w1 /\ fb[i] = b1 * w1 /\ fr[i] = r1 * w1
        /\ fg[i] = g1 * w1 /\ fe[i] = e1 * w1
    OBVIOUS
  <2> HIDE DEF a1, b1, r1, g1, w1, e1
  <2>2. a1 * w1 \in Int /\ b1 * w1 \in Int /\ r1 * w1 \in Int /\ g1 * w1 \in Int
    BY <2>1
  <2>3. (a1 + b1 + r1 + g1) * w1 = a1 * w1 + b1 * w1 + r1 * w1 + g1 * w1
    BY <2>1
  <2> QED BY <2>1, <2>2, <2>3
<1>2. \A i \in D : /\ k[i] = fa[i] + fb[i] /\ h[i] = k[i] + fr[i]
                   /\ k[i] \in Int /\ h[i] \in Int /\ fe[i] = h[i] + fg[i]
  BY <1>1
<1> HIDE DEF k, h
<1>3. SumFunctionOnSet(k, D) = A + B
  BY <1>1, <1>2, SumPlus
<1>4. SumFunctionOnSet(h, D) = SumFunctionOnSet(k, D) + R
  BY <1>1, <1>2, SumPlus
<1>5. E = SumFunctionOnSet(h, D) + G
  BY <1>1, <1>2, SumPlus
<1>6. A \in Int /\ B \in Int /\ R \in Int /\ G \in Int
  BY <1>1, SumStep
<1>7. W \in Int /\ W > 0
  <2>1. \A i \in D : w[i] \in Int /\ w[i] >= 1
    OBVIOUS
  <2> QED BY ONLY IsFiniteSet(D), j \in D, <2>1, WeightsPositive
<1>8. E \in Nat /\ E <= 10000 * W
  <2>1. \A i \in D : /\ w[i] \in Nat /\ e[i] \in Nat /\ e[i] <= 10000 /\ fe[i] = e[i] * w[i]
    OBVIOUS
  <2> QED BY ONLY IsFiniteSet(D), <2>1, WeightedBelow
<1> DEFINE K == SumFunctionOnSet(k, D)
           H == SumFunctionOnSet(h, D)
<1> HIDE DEF A, B, R, G, E, W, K, H
<1>9. E = A + B + R + G
  BY <1>3, <1>4, <1>5, <1>6 DEF K, H
<1>10. Agree(Steps(<<22 * Round(A, W), 22 * Round(B, W), 22 * Round(R, W), 22 * Round(G, W)>>),
             Bounded(22 * Round(A + B + R + G, W), 22))
  <2>1. A + B + R + G >= 0 /\ A + B + R + G <= 10000 * W
    BY <1>6, <1>7, <1>8, <1>9
  <2> QED BY <1>6, <1>7, <2>1, RoundingsAgree
<1>11. Bounded(22 * Round(E, W), 22) \in Nat /\ Bounded(22 * Round(E, W), 22) <= 2200
  <2> DEFINE n == 22 * Round(E, W)
  <2>1. Round(E, W) \in Int
    BY <1>7, <1>8, RoundInt
  <2>2. n \in Int /\ 22 \in Nat
    BY <2>1
  <2> HIDE DEF n
  <2>3. Bounded(n, 22) \in Nat /\ Bounded(n, 22) <= 100 * 22
    BY <2>2, BoundedOf
  <2> QED BY <2>3 DEF n
<1> QED BY <1>9, <1>10, <1>11 DEF A, B, R, G, E, W, Mean22

LEMMA CompetitorAgrees ==
  ASSUME NEW cs, Listed(cs), Rivals(cs), NEW ms \in Seq(Metric)
  PROVE  /\ Agree(Steps(CompetitorSteps(cs, ms)), CompetitorWeakness(cs, ms))
         /\ CompetitorWeakness(cs, ms) \in Nat /\ CompetitorWeakness(cs, ms) <= 2200
<1>1. CASE cs = <<>>
  <2>1. CompetitorSteps(cs, ms) = <<0>> /\ CompetitorWeakness(cs, ms) = 0
    BY <1>1 DEF CompetitorSteps, CompetitorWeakness
  <2>2. Agree(0, 0) /\ 0 \in Nat /\ 0 <= 2200
    BY DEF Agree
  <2> QED BY <2>1, <2>2, OneStep
<1>2. CASE cs # <<>>
  <2> DEFINE U == UniqueDomains(cs)
             D == DOMAIN U
             q == Queries(U)
             w == [i \in D |-> Exposure(U[i], q, ms)]
             a == [i \in D |-> LinkWeakness(U[i].refs)]
             b == [i \in D |-> RelevanceDeduction(U[i])]
             r == [i \in D |-> ArchetypeAdjustment(U[i].archetype)]
             e == [i \in D |-> Clamp(RawWeakness(U[i]), Unit)]
             g == [i \in D |-> e[i] - RawWeakness(U[i])]
             fa == [i \in D |-> LinkWeakness(U[i].refs) * Exposure(U[i], q, ms)]
             fb == [i \in D |-> RelevanceDeduction(U[i]) * Exposure(U[i], q, ms)]
             fr == [i \in D |-> ArchetypeAdjustment(U[i].archetype) * Exposure(U[i], q, ms)]
             fe == [i \in D |-> Clamp(RawWeakness(U[i]), Unit) * Exposure(U[i], q, ms)]
             fg == [i \in D |-> (Clamp(RawWeakness(U[i]), Unit) - RawWeakness(U[i]))
                                  * Exposure(U[i], q, ms)]
             mean(f) == Mean22(f, w, D)
  <2>1. /\ CompetitorSteps(cs, ms) =
             << ExposureMean(U, ms, LAMBDA c : LinkWeakness(c.refs)),
                ExposureMean(U, ms, RelevanceDeduction),
                ExposureMean(U, ms, LAMBDA c : ArchetypeAdjustment(c.archetype)),
                ExposureMean(U, ms, LAMBDA c : Clamp(RawWeakness(c), Unit) - RawWeakness(c)) >>
        /\ CompetitorWeakness(cs, ms) =
             Bounded(ExposureMean(U, ms, LAMBDA c : Clamp(RawWeakness(c), Unit)), 22)
    BY <1>2 DEF CompetitorSteps, CompetitorWeakness, Weights
  <2>2. D = DOMAIN cs /\ \A i \in D : Rival(U[i])
    BY UniqueRivals
  <2>3. IsFiniteSet(D) /\ 1 \in D
    <3>1. Len(cs) \in Nat /\ DOMAIN cs = 1..Len(cs)
      BY LenProperties DEF Listed
    <3>2. IsFiniteSet(1..Len(cs))
      BY <3>1, FS_Interval
    <3>3. Len(cs) # 0
      BY <1>2, EmptySeq DEF Listed
    <3> HIDE DEF D
    <3> QED BY <2>2, <3>1, <3>2, <3>3
  <2> HIDE DEF U
  <2>4. ExposureMean(U, ms, LAMBDA c : LinkWeakness(c.refs)) = mean(fa)
    BY DEF ExposureMean, SumOver, Weights, Mean22
  <2>5. ExposureMean(U, ms, RelevanceDeduction) = mean(fb)
    BY DEF ExposureMean, SumOver, Weights, Mean22
  <2>6. ExposureMean(U, ms, LAMBDA c : ArchetypeAdjustment(c.archetype)) = mean(fr)
    BY DEF ExposureMean, SumOver, Weights, Mean22
  <2>7. ExposureMean(U, ms, LAMBDA c : Clamp(RawWeakness(c), Unit) - RawWeakness(c)) = mean(fg)
    BY DEF ExposureMean, SumOver, Weights, Mean22
  <2>8. ExposureMean(U, ms, LAMBDA c : Clamp(RawWeakness(c), Unit)) = mean(fe)
    BY DEF ExposureMean, SumOver, Weights, Mean22
  <2>9. IsFiniteSet(q)
    BY <2>2, <2>3, QueriesFinite
  <2>10. ASSUME NEW i \in D
         PROVE  /\ w[i] \in Int /\ w[i] >= 1
                /\ a[i] \in Int /\ b[i] \in Int /\ r[i] \in Int /\ g[i] \in Int
                /\ e[i] \in Nat /\ e[i] <= 10000 /\ e[i] = a[i] + b[i] + r[i] + g[i]
                /\ fa[i] = a[i] * w[i] /\ fb[i] = b[i] * w[i] /\ fr[i] = r[i] * w[i]
                /\ fg[i] = g[i] * w[i] /\ fe[i] = e[i] * w[i]
    <3>1. Rival(U[i])
      BY <2>2
    <3>2. w[i] \in Int /\ w[i] >= 1
      <4> HIDE DEF q
      <4> QED BY <2>9, <3>1, ExposureMore
    <3>3. /\ a[i] \in Int /\ b[i] \in Int /\ r[i] \in Int /\ g[i] \in Int
          /\ e[i] \in Nat /\ e[i] <= 10000 /\ e[i] = a[i] + b[i] + r[i] + g[i]
      BY <3>1, WeaknessParts
    <3>4. /\ fa[i] = a[i] * w[i] /\ fb[i] = b[i] * w[i] /\ fr[i] = r[i] * w[i]
          /\ fg[i] = g[i] * w[i] /\ fe[i] = e[i] * w[i]
      OBVIOUS
    <3> HIDE DEF w, a, b, r, e, g, fa, fb, fr, fe, fg, D
    <3> QED BY <3>2, <3>3, <3>4
  <2> HIDE DEF w, a, b, r, e, g, fa, fb, fr, fe, fg, D
  <2>11. Weighted(D, w, a, b, r, g, e, fa, fb, fr, fg, fe)
    BY <2>10 DEF Weighted
  <2>12. /\ Agree(Steps(<<mean(fa), mean(fb), mean(fr), mean(fg)>>), Bounded(mean(fe), 22))
         /\ Bounded(mean(fe), 22) \in Nat /\ Bounded(mean(fe), 22) <= 2200
    BY ONLY <2>3, <2>11, MeansAgree
  <2> HIDE DEF mean
  <2>13. /\ CompetitorSteps(cs, ms) = <<mean(fa), mean(fb), mean(fr), mean(fg)>>
         /\ CompetitorWeakness(cs, ms) = Bounded(mean(fe), 22)
    BY <2>1, <2>4, <2>5, <2>6, <2>7, <2>8
  <2> QED BY <2>12, <2>13
<1> QED BY <1>1, <1>2

---------------------------------------------------------------------------
(* Organic click availability: the displaced shares never use up the allowance *)

\* The sum over two disjoint sets
LEMMA SumUnion ==
  ASSUME NEW f, NEW A, NEW B, IsFiniteSet(A), IsFiniteSet(B), A \cap B = {},
         \A x \in A \cup B : f[x] \in Int
  PROVE  SumFunctionOnSet(f, A \cup B) = SumFunctionOnSet(f, A) + SumFunctionOnSet(f, B)
<1> DEFINE P == {T \in SUBSET B : SumFunctionOnSet(f, A \cup T) =
                                    SumFunctionOnSet(f, A) + SumFunctionOnSet(f, T)}
<1>1. SumFunctionOnSet(f, A) \in Int
  BY SumStep
<1>2. ASSUME NEW T \in SUBSET B, \A x \in T : T \ {x} \in P PROVE T \in P
  <2>1. CASE T = {}
    <3>1. A \cup T = A /\ SumFunctionOnSet(f, T) = 0
      BY <2>1, SumEmpty
    <3> DEFINE U == A \cup T
    <3> HIDE DEF U
    <3>2. U = A
      BY <3>1 DEF U
    <3>3. SumFunctionOnSet(f, U) = SumFunctionOnSet(f, A) + SumFunctionOnSet(f, T)
      BY <1>1, <3>1, <3>2
    <3> QED BY <3>3 DEF U
  <2>2. CASE T # {}
    <3>1. PICK x \in T : TRUE
      BY <2>2
    <3> DEFINE R == T \ {x}
    <3>2. IsFiniteSet(T)
      BY FS_Subset
    <3>3. IsFiniteSet(R) /\ \A y \in R : f[y] \in Int
      BY <3>2, FS_RemoveElement
    <3>4. IsFiniteSet(A \cup T)
      BY <3>2, FS_Union
    <3>5. (A \cup T) \ {x} = A \cup R
      OBVIOUS
    <3>6. SumFunctionOnSet(f, A \cup T) = f[x] + SumFunctionOnSet(f, (A \cup T) \ {x})
      <4>1. x \in A \cup T /\ \A y \in A \cup T : f[y] \in Int
        OBVIOUS
      <4> QED BY <3>4, <4>1, SumStep
    <3>7. SumFunctionOnSet(f, T) = f[x] + SumFunctionOnSet(f, R)
      <4>1. \A y \in T : f[y] \in Int
        OBVIOUS
      <4> QED BY <3>1, <3>2, <4>1, SumStep
    <3>8. SumFunctionOnSet(f, A \cup R) = SumFunctionOnSet(f, A) + SumFunctionOnSet(f, R)
      BY <1>2, <3>1
    <3> HIDE DEF R
    <3>9. SumFunctionOnSet(f, R) \in Int /\ f[x] \in Int
      BY <3>3, SumStep
    <3> DEFINE U == A \cup T
               V == A \cup R
               W == U \ {x}
    <3>10. W = V /\ SumFunctionOnSet(f, U) = f[x] + SumFunctionOnSet(f, W)
           /\ SumFunctionOnSet(f, V) = SumFunctionOnSet(f, A) + SumFunctionOnSet(f, R)
      BY <3>5, <3>6, <3>8
    <3> HIDE DEF U, V, W
    <3>11. SumFunctionOnSet(f, U) = SumFunctionOnSet(f, A) + SumFunctionOnSet(f, T)
      BY <1>1, <3>7, <3>9, <3>10
    <3> QED BY <3>11 DEF U
  <2> QED BY <2>1, <2>2
<1>3. B \in P
  <2> HIDE DEF P
  <2> QED BY <1>2, SubsetInduction
<1> QED BY <1>3

\* A sum of zeros, and a sum that is zero outside a part
LEMMA SumZero ==
  ASSUME NEW f, NEW S, IsFiniteSet(S), \A x \in S : f[x] = 0
  PROVE  SumFunctionOnSet(f, S) = 0
<1>1. 0 \in Int /\ \A x \in S : f[x] \in Int /\ f[x] <= 0 /\ f[x] \in Nat
  OBVIOUS
<1>2. SumFunctionOnSet(f, S) <= 0 * Cardinality(S)
  BY <1>1, SumBelow
<1>3. SumFunctionOnSet(f, S) \in Nat
  BY <1>1, SumNat
<1>4. Cardinality(S) \in Nat
  BY FS_CardinalityType
<1> QED BY <1>2, <1>3, <1>4

LEMMA SumPart ==
  ASSUME NEW f, NEW S, IsFiniteSet(S), NEW T \in SUBSET S,
         \A x \in S : f[x] \in Int, \A x \in S \ T : f[x] = 0
  PROVE  SumFunctionOnSet(f, S) = SumFunctionOnSet(f, T)
<1> DEFINE R == S \ T
<1>1. S = T \cup R /\ T \cap R = {} /\ R \in SUBSET S
  OBVIOUS
<1>2. IsFiniteSet(T) /\ IsFiniteSet(R)
  BY <1>1, FS_Subset
<1>3. \A x \in R : f[x] = 0
  OBVIOUS
<1> HIDE DEF R
<1>4. SumFunctionOnSet(f, R) = 0
  BY <1>2, <1>3, SumZero
<1>5. SumFunctionOnSet(f, T \cup R) = SumFunctionOnSet(f, T) + SumFunctionOnSet(f, R)
  BY <1>1, <1>2, SumUnion
<1>6. SumFunctionOnSet(f, T) \in Int
  BY <1>2, SumStep
<1> QED BY <1>1, <1>4, <1>5, <1>6

\* One more class holds what the others leave it
LEMMA PlacesAdd ==
  ASSUME NEW s \in Snapshots, NEW C, NEW c, c \notin C
  PROVE  Places(C \cup {c}, s) = Places(C, s) + Places({c}, s)
<1> DEFINE A == InClasses(C, s)
           B == InClasses({c}, s)
           f == [r \in A \cup B |-> PositionWeight[r.order]]
           a == [r \in A |-> PositionWeight[r.order]]
           b == [r \in B |-> PositionWeight[r.order]]
<1>1. InClasses(C \cup {c}, s) = A \cup B /\ A \cap B = {}
  BY DEF InClasses
<1>2. /\ IsFiniteSet(A) /\ IsFiniteSet(B)
      /\ \A r \in A : PositionWeight[r.order] \in Nat
      /\ \A r \in B : PositionWeight[r.order] \in Nat
  BY PlacesOf
<1>3. Places(C \cup {c}, s) = SumFunctionOnSet(f, A \cup B)
  BY <1>1 DEF Places
<1>4. Places(C, s) = SumFunctionOnSet(a, A) /\ Places({c}, s) = SumFunctionOnSet(b, B)
  BY DEF Places
<1>5. /\ \A r \in A \cup B : f[r] \in Int
      /\ \A r \in A : a[r] \in Int /\ a[r] = f[r]
      /\ \A r \in B : b[r] \in Int /\ b[r] = f[r]
  <2> HIDE DEF A, B
  <2> QED BY <1>2
<1> HIDE DEF A, B, f, a, b
<1>6. SumFunctionOnSet(f, A \cup B) = SumFunctionOnSet(f, A) + SumFunctionOnSet(f, B)
  BY <1>1, <1>2, <1>5, SumUnion
<1>7. SumFunctionOnSet(a, A) = SumFunctionOnSet(f, A)
  BY <1>2, <1>5, SumEqual
<1>8. SumFunctionOnSet(b, B) = SumFunctionOnSet(f, B)
  BY <1>2, <1>5, SumEqual
<1> QED BY <1>3, <1>4, <1>6, <1>7, <1>8

LEMMA HeldAdd ==
  ASSUME NEW ms \in Seq(Metric), NEW ss \in Seq(Snapshots), ss # <<>>, NEW C, NEW c, c \notin C
  PROVE  HeldBy(C \cup {c}, ss, ms) = HeldBy(C, ss, ms) + HeldBy({c}, ss, ms)
<1> DEFINE D == DOMAIN ss
           w == SerpWeights(ss, ms)
           k == HeldPart(C \cup {c}, ss, ms)
           f == HeldPart(C, ss, ms)
           h == HeldPart({c}, ss, ms)
<1>1. IsFiniteSet(D) /\ \A i \in D : w[i] \in Int
  BY SerpsWeigh
<1>2. ASSUME NEW i \in D PROVE f[i] \in Int /\ h[i] \in Int /\ k[i] = f[i] + h[i]
  <2> DEFINE x == Places(C, ss[i])
             y == Places({c}, ss[i])
             z == Places(C \cup {c}, ss[i])
             v == w[i]
  <2>1. ss[i] \in Snapshots
    BY LenProperties, ElementOfSeq
  <2>2. x \in Nat /\ y \in Nat
    BY <2>1, PlacesOf
  <2>3. z = x + y
    BY <2>1, PlacesAdd
  <2>4. k[i] = v * z /\ f[i] = v * x /\ h[i] = v * y /\ v \in Int
    BY <1>1 DEF HeldPart
  <2> HIDE DEF x, y, z, v, k, f, h
  <2>5. v * x \in Int /\ v * y \in Int /\ v * (x + y) = v * x + v * y
    BY <2>2, <2>4
  <2> QED BY <2>3, <2>4, <2>5
<1> HIDE DEF k, f, h, w
<1>3. SumFunctionOnSet(k, D) = SumFunctionOnSet(f, D) + SumFunctionOnSet(h, D)
  <2> HIDE DEF D
  <2> QED BY <1>1, <1>2, SumPlus
<1> QED BY <1>3 DEF HeldBy, k, f, h

LEMMA HeldNone ==
  ASSUME NEW ms \in Seq(Metric), NEW ss \in Seq(Snapshots)
  PROVE  HeldBy({}, ss, ms) = 0
<1> DEFINE D == DOMAIN ss
           f == HeldPart({}, ss, ms)
<1>1. IsFiniteSet(D) /\ \A i \in D : SerpWeights(ss, ms)[i] \in Int
  BY SerpsWeigh
<1>2. ASSUME NEW i \in D PROVE f[i] = 0
  <2>1. InClasses({}, ss[i]) = {}
    BY DEF InClasses
  <2>2. Places({}, ss[i]) = 0
    BY <2>1, SumEmpty DEF Places
  <2>3. f[i] = SerpWeights(ss, ms)[i] * 0
    BY <2>2 DEF HeldPart
  <2> QED BY <1>1, <2>3
<1> HIDE DEF f, D
<1>3. SumFunctionOnSet(f, D) = 0
  BY <1>1, <1>2, SumZero
<1> QED BY <1>3 DEF HeldBy, f, D

\* The classes together hold what their results do
LEMMA HeldSum ==
  ASSUME NEW ms \in Seq(Metric), NEW ss \in Seq(Snapshots), ss # <<>>,
         NEW K, IsFiniteSet(K), NEW held, \A c \in K : held[c] = HeldBy({c}, ss, ms)
  PROVE  SumFunctionOnSet(held, K) = HeldBy(K, ss, ms)
<1> DEFINE P == {T \in SUBSET K : SumFunctionOnSet(held, T) = HeldBy(T, ss, ms)}
<1>1. ASSUME NEW c \in K PROVE held[c] \in Int
  <2>1. HeldBy({c}, ss, ms) \in Nat
    BY HeldBelow
  <2> DEFINE n == HeldBy({c}, ss, ms)
  <2>2. held[c] = n /\ n \in Nat
    BY <2>1
  <2> HIDE DEF n
  <2> QED BY <2>2
<1>2. ASSUME NEW T \in SUBSET K, \A x \in T : T \ {x} \in P PROVE T \in P
  <2>1. CASE T = {}
    <3>1. SumFunctionOnSet(held, T) = 0 /\ HeldBy(T, ss, ms) = 0
      BY <2>1, SumEmpty, HeldNone
    <3> QED BY <3>1
  <2>2. CASE T # {}
    <3>1. PICK x \in T : TRUE
      BY <2>2
    <3> DEFINE R == T \ {x}
               U == R \cup {x}
    <3>2. IsFiniteSet(T)
      BY FS_Subset
    <3>3. U = T /\ x \notin R
      BY <3>1
    <3>4. SumFunctionOnSet(held, T) = held[x] + SumFunctionOnSet(held, R)
      <4>1. \A y \in T : held[y] \in Int
        BY <1>1
      <4> QED BY <3>1, <3>2, <4>1, SumStep
    <3>5. SumFunctionOnSet(held, R) = HeldBy(R, ss, ms)
      BY <1>2, <3>1
    <3> HIDE DEF R
    <3>6. HeldBy(U, ss, ms) = HeldBy(R, ss, ms) + HeldBy({x}, ss, ms)
      BY <3>3, HeldAdd
    <3>7. HeldBy(R, ss, ms) \in Nat /\ HeldBy({x}, ss, ms) \in Nat
      BY HeldBelow
    <3> HIDE DEF U
    <3>8. held[x] = HeldBy({x}, ss, ms)
      BY <3>1
    <3>9. SumFunctionOnSet(held, T) = HeldBy(T, ss, ms)
      BY <3>3, <3>4, <3>5, <3>6, <3>7, <3>8
    <3> QED BY <3>9
  <2> QED BY <2>1, <2>2
<1>3. K \in P
  <2> HIDE DEF P
  <2> QED BY <1>2, SubsetInduction
<1> QED BY <1>3

\* A set with one member more
LEMMA OneMore ==
  ASSUME NEW S, NEW n \in Nat, IsFiniteSet(S), Cardinality(S) <= n, NEW x
  PROVE  IsFiniteSet(S \cup {x}) /\ Cardinality(S \cup {x}) <= n + 1
<1>1. /\ IsFiniteSet(S \cup {x})
      /\ \/ Cardinality(S \cup {x}) = Cardinality(S)
         \/ Cardinality(S \cup {x}) = Cardinality(S) + 1
  BY FS_AddElement
<1>2. Cardinality(S) \in Nat
  BY FS_CardinalityType
<1> DEFINE k == Cardinality(S)
           m == Cardinality(S \cup {x})
<1>3. k \in Nat /\ k <= n /\ (m = k \/ m = k + 1)
  BY <1>1, <1>2
<1> HIDE DEF k, m
<1>4. m <= n + 1
  BY <1>3
<1> QED BY <1>1, <1>4 DEF m

LEMMA ThreeOf ==
  ASSUME NEW a, NEW b, NEW c
  PROVE  IsFiniteSet({a, b, c}) /\ Cardinality({a, b, c}) <= 3
<1> DEFINE A == {} \cup {a}
           B == A \cup {b}
           C == B \cup {c}
<1>1. IsFiniteSet({}) /\ Cardinality({}) <= 0
  BY FS_EmptySet
<1>2. IsFiniteSet(A) /\ Cardinality(A) <= 0 + 1
  BY <1>1, OneMore
<1> HIDE DEF A
<1>3. Cardinality(A) <= 1 /\ 1 \in Nat
  BY <1>2
<1>4. IsFiniteSet(B) /\ Cardinality(B) <= 1 + 1
  BY <1>2, <1>3, OneMore
<1> HIDE DEF B
<1>5. Cardinality(B) <= 2 /\ 2 \in Nat
  BY <1>4
<1>6. IsFiniteSet(C) /\ Cardinality(C) <= 2 + 1
  BY <1>4, <1>5, OneMore
<1>7. C = {a, b, c}
  BY DEF B, A
<1> HIDE DEF C
<1>8. Cardinality(C) <= 3
  BY <1>6
<1> QED BY <1>6, <1>7, <1>8

LEMMA SixOf ==
  ASSUME NEW a, NEW b, NEW c, NEW d, NEW e, NEW f
  PROVE  IsFiniteSet({a, b, c, d, e, f}) /\ Cardinality({a, b, c, d, e, f}) <= 6
<1> DEFINE A == {a, b, c}
           B == A \cup {d}
           C == B \cup {e}
           D == C \cup {f}
<1>1. IsFiniteSet(A) /\ Cardinality(A) <= 3
  BY ThreeOf
<1> HIDE DEF A
<1>2. IsFiniteSet(B) /\ Cardinality(B) <= 3 + 1
  BY <1>1, OneMore
<1> HIDE DEF B
<1>3. Cardinality(B) <= 4 /\ 4 \in Nat
  BY <1>2
<1>4. IsFiniteSet(C) /\ Cardinality(C) <= 4 + 1
  BY <1>2, <1>3, OneMore
<1> HIDE DEF C
<1>5. Cardinality(C) <= 5 /\ 5 \in Nat
  BY <1>4
<1>6. IsFiniteSet(D) /\ Cardinality(D) <= 5 + 1
  BY <1>4, <1>5, OneMore
<1>7. D = {a, b, c, d, e, f}
  BY DEF A, B, C
<1> HIDE DEF D
<1>8. Cardinality(D) <= 6
  BY <1>6
<1> QED BY <1>6, <1>7, <1>8

LEMMA ClassesFinite ==
  /\ IsFiniteSet(DOMAIN ClassPenalty) /\ Cardinality(DOMAIN ClassPenalty) <= 6
  /\ \A c \in DOMAIN ClassPenalty : ClassPenalty[c] \in Nat /\ ClassPenalty[c] <= 35
<1>1. DOMAIN ClassPenalty = {"directory", "marketplace", "national_brand", "lead_generator",
                             "informational_publisher", "unknown"}
  BY DEF ClassPenalty
<1>2. \A c \in DOMAIN ClassPenalty : ClassPenalty[c] \in Nat /\ ClassPenalty[c] <= 35
  BY <1>1 DEF ClassPenalty
<1> DEFINE K == {"directory", "marketplace", "national_brand", "lead_generator",
                 "informational_publisher", "unknown"}
<1>3. IsFiniteSet(K) /\ Cardinality(K) <= 6
  BY SixOf
<1>4. DOMAIN ClassPenalty = K
  BY <1>1
<1> HIDE DEF K
<1> QED BY <1>2, <1>3, <1>4

LEMMA FeaturesFinite ==
  /\ IsFiniteSet(DOMAIN FeaturePenalty) /\ Cardinality(DOMAIN FeaturePenalty) <= 3
  /\ \A f \in DOMAIN FeaturePenalty : FeaturePenalty[f] \in Nat /\ FeaturePenalty[f] <= 16
<1>1. DOMAIN FeaturePenalty = {"shopping", "local_pack", "ads_top"}
  BY DEF FeaturePenalty
<1>2. \A f \in DOMAIN FeaturePenalty : FeaturePenalty[f] \in Nat /\ FeaturePenalty[f] <= 16
  BY <1>1 DEF FeaturePenalty
<1> DEFINE K == {"shopping", "local_pack", "ads_top"}
<1>3. IsFiniteSet(K) /\ Cardinality(K) <= 3
  BY ThreeOf
<1>4. DOMAIN FeaturePenalty = K
  BY <1>1
<1> HIDE DEF K
<1> QED BY <1>2, <1>3, <1>4

\* Shares that are rounded one by one exceed the whole by little
LEMMA SharesBound ==
  ASSUME NEW d \in Int, d >= 2500, NEW S \in Int, NEW H \in Int, NEW m \in Int,
         H < 100 * d + 100, m <= 6 * d, (2 * d) * S <= 200 * H + m
  PROVE  S <= 10007
<1>1. (2 * d) * S <= 20014 * d
  <2> DEFINE P == (2 * d) * S
  <2>1. P <= 200 * H + m /\ P \in Int
    OBVIOUS
  <2> HIDE DEF P
  <2>2. P <= 20014 * d
    BY <2>1
  <2> QED BY <2>2 DEF P
<1>2. SUFFICES ASSUME S >= 10008 PROVE FALSE
  OBVIOUS
<1>3. (2 * d) * S >= (2 * d) * 10008
  <2> DEFINE e == 2 * d
  <2>1. e \in Int /\ e > 0
    OBVIOUS
  <2> HIDE DEF e
  <2>2. e * S >= e * 10008
    BY <2>1, <1>2, TimesMore
  <2> QED BY <2>2 DEF e
<1> DEFINE P == (2 * d) * S
<1>4. P \in Int /\ P <= 20014 * d /\ P >= 20016 * d
  BY <1>1, <1>3
<1> HIDE DEF P
<1> QED BY <1>4

LEMMA SharesBelow ==
  ASSUME NEW ms \in Seq(Metric), NEW ss \in Seq(Snapshots), ss # <<>>,
         NEW K, IsFiniteSet(K), Cardinality(K) <= 6,
         NEW share, \A c \in K : share[c] = ClassShare(c, ss, ms)
  PROVE  /\ \A c \in K : share[c] \in Nat
         /\ SumFunctionOnSet(share, K) \in Nat
         /\ SumFunctionOnSet(share, K) <= 10007
<1> DEFINE cap == CapacityOf(ss, ms)
           d == cap \div 100
           held == [c \in K |-> HeldBy({c}, ss, ms)]
           big == [c \in K |-> (2 * d) * share[c]]
           low == [c \in K |-> 200 * held[c]]
           one == [c \in K |-> d]
           up == [c \in K |-> low[c] + one[c]]
<1>1. cap \in Nat /\ cap >= 250000 /\ HeldBy(K, ss, ms) \in Nat /\ HeldBy(K, ss, ms) <= cap
  BY HeldBelow
<1>2. d \in Int /\ d >= 2500 /\ cap < 100 * d + 100
  <2> HIDE DEF cap
  <2> QED BY <1>1
<1>3. ASSUME NEW c \in K
      PROVE  /\ held[c] \in Nat /\ share[c] \in Nat /\ share[c] = Round(100 * held[c], d)
  BY HeldBelow, ClassShareBound, ClassShareIs
<1>4. SumFunctionOnSet(held, K) = HeldBy(K, ss, ms)
  <2>1. \A c \in K : held[c] = HeldBy({c}, ss, ms)
    OBVIOUS
  <2> HIDE DEF held
  <2> QED BY <2>1, HeldSum
<1> HIDE DEF cap, d, held
<1>5. ASSUME NEW c \in K
      PROVE  /\ big[c] \in Int /\ low[c] \in Int /\ one[c] \in Int /\ up[c] \in Int
             /\ big[c] <= up[c] /\ big[c] = (2 * d) * share[c] /\ low[c] = 200 * held[c]
             /\ up[c] = low[c] + one[c] /\ one[c] <= d
  <2> DEFINE h == held[c]
             s == share[c]
  <2>1. h \in Nat /\ s \in Nat /\ s = Round(100 * h, d)
    BY <1>3
  <2> HIDE DEF h, s
  <2>2. 2 * (d * s) <= 2 * (100 * h) + d
    BY <1>2, <2>1, RoundSpan
  <2>3. (2 * d) * s \in Int /\ (2 * d) * s = 2 * (d * s)
    BY <1>2, <2>1
  <2>4. (2 * d) * s <= 200 * h + d
    BY <1>2, <2>1, <2>2, <2>3
  <2>5. big[c] = (2 * d) * s /\ low[c] = 200 * h /\ one[c] = d /\ up[c] = low[c] + one[c]
    BY DEF s, h
  <2> HIDE DEF big, low, one, up
  <2> QED BY <1>2, <2>1, <2>3, <2>4, <2>5, SMTT(30) DEF s, h
<1> HIDE DEF big, low, one, up
<1>6. SumFunctionOnSet(share, K) \in Nat
  BY <1>3, SumNat
<1>7. SumFunctionOnSet(big, K) = (2 * d) * SumFunctionOnSet(share, K)
  <2> DEFINE e == 2 * d
  <2>1. e \in Int /\ \A c \in K : share[c] \in Int /\ big[c] = e * share[c]
    BY <1>2, <1>3, <1>5
  <2> HIDE DEF e
  <2>2. SumFunctionOnSet(big, K) = e * SumFunctionOnSet(share, K)
    BY <2>1, SumTimes
  <2> QED BY <2>2 DEF e
<1>8. SumFunctionOnSet(low, K) = 200 * HeldBy(K, ss, ms)
  <2> DEFINE t == 200
  <2>1. t \in Int /\ \A c \in K : held[c] \in Int /\ low[c] = t * held[c]
    BY <1>3, <1>5
  <2> HIDE DEF t
  <2>2. SumFunctionOnSet(low, K) = t * SumFunctionOnSet(held, K)
    BY <2>1, SumTimes
  <2> QED BY <1>4, <2>2 DEF t
<1>9. SumFunctionOnSet(up, K) = SumFunctionOnSet(low, K) + SumFunctionOnSet(one, K)
  BY <1>5, SumPlus
<1>10. SumFunctionOnSet(big, K) <= SumFunctionOnSet(up, K)
  BY <1>5, SumMono
<1>11. SumFunctionOnSet(one, K) \in Int /\ SumFunctionOnSet(one, K) <= 6 * d
  <2>1. SumFunctionOnSet(one, K) \in Int
    BY <1>5, SumStep
  <2>2. SumFunctionOnSet(one, K) <= d * Cardinality(K)
    BY <1>2, <1>5, SumBelow
  <2>3. Cardinality(K) \in Nat
    BY FS_CardinalityType
  <2>4. d * 6 >= d * Cardinality(K)
    BY <1>2, <2>3, TimesMore
  <2>5. d * Cardinality(K) \in Int
    BY <1>2, <2>3
  <2> QED BY <1>2, <2>1, <2>2, <2>4, <2>5
<1> DEFINE S == SumFunctionOnSet(share, K)
           H == HeldBy(K, ss, ms)
           m == SumFunctionOnSet(one, K)
<1>12. /\ (2 * d) * S <= 200 * H + m /\ m \in Int /\ m <= 6 * d
       /\ S \in Int /\ H \in Int /\ H < 100 * d + 100
  BY <1>1, <1>2, <1>6, <1>7, <1>8, <1>9, <1>10, <1>11
<1> HIDE DEF S, H, m
<1>13. S <= 10007
  BY <1>2, <1>12, SharesBound
<1> QED BY <1>3, <1>6, <1>13 DEF S

\* A part of a sum of nothing negative
LEMMA SumSubset ==
  ASSUME NEW f, NEW S, IsFiniteSet(S), NEW T \in SUBSET S, \A x \in S : f[x] \in Nat
  PROVE  SumFunctionOnSet(f, T) <= SumFunctionOnSet(f, S)
<1> DEFINE R == S \ T
<1>1. S = T \cup R /\ T \cap R = {} /\ R \in SUBSET S
  OBVIOUS
<1>2. IsFiniteSet(T) /\ IsFiniteSet(R)
  BY <1>1, FS_Subset
<1>3. (\A x \in R : f[x] \in Nat) /\ (\A x \in T : f[x] \in Nat)
  OBVIOUS
<1> HIDE DEF R
<1>4. SumFunctionOnSet(f, R) \in Nat /\ SumFunctionOnSet(f, T) \in Nat
  BY <1>2, <1>3, SumNat
<1>5. SumFunctionOnSet(f, T \cup R) = SumFunctionOnSet(f, T) + SumFunctionOnSet(f, R)
  BY <1>1, <1>2, SumUnion
<1> QED BY <1>1, <1>4, <1>5

\* What a share of the capacity takes from the allowance
Deducts(x, share, penalty) == x = Round(share * penalty * 16, 100)

LEMMA DeductionOf ==
  ASSUME NEW share \in Nat, NEW penalty \in Nat, NEW x, Deducts(x, share, penalty)
  PROVE  /\ x \in Nat
         /\ penalty <= 35 => x <= 6 * share + 1
         /\ penalty <= 16 /\ share <= 10000 => x <= 25601
         /\ share = 0 => x = 0
<1> DEFINE p == share * penalty
           n == p * 16
           r == Round(n, 100)
<1>1. p \in Nat /\ (share = 0 => p = 0)
  OBVIOUS
<1>2. penalty <= 35 => p <= 35 * share
  <2>1. CASE share = 0
    BY <1>1, <2>1
  <2>2. CASE share > 0
    <3>1. penalty <= 35 => share * 35 >= share * penalty
      BY <2>2, TimesMore
    <3> QED BY <3>1
  <2> QED BY <2>1, <2>2
<1>3. penalty <= 16 /\ share <= 10000 => p <= 160000
  <2>1. CASE share = 0
    BY <1>1, <2>1
  <2>2. CASE share > 0
    <3>1. penalty <= 16 => share * 16 >= share * penalty
      BY <2>2, TimesMore
    <3> QED BY <3>1
  <2> QED BY <2>1, <2>2
<1> HIDE DEF p
<1>4. n \in Int /\ n = p * 16 /\ 100 \in Int /\ 100 > 0
  BY <1>1
<1> HIDE DEF n
<1>5. /\ r \in Int
      /\ 2 * (100 * r) <= 2 * n + 100
      /\ 2 * n + 100 < 2 * (100 * r) + 2 * 100
  BY <1>4, RoundSpan
<1> HIDE DEF r
<1>6. /\ r \in Nat
      /\ penalty <= 35 => r <= 6 * share + 1
      /\ penalty <= 16 /\ share <= 10000 => r <= 25601
      /\ share = 0 => r = 0
  BY <1>1, <1>2, <1>3, <1>4, <1>5
<1> QED BY <1>6 DEF r, n, p, Deducts

LEMMA ClassDeductions ==
  ASSUME NEW ms \in Seq(Metric), NEW ss \in Seq(Snapshots), ss # <<>>,
         NEW K, K = DOMAIN ClassPenalty,
         NEW ded, \A c \in K : ded[c] = ClassDeduction(c, ss, ms)
  PROVE  /\ \A c \in K : ded[c] \in Nat
         /\ SumFunctionOnSet(ded, K) \in Nat
         /\ SumFunctionOnSet(ded, K) <= 60048
<1> DEFINE share == [c \in K |-> ClassShare(c, ss, ms)]
           six == [c \in K |-> 6 * share[c]]
           one == [c \in K |-> 1]
           up == [c \in K |-> six[c] + one[c]]
<1>1. IsFiniteSet(K) /\ Cardinality(K) <= 6 /\ Cardinality(K) \in Nat
  BY ClassesFinite, FS_CardinalityType
<1>2. /\ \A c \in K : share[c] \in Nat
      /\ SumFunctionOnSet(share, K) \in Nat
      /\ SumFunctionOnSet(share, K) <= 10007
  <2>1. \A c \in K : share[c] = ClassShare(c, ss, ms)
    OBVIOUS
  <2> HIDE DEF share
  <2> QED BY <1>1, <2>1, SharesBelow
<1>3. ASSUME NEW c \in K
      PROVE  ded[c] \in Nat /\ ded[c] <= 6 * share[c] + 1
  <2>1. ClassPenalty[c] \in Nat /\ ClassPenalty[c] <= 35
    BY ClassesFinite
  <2>2. ded[c] = Round(share[c] * ClassPenalty[c] * 16, 100)
    BY DEF ClassDeduction
  <2>3. share[c] \in Nat
    BY <1>2
  <2> DEFINE s == share[c]
             p == ClassPenalty[c]
             x == ded[c]
  <2>4. s \in Nat /\ p \in Nat /\ p <= 35 /\ Deducts(x, s, p)
    BY <2>1, <2>2, <2>3 DEF Deducts
  <2> HIDE DEF s, p, x
  <2>5. x \in Nat /\ x <= 6 * s + 1
    BY ONLY <2>4, DeductionOf
  <2> QED BY <2>5 DEF s, x
<1> HIDE DEF share
<1>4. ASSUME NEW c \in K
      PROVE  /\ six[c] = 6 * share[c] /\ one[c] = 1 /\ up[c] = six[c] + one[c]
             /\ share[c] \in Int /\ six[c] \in Int /\ one[c] \in Int /\ up[c] \in Int
             /\ one[c] <= 1 /\ ded[c] \in Int /\ ded[c] <= up[c]
  <2>1. six[c] = 6 * share[c] /\ one[c] = 1 /\ up[c] = six[c] + one[c]
    OBVIOUS
  <2>2. share[c] \in Nat /\ ded[c] \in Nat /\ ded[c] <= 6 * share[c] + 1
    BY <1>2, <1>3
  <2> HIDE DEF six, one, up
  <2> QED BY <2>1, <2>2
<1> HIDE DEF six, one, up
<1>5. SumFunctionOnSet(ded, K) \in Nat
  BY <1>1, <1>3, SumNat
<1>6. SumFunctionOnSet(ded, K) <= SumFunctionOnSet(up, K)
  BY <1>1, <1>4, SumMono
<1>7. SumFunctionOnSet(up, K) = SumFunctionOnSet(six, K) + SumFunctionOnSet(one, K)
  BY <1>1, <1>4, SumPlus
<1>8. SumFunctionOnSet(six, K) = 6 * SumFunctionOnSet(share, K)
  <2> DEFINE t == 6
  <2>1. t \in Int /\ \A c \in K : share[c] \in Int /\ six[c] = t * share[c]
    BY <1>4
  <2> HIDE DEF t
  <2>2. SumFunctionOnSet(six, K) = t * SumFunctionOnSet(share, K)
    BY <1>1, <2>1, SumTimes
  <2> QED BY <2>2 DEF t
<1>9. SumFunctionOnSet(one, K) <= 6 /\ SumFunctionOnSet(one, K) \in Int
  <2> DEFINE t == 1
  <2>1. t \in Int /\ \A c \in K : one[c] \in Int /\ one[c] <= t
    BY <1>4
  <2> HIDE DEF t
  <2>2. SumFunctionOnSet(one, K) <= t * Cardinality(K)
    BY <1>1, <2>1, SumBelow
  <2>3. SumFunctionOnSet(one, K) \in Int
    BY <1>1, <2>1, SumStep
  <2> QED BY <1>1, <2>2, <2>3 DEF t
<1> QED BY <1>2, <1>3, <1>5, <1>6, <1>7, <1>8, <1>9

LEMMA FeatureShareBound ==
  ASSUME NEW ms \in Seq(Metric), NEW ss \in Seq(Snapshots), ss # <<>>, NEW feature
  PROVE  FeatureShare(feature, ss, ms) \in Nat /\ FeatureShare(feature, ss, ms) <= 10000
<1> DEFINE D == DOMAIN ss
           A == {i \in D : HasFeature(ss[i], feature)}
           w == SerpWeights(ss, ms)
           part == [i \in A |-> w[i]]
           all == [i \in D |-> w[i]]
           a == SumFunctionOnSet(part, A)
           total == SumFunctionOnSet(all, D)
<1>1. /\ DOMAIN w = D /\ IsFiniteSet(D) /\ \A i \in D : w[i] \in Int /\ w[i] >= 2500
      /\ SerpsTotal(ss, ms) \in Int /\ SerpsTotal(ss, ms) >= 2500
  BY SerpsWeigh
<1>2. SerpsTotal(ss, ms) = total
  BY <1>1 DEF SerpsTotal, SumSeq, SumOver
<1>3. FeatureShare(feature, ss, ms) = Round(10000 * a, total)
  BY <1>1 DEF FeatureShare, SumOver, SumSeq, Unit
<1>4. A \in SUBSET D /\ IsFiniteSet(A)
  BY <1>1, FS_Subset
<1>5. /\ \A i \in A : part[i] \in Nat /\ part[i] \in Int /\ part[i] = all[i]
      /\ \A i \in D : all[i] \in Nat
  <2> HIDE DEF w, D
  <2>1. \A i \in D : w[i] \in Nat
    BY <1>1
  <2> HIDE DEF A
  <2> QED BY <1>4, <2>1
<1> HIDE DEF part, all, A, D, w
<1>6. a \in Nat
  BY <1>4, <1>5, SumNat
<1>7. a <= total
  <2>1. SumFunctionOnSet(part, A) = SumFunctionOnSet(all, A)
    BY <1>4, <1>5, SumEqual
  <2>2. SumFunctionOnSet(all, A) <= SumFunctionOnSet(all, D)
    BY <1>1, <1>4, <1>5, SumSubset
  <2> QED BY <2>1, <2>2
<1>8. total \in Int /\ total >= 2500
  BY <1>1, <1>2
<1> HIDE DEF a, total
<1> DEFINE n == 10000 * a
           k == 10000
<1>9. n \in Nat /\ k \in Nat /\ n <= k * total /\ total > 0
  BY <1>6, <1>7, <1>8
<1>10. FeatureShare(feature, ss, ms) = Round(n, total)
  BY <1>3
<1> HIDE DEF n, k
<1>11. Round(n, total) \in Nat /\ Round(n, total) <= k
  BY <1>8, <1>9, RoundBetween
<1> QED BY <1>10, <1>11 DEF k

LEMMA FeatureDeductions ==
  ASSUME NEW ms \in Seq(Metric), NEW ss \in Seq(Snapshots), ss # <<>>,
         NEW F, F = DOMAIN FeaturePenalty,
         NEW ded, \A f \in F : ded[f] = FeatureDeduction(f, ss, ms)
  PROVE  /\ \A f \in F : ded[f] \in Nat
         /\ SumFunctionOnSet(ded, F) \in Nat
         /\ SumFunctionOnSet(ded, F) <= 76803
<1>1. IsFiniteSet(F) /\ Cardinality(F) <= 3 /\ Cardinality(F) \in Nat
  BY FeaturesFinite, FS_CardinalityType
<1> DEFINE t == 25601
<1>2. ASSUME NEW f \in F
      PROVE  ded[f] \in Nat /\ ded[f] \in Int /\ ded[f] <= t
  <2> DEFINE s == FeatureShare(f, ss, ms)
             p == FeaturePenalty[f]
             x == ded[f]
  <2>1. p \in Nat /\ p <= 16
    BY FeaturesFinite
  <2>2. Deducts(x, s, p)
    BY DEF FeatureDeduction, Deducts
  <2>3. s \in Nat /\ s <= 10000
    BY FeatureShareBound
  <2> HIDE DEF s, p, x
  <2>4. x \in Nat /\ x <= 25601
    BY ONLY <2>1, <2>2, <2>3, DeductionOf
  <2> QED BY <2>4 DEF x
<1>3. SumFunctionOnSet(ded, F) \in Nat
  BY <1>1, <1>2, SumNat
<1>4. t \in Int
  OBVIOUS
<1> HIDE DEF t
<1>5. SumFunctionOnSet(ded, F) <= t * Cardinality(F)
  BY <1>1, <1>2, <1>4, SumBelow
<1>6. SumFunctionOnSet(ded, F) <= 76803
  BY <1>1, <1>3, <1>5 DEF t
<1> QED BY <1>2, <1>3, <1>6

\* What a trace leaves of a baseline: the steps it leaves out deduct nothing
Deducted(t, b, n, C, u, G, v) ==
    /\ t[b] = n
    /\ \A c \in C : t[c] = -u[c]
    /\ \A g \in G : t[g] = -v[g]

LEMMA DeductedSum ==
  ASSUME NEW K, IsFiniteSet(K), NEW F, IsFiniteSet(F), NEW C \in SUBSET K, NEW G \in SUBSET F,
         NEW b, b \notin K, b \notin F, K \cap F = {}, NEW n \in Int, NEW u, NEW v, NEW t,
         \A c \in K : u[c] \in Int, \A c \in K \ C : u[c] = 0,
         \A g \in F : v[g] \in Int, \A g \in F \ G : v[g] = 0,
         Deducted(t, b, n, C, u, G, v)
  PROVE  SumFunctionOnSet(t, {b} \cup C \cup G)
           = n - SumFunctionOnSet(u, K) - SumFunctionOnSet(v, F)
<1> DEFINE B == {b}
           A == B \cup C
           T == A \cup G
           m == -1
<1>1. IsFiniteSet(C) /\ IsFiniteSet(G) /\ IsFiniteSet(B)
  BY FS_Subset, FS_Singleton
<1>2. IsFiniteSet(A)
  BY <1>1, FS_Union
<1>3. B \cap C = {} /\ A \cap G = {}
  OBVIOUS
<1>4. /\ \A c \in C : u[c] \in Int /\ t[c] = m * u[c] /\ t[c] \in Int
      /\ \A g \in G : v[g] \in Int /\ t[g] = m * v[g] /\ t[g] \in Int
      /\ t[b] \in Int /\ t[b] = n /\ m \in Int
  <2>1. ASSUME NEW c \in C PROVE u[c] \in Int /\ t[c] = m * u[c] /\ t[c] \in Int
    <3>1. u[c] \in Int /\ t[c] = -u[c]
      BY DEF Deducted
    <3> QED BY <3>1
  <2>2. ASSUME NEW g \in G PROVE v[g] \in Int /\ t[g] = m * v[g] /\ t[g] \in Int
    <3>1. v[g] \in Int /\ t[g] = -v[g]
      BY DEF Deducted
    <3> QED BY <3>1
  <2> QED BY <2>1, <2>2 DEF Deducted
<1>5. /\ \A x \in B : t[x] \in Int
      /\ \A x \in A : t[x] \in Int
      /\ \A x \in T : t[x] \in Int
  BY <1>4
<1>6. SumFunctionOnSet(t, B) = n
  <2>1. b \in B /\ B \ {b} = {}
    OBVIOUS
  <2>2. SumFunctionOnSet(t, B) = t[b] + SumFunctionOnSet(t, B \ {b})
    <3> HIDE DEF B
    <3> QED BY <1>1, <1>5, <2>1, SumStep
  <2>3. SumFunctionOnSet(t, B \ {b}) = 0
    <3> DEFINE E == B \ {b}
    <3>1. E = {}
      BY <2>1
    <3> HIDE DEF E
    <3>2. SumFunctionOnSet(t, E) = 0
      BY <3>1, SumEmpty
    <3> QED BY <3>2 DEF E
  <2> QED BY <1>4, <2>2, <2>3
<1>7. SumFunctionOnSet(u, K) = SumFunctionOnSet(u, C)
  BY SumPart
<1>8. SumFunctionOnSet(v, F) = SumFunctionOnSet(v, G)
  BY SumPart
<1>9. SumFunctionOnSet(u, C) \in Int /\ SumFunctionOnSet(v, G) \in Int
  BY <1>1, <1>4, SumStep
<1> HIDE DEF m, B
<1>10. SumFunctionOnSet(t, C) = m * SumFunctionOnSet(u, C)
  BY <1>1, <1>4, SumTimes
<1>11. SumFunctionOnSet(t, G) = m * SumFunctionOnSet(v, G)
  BY <1>1, <1>4, SumTimes
<1>12. SumFunctionOnSet(t, A) = SumFunctionOnSet(t, B) + SumFunctionOnSet(t, C)
  BY <1>1, <1>3, <1>5, SumUnion
<1> HIDE DEF A
<1>13. SumFunctionOnSet(t, T) = SumFunctionOnSet(t, A) + SumFunctionOnSet(t, G)
  BY <1>1, <1>2, <1>3, <1>5, SumUnion
<1> HIDE DEF T
<1> DEFINE p == SumFunctionOnSet(u, C)
           q == SumFunctionOnSet(v, G)
<1>14. SumFunctionOnSet(t, T) = n + m * p + m * q /\ p \in Int /\ q \in Int
  BY <1>6, <1>9, <1>10, <1>11, <1>12, <1>13
<1> HIDE DEF p, q
<1>15. SumFunctionOnSet(t, T) = n - p - q
  BY <1>14 DEF m
<1> QED BY <1>7, <1>8, <1>15 DEF p, q, T, A, B

\* A class no organic result has holds nothing and deducts nothing
LEMMA UnmetClass ==
  ASSUME NEW ms \in Seq(Metric), NEW ss \in Seq(Snapshots), ss # <<>>,
         NEW c \in DOMAIN ClassPenalty,
         \A i \in DOMAIN ss : \A r \in Organic(ss[i]) : r.class # c
  PROVE  ClassDeduction(c, ss, ms) = 0
<1> DEFINE D == DOMAIN ss
           f == HeldPart({c}, ss, ms)
           cap == CapacityOf(ss, ms)
           d == cap \div 100
           s == ClassShare(c, ss, ms)
           p == ClassPenalty[c]
           x == ClassDeduction(c, ss, ms)
<1>1. IsFiniteSet(D) /\ \A i \in D : SerpWeights(ss, ms)[i] \in Int
  BY SerpsWeigh
<1>2. ASSUME NEW i \in D PROVE f[i] = 0
  <2>1. InClasses({c}, ss[i]) = {}
    BY DEF InClasses
  <2>2. Places({c}, ss[i]) = 0
    BY <2>1, SumEmpty DEF Places
  <2>3. f[i] = SerpWeights(ss, ms)[i] * 0
    BY <2>2 DEF HeldPart
  <2> QED BY <1>1, <2>3
<1>3. HeldBy({c}, ss, ms) = 0
  <2> HIDE DEF f, D
  <2>1. SumFunctionOnSet(f, D) = 0
    BY <1>1, <1>2, SumZero
  <2> QED BY <2>1 DEF HeldBy, f, D
<1>4. cap \in Nat /\ cap >= 250000
  BY HeldBelow
<1>5. s = Round(0, d)
  <2>1. s = Round(100 * HeldBy({c}, ss, ms), d)
    BY ClassShareIs
  <2> HIDE DEF s, d
  <2> QED BY <1>3, <2>1
<1>6. d \in Int /\ d > 0
  <2> HIDE DEF cap
  <2> QED BY <1>4
<1> HIDE DEF d
<1>7. Round(0, d) \in Nat /\ Round(0, d) <= 0
  <2> DEFINE z == 0
  <2>1. z \in Nat /\ z <= z * d
    BY <1>6
  <2> HIDE DEF z
  <2>2. Round(z, d) \in Nat /\ Round(z, d) <= z
    BY <1>6, <2>1, RoundBetween
  <2> QED BY <2>2 DEF z
<1>8. s \in Nat /\ s = 0
  BY <1>5, <1>7
<1>9. p \in Nat /\ Deducts(x, s, p)
  BY ClassesFinite DEF Deducts, ClassDeduction
<1> HIDE DEF s, p, x
<1>10. x = 0
  BY ONLY <1>8, <1>9, DeductionOf
<1> QED BY <1>10 DEF x

\* A feature that is not shown deducts nothing
LEMMA UnmetFeature ==
  ASSUME NEW ms \in Seq(Metric), NEW ss \in Seq(Snapshots), ss # <<>>,
         NEW f \in DOMAIN FeaturePenalty, ~(FeatureShare(f, ss, ms) > 0)
  PROVE  FeatureDeduction(f, ss, ms) = 0
<1> DEFINE s == FeatureShare(f, ss, ms)
           p == FeaturePenalty[f]
           x == FeatureDeduction(f, ss, ms)
<1>1. s \in Nat
  BY FeatureShareBound
<1>2. p \in Nat /\ Deducts(x, s, p)
  BY FeaturesFinite DEF Deducts, FeatureDeduction
<1>3. ~(s > 0)
  OBVIOUS
<1> HIDE DEF s, p, x
<1>4. s = 0
  BY <1>1, <1>3
<1>5. x = 0
  BY ONLY <1>1, <1>2, <1>4, DeductionOf
<1> QED BY <1>5 DEF x

LEMMA NoOrganicSteps == Steps([missing |-> 0]) = 0
<1> DEFINE S == {"missing"}
           r == [missing |-> 0]
           f == [x \in S |-> r[x]]
<1>1. DOMAIN r = S /\ \A x \in S : f[x] = 0
  OBVIOUS
<1>2. Steps(r) = SumFunctionOnSet(f, S)
  BY <1>1 DEF Steps, SumOver
<1>3. IsFiniteSet(S)
  BY FS_Singleton
<1> HIDE DEF S, r, f
<1>4. SumFunctionOnSet(f, S) = 0
  BY <1>1, <1>3, SumZero
<1> QED BY <1>2, <1>4 DEF r

LEMMA OrganicAgrees ==
  ASSUME NEW ms \in Seq(Metric), NEW ss \in Seq(Snapshots)
  PROVE  /\ Agree(Steps(OrganicSteps(ss, ms)), OrganicAvailability(ss, ms))
         /\ OrganicAvailability(ss, ms) \in Nat /\ OrganicAvailability(ss, ms) <= 1600
<1>1. CASE NoOrganic(ss)
  <2>1. OrganicSteps(ss, ms) = [missing |-> 0] /\ OrganicAvailability(ss, ms) = 0
    BY <1>1 DEF OrganicSteps, OrganicAvailability
  <2> QED BY <2>1, NoOrganicSteps DEF Agree
<1>2. CASE ~NoOrganic(ss)
  <2> DEFINE K == DOMAIN ClassPenalty
             F == DOMAIN FeaturePenalty
             C == {r.class : r \in UNION {Organic(ss[i]) : i \in DOMAIN ss}} \cap K
             G == {f \in F : FeatureShare(f, ss, ms) > 0}
             u == [c \in K |-> ClassDeduction(c, ss, ms)]
             v == [f \in F |-> FeatureDeduction(f, ss, ms)]
             b == "baseline"
             L == {b} \cup C \cup G
             n == 160000
             t == OrganicSteps(ss, ms)
             su == SumFunctionOnSet(u, K)
             sv == SumFunctionOnSet(v, F)
  <2>1. ss # <<>>
    BY <1>2 DEF NoOrganic
  <2>2. /\ IsFiniteSet(K) /\ IsFiniteSet(F) /\ C \in SUBSET K /\ G \in SUBSET F
    BY ClassesFinite, FeaturesFinite
  <2>3. b \notin K /\ b \notin F /\ K \cap F = {}
    BY DEF ClassPenalty, FeaturePenalty
  <2>4. /\ \A c \in K : u[c] = ClassDeduction(c, ss, ms)
        /\ \A f \in F : v[f] = FeatureDeduction(f, ss, ms)
    OBVIOUS
  <2>5. \A c \in K \ C : u[c] = 0
    <3>1. ASSUME NEW c \in K, c \notin C PROVE u[c] = 0
      <4>1. \A i \in DOMAIN ss : \A r \in Organic(ss[i]) : r.class # c
        BY <3>1
      <4>2. ClassDeduction(c, ss, ms) = 0
        BY <2>1, <4>1, UnmetClass
      <4> QED BY <4>2
    <3> HIDE DEF K, C, u
    <3> QED BY <3>1
  <2>6. \A f \in F \ G : v[f] = 0
    <3>1. ASSUME NEW f \in F, f \notin G PROVE v[f] = 0
      <4>1. ~(FeatureShare(f, ss, ms) > 0)
        BY <3>1
      <4>2. FeatureDeduction(f, ss, ms) = 0
        BY <2>1, <4>1, UnmetFeature
      <4> QED BY <4>2
    <3> HIDE DEF F, G, v
    <3> QED BY <3>1
  <2>7. t = [label \in L |->
               CASE label = b -> n
                 [] label \in C -> -u[label]
                 [] label \in G -> -v[label]]
    BY <1>2 DEF OrganicSteps, Unit
  <2>8. OrganicAvailability(ss, ms) = Bounded(n - su - sv, 16)
    BY <1>2 DEF OrganicAvailability, SumOver, Unit
  <2> HIDE DEF u, v
  <2>9. /\ \A c \in K : u[c] \in Nat
        /\ su \in Nat /\ su <= 60048
    BY <2>1, <2>4, ClassDeductions
  <2>10. /\ \A f \in F : v[f] \in Nat
         /\ sv \in Nat /\ sv <= 76803
    BY <2>1, <2>4, FeatureDeductions
  <2> HIDE DEF K, F, C, G, b, t, n
  <2>11. Deducted(t, b, n, C, u, G, v) /\ DOMAIN t = L
    <3>1. \A c \in C : c # b
      BY <2>2, <2>3
    <3>2. \A g \in G : g # b /\ g \notin C
      BY <2>2, <2>3
    <3> QED BY <2>7, <3>1, <3>2 DEF Deducted
  <2>12. Steps(t) = SumFunctionOnSet([label \in L |-> t[label]], L)
    BY <2>11 DEF Steps, SumOver
  <2>13. [label \in L |-> t[label]] = t
    <3> HIDE DEF L
    <3> QED BY <2>7
  <2>14. n \in Int /\ (\A c \in K : u[c] \in Int) /\ (\A f \in F : v[f] \in Int)
    BY <2>9, <2>10 DEF n
  <2>15. SumFunctionOnSet(t, L) = n - su - sv
    BY ONLY <2>2, <2>3, <2>5, <2>6, <2>11, <2>14, DeductedSum
  <2>16. Steps(t) = n - su - sv
    BY <2>12, <2>13, <2>15
  <2> HIDE DEF su, sv, L
  <2> DEFINE w == n - su - sv
  <2>17. Within(w, 16) /\ w \in Int
    BY <2>9, <2>10 DEF Within, n
  <2>18. Steps(t) = w /\ OrganicAvailability(ss, ms) = Bounded(w, 16)
    BY <2>8, <2>16
  <2> HIDE DEF w
  <2>19. Agree(w, Bounded(w, 16))
    BY <2>17, WithinAgrees
  <2>20. Bounded(w, 16) \in Nat /\ Bounded(w, 16) <= 100 * 16
    BY <2>17, BoundedOf
  <2>21. Bounded(w, 16) <= 1600
    BY <2>20
  <2>22. /\ Agree(Steps(t), OrganicAvailability(ss, ms))
         /\ OrganicAvailability(ss, ms) \in Nat /\ OrganicAvailability(ss, ms) <= 1600
    BY <2>18, <2>19, <2>20, <2>21
  <2> QED BY <2>22 DEF t
<1> QED BY <1>1, <1>2

---------------------------------------------------------------------------
(* The competitors and the providers of a scan are as the lemmas take them     *)

LEMMA OverlapInt ==
  ASSUME NEW words, NEW expected, IsFiniteSet(expected)
  PROVE  Overlap(words, expected) \in Int
<1> DEFINE n == Cardinality(words \cap expected)
           m == Cardinality(expected)
           d == Most(1, m)
           k == Unit * n
<1>1. IsFiniteSet(words \cap expected)
  BY FS_Subset
<1>2. n \in Nat /\ m \in Nat
  BY <1>1, FS_CardinalityType
<1>3. Overlap(words, expected) = Round(k, d)
  BY DEF Overlap
<1> HIDE DEF n, m
<1>4. k \in Int /\ d \in Int /\ d > 0
  BY <1>2 DEF Most, Unit
<1> HIDE DEF k, d
<1> QED BY <1>3, <1>4, RoundSpan

LEMMA MostOverlap ==
  ASSUME NEW v, v \in Int \cup {None}, NEW n \in Int
  PROVE  Most(OrZero(v), n) \in Int
BY DEF Most, OrZero

LEMMA ReportedFields ==
  ASSUME NEW su, NEW answer \in CompetitorAnswers, NEW d \in DOMAIN answer,
         NEW a, a = Reported(su, answer)[d], a # None
  PROVE  /\ a.refs \in Int \cup {None} /\ a.relevance \in Int \cup {None}
         /\ a.local \in Int \cup {None}
<1> DEFINE b == answer[d]
<1>1. a = IF b = None \/ su.mode = "fixture" THEN b
          ELSE [b EXCEPT !.relevance = None, !.local = None, !.page = "unknown"]
  BY DEF Reported
<1>2. b # None
  BY <1>1
<1>3. b \in CompetitorAnswer
  BY <1>2, CompetitorConstants
<1> HIDE DEF b
<1>4. /\ b.refs \in Int \cup {None} /\ b.relevance \in Int \cup {None}
      /\ b.local \in Int \cup {None}
      /\ DOMAIN b = {"refs", "relevance", "local", "page"}
  BY <1>3 DEF CompetitorAnswer
<1>5. CASE a = b
  BY <1>4, <1>5
<1>6. CASE a = [b EXCEPT !.relevance = None, !.local = None, !.page = "unknown"]
  <2>1. a.refs = b.refs /\ a.relevance = None /\ a.local = None
    BY <1>4, <1>6
  <2> QED BY <1>4, <2>1
<1> QED BY <1>1, <1>5, <1>6

LEMMA EnrichedRivals ==
  ASSUME EvidenceInv, NEW answer \in CompetitorAnswers,
         NEW cs, cs = Enriched(SelectCompetitors(serps, CompetitorLimit),
                               Reported(setup, answer), serps)
  PROVE  Rivals(cs)
<1> DEFINE domains == SelectCompetitors(serps, CompetitorLimit)
           said == Reported(setup, answer)
           kept == {i \in DOMAIN domains : said[domains[i]] # None}
           answered == At(domains, kept)
           S == {domains[i] : i \in DOMAIN domains}
           seen(d) == OfDomain(d, serps)
           result(d) == ResultAt(First(seen(d)), serps)
           enrich(d) ==
               [domain |-> d, refs |-> said[d].refs, reported |-> said[d].page,
                relevance |-> Most(OrZero(said[d].relevance),
                                   Overlap(result(d).words, Service.words)),
                local |-> Most(OrZero(said[d].local), Overlap(result(d).words, MarketWords)),
                archetype |-> Archetype(PageType(result(d).class, said[d].page)),
                observations |-> seen(d)]
<1>0. Shown(serps) /\ serps \in Seq(Snapshots)
  BY SerpsShown DEF EvidenceInv
<1>1. PICK k \in 0..CompetitorLimit :
         /\ DOMAIN domains = 1..k
         /\ \A n \in 1..k : \E o \in Observations(serps) : domains[n] = o.domain
         /\ Distinct(domains)
  BY <1>0, SerpLimitNat, SelectedDomains
<1>2. domains = [n \in DOMAIN domains |-> domains[n]]
  BY DEF SelectCompetitors
<1>3. cs = [i \in DOMAIN answered |-> enrich(answered[i])]
  BY DEF Enriched
<1> HIDE DEF domains
<1>4. Listed(domains)
  BY <1>1, <1>2, SerpLimitNat, ListOf
<1>5. domains \in Seq(S) /\ kept \subseteq DOMAIN domains
  BY <1>4 DEF Listed
<1>6. \A i \in kept : i \in 1..k /\ said[domains[i]] # None
  BY <1>1
<1> HIDE DEF kept, S
<1>7. \A m \in DOMAIN answered : \E i \in kept : answered[m] = domains[i]
  BY <1>5, AtSeq
<1>8. \A m \in DOMAIN answered : /\ said[answered[m]] # None
                                 /\ \E o \in Observations(serps) : answered[m] = o.domain
  BY <1>1, <1>6, <1>7
<1>9. Distinct(answered)
  <2>1. \A i, j \in kept : domains[i] = domains[j] => i = j
    BY <1>1, <1>5 DEF Distinct
  <2> QED BY <1>5, <2>1, AtSeq
<1> HIDE DEF answered, said
<1>10. ASSUME NEW d, said[d] # None, NEW o \in Observations(serps), d = o.domain
       PROVE  Rival(enrich(d)) /\ enrich(d).domain = d
  <2>1. IsFiniteSet(seen(d))
    <3>1. seen(d) \in SUBSET Observations(serps)
      BY DEF OfDomain
    <3>2. IsFiniteSet(Observations(serps))
      BY <1>0, ObservationsFinite
    <3> HIDE DEF seen
    <3> QED BY <3>1, <3>2, FS_Subset
  <2>2. d \in DOMAIN answer
    <3>1. PICK i \in DOMAIN serps : \E r \in Organic(serps[i]) : IsResult(r) /\ o.domain = r.domain
      BY <1>0, ObservationOf
    <3>2. PICK r \in Organic(serps[i]) : IsResult(r) /\ o.domain = r.domain
      BY <3>1
    <3>3. PICK a \in SerpAnswers : \E q \in a.items :
             q.url # None /\ q.type = r.type /\ q.domain = r.domain
      BY <3>2, ResultRecord
    <3>4. r.type = "organic"
      BY DEF Organic
    <3>5. \A q \in a.items : q.url # None /\ q.type = "organic" => q.domain \in DOMAIN answer
      BY CompetitorConstants
    <3> QED BY <1>10, <3>2, <3>3, <3>4, <3>5
  <2> DEFINE a == said[d]
             x == Overlap(result(d).words, Service.words)
             y == Overlap(result(d).words, MarketWords)
             c == enrich(d)
  <2>3. a = Reported(setup, answer)[d] /\ a # None
    BY <1>10 DEF said
  <2> HIDE DEF a
  <2>4. /\ a.refs \in Int \cup {None} /\ a.relevance \in Int \cup {None}
        /\ a.local \in Int \cup {None}
    BY <2>2, <2>3, ReportedFields
  <2>5. x \in Int /\ y \in Int
    BY KeywordConstants, OverlapInt
  <2>6. /\ DOMAIN c = CompetitorFields
        /\ c.observations = seen(d) /\ c.refs = a.refs /\ c.domain = d
        /\ c.relevance = Most(OrZero(a.relevance), x) /\ c.local = Most(OrZero(a.local), y)
    BY DEF CompetitorFields, a
  <2> HIDE DEF c, x, y, seen
  <2>7. c.relevance \in Int /\ c.local \in Int
    BY <2>4, <2>5, <2>6, MostOverlap
  <2>8. Rival(c) /\ c.domain = d
    BY <2>1, <2>4, <2>6, <2>7 DEF Rival
  <2> QED BY <2>8 DEF c
<1>11. /\ DOMAIN cs = DOMAIN answered
       /\ \A m \in DOMAIN cs : cs[m] = enrich(answered[m])
  BY <1>3
<1> HIDE DEF enrich
<1>12. \A m \in DOMAIN cs : Rival(cs[m]) /\ cs[m].domain = answered[m]
  BY <1>8, <1>10, <1>11
<1> QED BY <1>9, <1>11, <1>12 DEF Rivals, Distinct

\* What the scorer takes for granted of the competitors and the providers
GradedInv == Rivals(competitors) /\ Quoted(providers)

LEMMA GradedInit == Init => GradedInv
<1> SUFFICES ASSUME Init PROVE GradedInv
  OBVIOUS
<1>1. competitors = <<>> /\ providers = <<>>
  BY DEF Init
<1>2. Listed(<<>>) /\ DOMAIN <<>> = {}
  BY EmptySeq DEF Listed
<1> QED BY <1>1, <1>2 DEF GradedInv, Rivals, Quoted

LEMMA GradedStep == EvidenceInv /\ GradedInv /\ [Next]_vars => GradedInv'
<1> SUFFICES ASSUME EvidenceInv, GradedInv, [Next]_vars PROVE GradedInv'
  OBVIOUS
<1>1. ASSUME UNCHANGED <<competitors, providers>> PROVE GradedInv'
  BY <1>1 DEF GradedInv
<1>2. ASSUME NEW answer \in CompetitorAnswers, FetchCompetitors(answer) PROVE GradedInv'
  <2> DEFINE cs == Enriched(SelectCompetitors(serps, CompetitorLimit),
                            Reported(setup, answer), serps)
  <2>1. competitors' = cs /\ providers' = providers
    BY <1>2 DEF FetchCompetitors
  <2>2. Rivals(cs)
    BY EnrichedRivals
  <2> HIDE DEF cs
  <2> QED BY <2>1, <2>2 DEF GradedInv
<1>3. ASSUME NEW list \in ProviderLists, FetchProviders(list) PROVE GradedInv'
  <2> DEFINE found(p) == ScoredProvider(FoundProvider(setup, p))
  <2>1. competitors' = competitors /\ providers' = [i \in DOMAIN list |-> found(list[i])]
    BY <1>3 DEF FetchProviders
  <2>2. ASSUME NEW i \in DOMAIN list
        PROVE  found(list[i]).score \in Int /\ found(list[i]).score <= 10000
    <3>1. list \in Seq(Listing) /\ IsFiniteSet(list[i].categories)
      BY ProviderConstants
    <3>2. list[i] \in Listing
      BY <3>1, LenProperties, ElementOfSeq
    <3> QED BY <3>1, <3>2, QuotedListing
  <2> HIDE DEF found
  <2>3. providers' = [i \in DOMAIN list |-> providers'[i]]
    BY <2>1
  <2>4. Listed(providers')
    BY <2>3, ProvidersListed
  <2>5. Quoted(providers')
    BY <2>1, <2>2, <2>4 DEF Quoted
  <2> QED BY <2>1, <2>5 DEF GradedInv
<1>4. ASSUME NEW r \in DOMAIN Releases, Activate(r) PROVE GradedInv'
  BY <1>1, <1>4 DEF Activate, evidence
<1>5. CASE ReadManifest
  BY <1>1, <1>5 DEF ReadManifest, evidence
<1>6. CASE ReadRecords
  BY <1>1, <1>6 DEF ReadRecords, evidence
<1>7. CASE ReadCounty
  BY <1>1, <1>7 DEF ReadCounty, evidence
<1>8. CASE AssessMarket
  BY <1>1, <1>8 DEF AssessMarket, evidence
<1>9. CASE ListMarkets
  BY <1>1, <1>9 DEF ListMarkets, evidence
<1>10. CASE PlanScan
  BY <1>1, <1>10 DEF PlanScan, evidence
<1>11. ASSUME NEW list \in CandidateLists, DiscoverKeywords(list) PROVE GradedInv'
  BY <1>1, <1>11 DEF DiscoverKeywords
<1>12. ASSUME NEW answer \in MetricAnswers, FetchMetrics(answer) PROVE GradedInv'
  BY <1>1, <1>12 DEF FetchMetrics
<1>13. ASSUME NEW answer \in SerpAnswers, FetchSerp(answer) PROVE GradedInv'
  BY <1>1, <1>13 DEF FetchSerp
<1>14. CASE ScoreScan
  BY <1>1, <1>14 DEF ScoreScan
<1>15. CASE Publish
  BY <1>1, <1>15 DEF Publish, evidence
<1>16. CASE Fail
  BY <1>1, <1>16 DEF Fail, evidence
<1>17. CASE UNCHANGED vars
  BY <1>1, <1>17 DEF vars, evidence
<1> QED
  BY <1>2, <1>3, <1>4, <1>5, <1>6, <1>7, <1>8, <1>9, <1>10, <1>11, <1>12, <1>13, <1>14, <1>15,
     <1>16, <1>17 DEF Next

---------------------------------------------------------------------------
(* The score: what it is made of                                              *)

\* Points of at most n together, and with one member more
UpTo(f, S, n) ==
    IsFiniteSet(S) /\ (\A y \in S : f[y] \in Nat) /\ SumFunctionOnSet(f, S) <= n

AtMost(f, x, m) == f[x] \in Nat /\ f[x] <= m

LEMMA UpToMember ==
  ASSUME NEW f, NEW S, NEW n \in Int, UpTo(f, S, n),
         NEW x, NEW m \in Int, AtMost(f, x, m)
  PROVE  UpTo(f, S \cup {x}, n + m)
<1> USE DEF AtMost
<1>0. IsFiniteSet(S) /\ IsFiniteSet(S \cup {x}) /\ \A y \in S : f[y] \in Nat
  BY FS_AddElement DEF UpTo
<1>1. SumFunctionOnSet(f, S) \in Nat /\ SumFunctionOnSet(f, S) <= n
  BY <1>0, SumNat DEF UpTo
<1> DEFINE U == S \cup {x}
<1>2. SumFunctionOnSet(f, U) <= n + m
  <2>1. CASE x \in S
    <3>1. U = S
      BY <2>1
    <3> HIDE DEF U
    <3> QED BY <1>1, <3>1
  <2>2. CASE x \notin S
    <3>1. SumFunctionOnSet(f, S \cup {x}) = f[x] + SumFunctionOnSet(f, S)
      BY <1>0, <2>2, SumAdd
    <3> QED BY <1>1, <3>1
  <2> QED BY <2>1, <2>2
<1>3. \A y \in U : f[y] \in Nat
  BY <1>0
<1> HIDE DEF U
<1>4. UpTo(f, U, n + m)
  BY <1>0, <1>2, <1>3 DEF UpTo, U
<1> QED BY <1>4 DEF U

\* The weights add up to one hundred points
LEMMA WeightsTotal ==
  ASSUME NEW f, \A c \in Components : f[c] \in Nat /\ f[c] <= 100 * Weights[c]
  PROVE  /\ IsFiniteSet(Components)
         /\ SumFunctionOnSet(f, Components) \in Nat
         /\ SumFunctionOnSet(f, Components) <= 10000
<1>1. /\ Weights["demand_evidence"] = 24 /\ Weights["commercial_value"] = 16
      /\ Weights["competitor_weakness"] = 22 /\ Weights["organic_click_availability"] = 16
      /\ Weights["provider_suitability"] = 14 /\ Weights["data_completeness"] = 8
  BY DEF Weights
<1>2. Components = {"demand_evidence", "commercial_value", "competitor_weakness",
                    "organic_click_availability", "provider_suitability", "data_completeness"}
  BY DEF Components, Weights
<1> DEFINE a == "demand_evidence"
           b == "commercial_value"
           c == "competitor_weakness"
           d == "organic_click_availability"
           e == "provider_suitability"
           g == "data_completeness"
<1>3. /\ f[a] \in Nat /\ f[a] <= 2400 /\ f[b] \in Nat /\ f[b] <= 1600
      /\ f[c] \in Nat /\ f[c] <= 2200 /\ f[d] \in Nat /\ f[d] <= 1600
      /\ f[e] \in Nat /\ f[e] <= 1400 /\ f[g] \in Nat /\ f[g] <= 800
  BY <1>1, <1>2
<1>4. Components = {a, b, c, d, e, g}
  BY <1>2
<1> HIDE DEF a, b, c, d, e, g
<1> DEFINE A == {} \cup {a}
           B == A \cup {b}
           C == B \cup {c}
           D == C \cup {d}
           E == D \cup {e}
           G == E \cup {g}
<1>5. UpTo(f, A, 0 + 2400)
  <2> DEFINE n == 0
             m == 2400
             Z == {}
  <2>1. n \in Int /\ m \in Int /\ UpTo(f, Z, n) /\ AtMost(f, a, m)
    BY <1>3, SumEmpty, FS_EmptySet DEF UpTo, AtMost
  <2> HIDE DEF n, m, Z
  <2>2. UpTo(f, Z \cup {a}, n + m)
    BY ONLY <2>1, UpToMember
  <2> QED BY <2>2 DEF n, m, Z
<1> HIDE DEF A
<1>6. UpTo(f, B, 2400 + 1600)
  <2> DEFINE n == 2400
             m == 1600
  <2>1. n \in Int /\ m \in Int /\ n = 0 + 2400 /\ AtMost(f, b, m)
    BY <1>3 DEF AtMost
  <2> HIDE DEF n, m
  <2>2. UpTo(f, A, n)
    BY <1>5, <2>1
  <2>3. UpTo(f, A \cup {b}, n + m)
    BY ONLY <2>1, <2>2, UpToMember
  <2> QED BY <2>3 DEF n, m
<1> HIDE DEF B
<1>7. UpTo(f, C, 4000 + 2200)
  <2> DEFINE n == 4000
             m == 2200
  <2>1. n \in Int /\ m \in Int /\ n = 2400 + 1600 /\ AtMost(f, c, m)
    BY <1>3 DEF AtMost
  <2> HIDE DEF n, m
  <2>2. UpTo(f, B, n)
    BY <1>6, <2>1
  <2>3. UpTo(f, B \cup {c}, n + m)
    BY ONLY <2>1, <2>2, UpToMember
  <2> QED BY <2>3 DEF n, m
<1> HIDE DEF C
<1>8. UpTo(f, D, 6200 + 1600)
  <2> DEFINE n == 6200
             m == 1600
  <2>1. n \in Int /\ m \in Int /\ n = 4000 + 2200 /\ AtMost(f, d, m)
    BY <1>3 DEF AtMost
  <2> HIDE DEF n, m
  <2>2. UpTo(f, C, n)
    BY <1>7, <2>1
  <2>3. UpTo(f, C \cup {d}, n + m)
    BY ONLY <2>1, <2>2, UpToMember
  <2> QED BY <2>3 DEF n, m
<1> HIDE DEF D
<1>9. UpTo(f, E, 7800 + 1400)
  <2> DEFINE n == 7800
             m == 1400
  <2>1. n \in Int /\ m \in Int /\ n = 6200 + 1600 /\ AtMost(f, e, m)
    BY <1>3 DEF AtMost
  <2> HIDE DEF n, m
  <2>2. UpTo(f, D, n)
    BY <1>8, <2>1
  <2>3. UpTo(f, D \cup {e}, n + m)
    BY ONLY <2>1, <2>2, UpToMember
  <2> QED BY <2>3 DEF n, m
<1> HIDE DEF E
<1>10. UpTo(f, G, 9200 + 800)
  <2> DEFINE n == 9200
             m == 800
  <2>1. n \in Int /\ m \in Int /\ n = 7800 + 1400 /\ AtMost(f, g, m)
    BY <1>3 DEF AtMost
  <2> HIDE DEF n, m
  <2>2. UpTo(f, E, n)
    BY <1>9, <2>1
  <2>3. UpTo(f, E \cup {g}, n + m)
    BY ONLY <2>1, <2>2, UpToMember
  <2> QED BY <2>3 DEF n, m
<1>11. G = Components
  BY <1>4 DEF E, D, C, B, A
<1> HIDE DEF G
<1>12. SumFunctionOnSet(f, G) \in Nat /\ SumFunctionOnSet(f, G) <= 10000
  BY <1>10, SumNat DEF UpTo
<1> QED BY <1>10, <1>11, <1>12 DEF UpTo

\* The penalties for what is missing are nothing negative
LEMMA PenaltyNat ==
  ASSUME NEW missing \in SUBSET Fields
  PROVE  MissingPenalty(missing) \in Nat
<1> DEFINE s == [f \in missing |-> Severity[f]]
           raw == SumFunctionOnSet(s, missing)
           p == [f \in missing |-> IF raw > 24 THEN Round(2400 * Severity[f], raw)
                                   ELSE 100 * Severity[f]]
<1>1. IsFiniteSet(missing)
  <2>1. IsFiniteSet(Fields)
    BY FieldsFinite
  <2> QED BY <2>1, FS_Subset
<1>2. ASSUME NEW f \in missing PROVE Severity[f] \in Nat
  BY DEF Fields, Severity
<1>3. MissingPenalty(missing) = SumFunctionOnSet(p, missing)
  BY DEF MissingPenalty, SumOver
<1>4. \A f \in missing : s[f] \in Nat
  BY <1>2
<1>5. raw \in Nat
  <2> HIDE DEF s
  <2> QED BY <1>1, <1>4, SumNat
<1> HIDE DEF raw
<1>6. ASSUME NEW f \in missing PROVE p[f] \in Nat
  <2>1. CASE raw > 24
    <3> DEFINE n == 2400 * Severity[f]
    <3>1. n \in Nat
      BY <1>2
    <3>2. p[f] = Round(n, raw)
      BY <2>1
    <3> HIDE DEF n, p
    <3>3. n <= n * raw
      <4>1. CASE n = 0
        BY <1>5, <4>1
      <4>2. CASE n > 0
        <5>1. n * raw >= n * 1
          BY <1>5, <2>1, <3>1, <4>2, TimesMore
        <5> QED BY <1>5, <3>1, <5>1
      <4> QED BY <3>1, <4>1, <4>2
    <3>4. Round(n, raw) \in Nat
      BY <1>5, <2>1, <3>1, <3>3, RoundBetween
    <3> QED BY <3>2, <3>4
  <2>2. CASE ~(raw > 24)
    <3>1. p[f] = 100 * Severity[f]
      BY <2>2
    <3> HIDE DEF p
    <3> QED BY <1>2, <3>1
  <2> QED BY <2>1, <2>2
<1> HIDE DEF p
<1>7. SumFunctionOnSet(p, missing) \in Nat
  BY <1>1, <1>6, SumNat
<1> QED BY <1>3, <1>7

LEMMA WithinPoints ==
  ASSUME NEW v, NEW weight \in Nat, Within(v, weight)
  PROVE  /\ Agree(v, Bounded(v, weight))
         /\ Bounded(v, weight) \in Nat /\ Bounded(v, weight) <= 100 * weight
<1>1. v \in Int
  BY DEF Within
<1> QED BY <1>1, WithinAgrees, BoundedOf

\* Every component agrees with its trace and keeps to its weight
LEMMA PartsAgree ==
  ASSUME NEW e, Sampled(e), Rivals(e.competitors), Quoted(e.providers),
         NEW demand, demand.service \in Nat, demand.market \in Nat \cup {None},
         NEW missing \in SUBSET Fields, NEW trace, trace = Trace(e, missing, demand),
         NEW parts, parts = ComponentScores(e, trace), NEW c \in Components
  PROVE  /\ Agree(Steps(trace[c]), parts[c])
         /\ parts[c] \in Nat /\ parts[c] <= 100 * Weights[c]
<1>0. e.metrics \in Seq(Metric) /\ e.serps \in Seq(Snapshots) /\ Listed(e.competitors)
  BY DEF Sampled
<1>1. parts[c] = CASE c = "competitor_weakness" -> CompetitorWeakness(e.competitors, e.metrics)
                   [] c = "organic_click_availability" -> OrganicAvailability(e.serps, e.metrics)
                   [] OTHER -> Bounded(Steps(trace[c]), Weights[c])
  BY DEF ComponentScores
<1>2. ASSUME Weights[c] \in Nat, Within(Steps(trace[c]), Weights[c]),
             c \notin {"competitor_weakness", "organic_click_availability"}
      PROVE  /\ Agree(Steps(trace[c]), parts[c])
             /\ parts[c] \in Nat /\ parts[c] <= 100 * Weights[c]
  <2>1. parts[c] = Bounded(Steps(trace[c]), Weights[c])
    BY <1>1, <1>2
  <2> QED BY <1>2, <2>1, WithinPoints
<1>3. CASE c = "demand_evidence"
  <2>1. trace[c] = DemandSteps(demand) /\ Weights[c] = 24
    BY <1>3 DEF Trace, Weights
  <2>2. Within(Steps(DemandSteps(demand)), 24)
    BY DemandWithin
  <2> QED BY <1>2, <1>3, <2>1, <2>2
<1>4. CASE c = "commercial_value"
  <2>1. trace[c] = CommercialSteps(e.metrics) /\ Weights[c] = 16
    BY <1>4 DEF Trace, Weights
  <2>2. Within(Steps(CommercialSteps(e.metrics)), 16)
    BY <1>0, CommercialWithin
  <2> QED BY <1>2, <1>4, <2>1, <2>2
<1>5. CASE c = "provider_suitability"
  <2>1. trace[c] = ProviderSteps(e.providers) /\ Weights[c] = 14
    BY <1>5 DEF Trace, Weights
  <2>2. Within(Steps(ProviderSteps(e.providers)), 14)
    BY ProviderWithin
  <2> QED BY <1>2, <1>5, <2>1, <2>2
<1>6. CASE c = "data_completeness"
  <2>1. trace[c] = CompletenessSteps(missing) /\ Weights[c] = 8
    BY <1>6 DEF Trace, Weights
  <2>2. Within(Steps(CompletenessSteps(missing)), 8)
    BY CompletenessWithin
  <2> QED BY <1>2, <1>6, <2>1, <2>2
<1>7. CASE c = "competitor_weakness"
  <2>1. trace[c] = CompetitorSteps(e.competitors, e.metrics) /\ Weights[c] = 22
    BY <1>7 DEF Trace, Weights
  <2>2. parts[c] = CompetitorWeakness(e.competitors, e.metrics)
    BY <1>1, <1>7
  <2>3. /\ Agree(Steps(CompetitorSteps(e.competitors, e.metrics)),
                 CompetitorWeakness(e.competitors, e.metrics))
        /\ CompetitorWeakness(e.competitors, e.metrics) \in Nat
        /\ CompetitorWeakness(e.competitors, e.metrics) <= 2200
    BY <1>0, CompetitorAgrees
  <2> DEFINE n == CompetitorWeakness(e.competitors, e.metrics)
             t == CompetitorSteps(e.competitors, e.metrics)
  <2> HIDE DEF n, t
  <2>4. /\ trace[c] = t /\ parts[c] = n /\ Weights[c] = 22
        /\ Agree(Steps(t), n) /\ n \in Nat /\ n <= 2200
    BY <2>1, <2>2, <2>3 DEF n, t
  <2> QED BY <2>4
<1>8. CASE c = "organic_click_availability"
  <2>1. trace[c] = OrganicSteps(e.serps, e.metrics) /\ Weights[c] = 16
    BY <1>8 DEF Trace, Weights
  <2>2. parts[c] = OrganicAvailability(e.serps, e.metrics)
    BY <1>1, <1>8
  <2>3. /\ Agree(Steps(OrganicSteps(e.serps, e.metrics)), OrganicAvailability(e.serps, e.metrics))
        /\ OrganicAvailability(e.serps, e.metrics) \in Nat
        /\ OrganicAvailability(e.serps, e.metrics) <= 1600
    BY <1>0, OrganicAgrees
  <2> DEFINE n == OrganicAvailability(e.serps, e.metrics)
             t == OrganicSteps(e.serps, e.metrics)
  <2> HIDE DEF n, t
  <2>4. /\ trace[c] = t /\ parts[c] = n /\ Weights[c] = 16
        /\ Agree(Steps(t), n) /\ n \in Nat /\ n <= 1600
    BY <2>1, <2>2, <2>3 DEF n, t
  <2> QED BY <2>4
<1>9. c \in {"demand_evidence", "commercial_value", "competitor_weakness",
             "organic_click_availability", "provider_suitability", "data_completeness"}
  BY DEF Components, Weights
<1> QED BY <1>3, <1>4, <1>5, <1>6, <1>7, <1>8, <1>9

\* A score that reconciles: components, total, cap and confidence
WellScored(s) ==
    /\ \A c \in Components : /\ Agree(Steps(s.trace[c]), s.components[c])
                             /\ s.components[c] \in Nat /\ s.components[c] <= 100 * Weights[c]
    /\ s.total \in Nat /\ s.total <= 10000
    /\ s.cap # None => s.cap \in Nat /\ s.total <= s.cap
    /\ s.confidence \in LevelSet

LEMMA ScoreReconciles ==
  ASSUME NEW e, Sampled(e), Rivals(e.competitors), Quoted(e.providers), Placeable(e.market)
  PROVE  /\ WellScored(Score(e))
         /\ DOMAIN Score(e) = {"total", "uncapped", "cap", "components", "trace", "missing",
                               "status", "confidence"}
<1> DEFINE demand == Demand(e.metrics, e.market)
           missing == MissingFields(e, demand)
           trace == Trace(e, missing, demand)
           confidence == Confidence(e, missing, demand)
           parts == ComponentScores(e, trace)
           all == [c \in Components |-> parts[c]]
           sum == SumFunctionOnSet(all, Components)
           uncapped == Most(0, sum - MissingPenalty(missing))
           cap == ScoreCap(missing, e.assessment)
           total == IF cap = None THEN uncapped ELSE Least(uncapped, cap)
           status == EvidenceStatus(missing, e.assessment)
<1>1. Score(e) = Combined(parts, trace, missing, e.assessment, confidence)
  BY DEF Score, ScoreKnowing, ScoreTraced
<1>2. Combined(parts, trace, missing, e.assessment, confidence) =
        [total |-> total, uncapped |-> uncapped, cap |-> cap, components |-> parts,
         trace |-> trace, missing |-> missing, status |-> status, confidence |-> confidence]
  <2> HIDE DEF demand, missing, trace, confidence, parts
  <2> QED BY DEF Combined, SumOver
<1>3. missing \in SUBSET Fields
  BY MissingOf DEF Missing
<1>4. demand.service \in Nat /\ demand.market \in Nat \cup {None}
  BY DemandNat DEF Sampled
<1>5. confidence \in LevelSet
  <2>1. Left(e, missing, demand) \in Int
    <3> HIDE DEF demand, missing
    <3> QED BY <1>3, LeftBounds
  <2> HIDE DEF demand, missing
  <2> QED BY <2>1, ConfidenceBelow
<1>6. trace = Trace(e, missing, demand) /\ parts = ComponentScores(e, trace)
  OBVIOUS
<1> HIDE DEF demand, missing, trace, parts
<1>7. \A c \in Components : /\ Agree(Steps(trace[c]), parts[c])
                            /\ parts[c] \in Nat /\ parts[c] <= 100 * Weights[c]
  BY <1>3, <1>4, <1>6, PartsAgree
<1>8. sum \in Nat /\ sum <= 10000
  <2>1. \A c \in Components : all[c] \in Nat /\ all[c] <= 100 * Weights[c]
    BY <1>7
  <2> HIDE DEF all
  <2> QED BY <2>1, WeightsTotal
<1>9. MissingPenalty(missing) \in Nat
  BY <1>3, PenaltyNat
<1> HIDE DEF sum
<1>10. uncapped \in Nat /\ uncapped <= 10000
  <2> DEFINE p == MissingPenalty(missing)
  <2>1. p \in Nat
    BY <1>9
  <2> HIDE DEF p
  <2>2. Most(0, sum - p) \in Nat /\ Most(0, sum - p) <= 10000
    BY <1>8, <2>1 DEF Most
  <2> QED BY <2>2 DEF p
<1>11. cap = None \/ cap \in Nat
  BY DEF ScoreCap
<1> HIDE DEF uncapped, cap, confidence, status
<1>12. total \in Nat /\ total <= 10000 /\ (cap # None => cap \in Nat /\ total <= cap)
  BY <1>10, <1>11 DEF Least
<1> HIDE DEF total
<1>13. /\ Score(e).total = total /\ Score(e).cap = cap /\ Score(e).components = parts
       /\ Score(e).trace = trace /\ Score(e).confidence = confidence
       /\ DOMAIN Score(e) = {"total", "uncapped", "cap", "components", "trace", "missing",
                             "status", "confidence"}
  BY <1>1, <1>2
<1> QED BY <1>5, <1>7, <1>12, <1>13 DEF WellScored

\* The gate lowers a score and its cap and leaves its parts
LEMMA GateReconciles ==
  ASSUME NEW s, WellScored(s), NEW q,
         DOMAIN s = {"total", "uncapped", "cap", "components", "trace", "missing", "status",
                     "confidence"}
  PROVE  WellScored(ApplyToScore(s, q))
<1> DEFINE r == ApplyToScore(s, q)
<1>1. CASE q = "pass"
  BY <1>1 DEF ApplyToScore
<1>2. CASE q = "warning"
  <2> DEFINE level == Lower(s.confidence, "medium")
  <2>1. r = [s EXCEPT !.confidence = level]
    BY <1>2 DEF ApplyToScore
  <2>2. level \in LevelSet
    <3>1. s.confidence \in LevelSet /\ "medium" \in LevelSet
      BY DEF WellScored, LevelSet
    <3>2. level \in {s.confidence, "medium"}
      BY <3>1, LowerOf
    <3> QED BY <3>1, <3>2
  <2> HIDE DEF r, level
  <2>3. /\ r.total = s.total /\ r.cap = s.cap /\ r.components = s.components
        /\ r.trace = s.trace /\ r.confidence = level
    BY <2>1
  <2>4. WellScored(r)
    BY <2>2, <2>3 DEF WellScored
  <2> QED BY <2>4 DEF r
<1>3. CASE q \notin {"pass", "warning"}
  <2> DEFINE bound == IF s.cap = None THEN 3500 ELSE Least(s.cap, 3500)
             total == Least(s.total, 3500)
  <2>1. r = [s EXCEPT !.total = total, !.status = "unusable", !.cap = bound,
                      !.confidence = "insufficient"]
    BY <1>3 DEF ApplyToScore
  <2>2. /\ s.total \in Nat /\ s.total <= 10000
        /\ s.cap # None => s.cap \in Nat /\ s.total <= s.cap
    BY DEF WellScored
  <2>3. total \in Nat /\ total <= 10000 /\ bound \in Nat /\ total <= bound
    BY <2>2 DEF Least
  <2> HIDE DEF r, bound, total
  <2>4. /\ r.total = total /\ r.cap = bound /\ r.components = s.components
        /\ r.trace = s.trace /\ r.confidence = "insufficient"
    BY <2>1
  <2>5. WellScored(r)
    BY <2>3, <2>4 DEF WellScored, LevelSet
  <2> QED BY <2>5 DEF r
<1> QED BY <1>1, <1>2, <1>3

---------------------------------------------------------------------------
(* The trace of a scan's score                                                *)

Stages ==
    {"prefiltering", "listed", "blocked", "discovering_keywords", "fetching_metrics",
     "fetching_serps", "fetching_providers", "scoring", "persisting_results", "completed", "failed"}
States == {"queued", "running", "needs_more_evidence", "preliminary_review", "full_review"}
OppFields == {"latest", "confidence", "state"}

\* A score, once there is one, reconciles, and stays when the scan fails
TraceInv ==
    /\ stage \in Stages
    /\ DOMAIN opp = OppFields /\ opp.state \in States
    /\ score # None => WellScored(score)
    /\ stage = "persisting_results" => WellScored(score)

LEMMA TraceInit == Init => TraceInv
<1> SUFFICES ASSUME Init PROVE TraceInv
  OBVIOUS
<1>1. /\ stage = "prefiltering" /\ score = None
      /\ opp = [latest |-> setup.latest,
                confidence |-> IF setup.latest = None THEN "insufficient" ELSE "high",
                state |-> "queued"]
  BY DEF Init
<1>2. DOMAIN opp = OppFields /\ opp.state = "queued"
  BY <1>1 DEF OppFields
<1> QED BY <1>1, <1>2 DEF TraceInv, Stages, States

\* The score a scan computes
LEMMA EvidenceReconciles ==
  ASSUME EvidenceInv, ScoreInv, GradedInv, NEW q
  PROVE  WellScored(ApplyToScore(Score(Evidence), q))
<1> DEFINE e == Evidence
<1>1. /\ e.competitors = competitors /\ e.providers = providers /\ e.market = setup.market
  BY DEF Evidence
<1>2. Sampled(e)
  BY EvidenceSampled
<1>3. Placeable(setup.market)
  BY SetupConstants DEF EvidenceInv, Placeable
<1>4. Rivals(e.competitors) /\ Quoted(e.providers) /\ Placeable(e.market)
  BY <1>1, <1>3 DEF GradedInv
<1> HIDE DEF e
<1>5. /\ WellScored(Score(e))
      /\ DOMAIN Score(e) = {"total", "uncapped", "cap", "components", "trace", "missing",
                            "status", "confidence"}
  BY <1>2, <1>4, ScoreReconciles
<1>6. WellScored(ApplyToScore(Score(e), q))
  BY <1>5, GateReconciles
<1> QED BY <1>6 DEF e

LEMMA TraceStep == EvidenceInv /\ ScoreInv /\ GradedInv /\ TraceInv /\ [Next]_vars => TraceInv'
<1> SUFFICES ASSUME EvidenceInv, ScoreInv, GradedInv, TraceInv, [Next]_vars PROVE TraceInv'
  OBVIOUS
<1>1. ASSUME UNCHANGED <<score, opp>>, stage' = stage \/ stage' \in Stages \ {"persisting_results"}
      PROVE  TraceInv'
  BY <1>1 DEF TraceInv
<1>2. ASSUME NEW state \in States, opp' = opp \/ opp' = [opp EXCEPT !.state = state],
             score' = score, stage' \in Stages \ {"persisting_results"}
      PROVE  TraceInv'
  <2>1. DOMAIN opp' = OppFields /\ opp'.state \in States
    BY <1>2 DEF TraceInv, OppFields
  <2> QED BY <1>2, <2>1 DEF TraceInv
<1>3. CASE ScoreScan
  <2>1. /\ score' = ApplyToScore(Score(Evidence), quality') /\ opp' = opp
        /\ stage' = "persisting_results"
    BY <1>3 DEF ScoreScan
  <2>2. WellScored(ApplyToScore(Score(Evidence), quality'))
    BY EvidenceReconciles
  <2>3. WellScored(score')
    BY <2>1, <2>2
  <2> QED BY <2>1, <2>3 DEF TraceInv, Stages
<1>4. CASE Publish
  <2>1. /\ opp' = [latest |-> IF Ranks(score) THEN score.total ELSE opp.latest,
                   confidence |-> PublishedConfidence, state |-> NextState]
        /\ stage' = "completed" /\ score' = score
    BY <1>4 DEF Publish, evidence
  <2>2. NextState \in States
    BY DEF NextState, States
  <2>3. DOMAIN opp' = OppFields /\ opp'.state \in States
    BY <2>1, <2>2 DEF OppFields
  <2> QED BY <2>1, <2>3 DEF TraceInv, Stages
<1>5. CASE Fail
  BY <1>2, <1>5 DEF Fail, evidence, Stages, States
<1>6. CASE PlanScan
  <2>1. /\ score' = score /\ stage' \in {"blocked", "discovering_keywords"}
        /\ opp' = opp \/ opp' = [opp EXCEPT !.state = "running"]
    BY <1>6 DEF PlanScan, evidence
  <2> QED BY <1>2, <2>1 DEF Stages, States
<1>7. ASSUME NEW r \in DOMAIN Releases, Activate(r) PROVE TraceInv'
  BY <1>1, <1>7 DEF Activate, evidence
<1>8. CASE ReadManifest
  BY <1>1, <1>8 DEF ReadManifest, evidence
<1>9. CASE ReadRecords
  BY <1>1, <1>9 DEF ReadRecords, evidence
<1>10. CASE ReadCounty
  BY <1>1, <1>10 DEF ReadCounty, evidence
<1>11. CASE AssessMarket
  BY <1>1, <1>11 DEF AssessMarket, evidence
<1>12. CASE ListMarkets
  BY <1>1, <1>12 DEF ListMarkets, evidence, Stages
<1>13. ASSUME NEW list \in CandidateLists, DiscoverKeywords(list) PROVE TraceInv'
  BY <1>1, <1>13 DEF DiscoverKeywords, Stages
<1>14. ASSUME NEW answer \in MetricAnswers, FetchMetrics(answer) PROVE TraceInv'
  BY <1>1, <1>14 DEF FetchMetrics, Stages
<1>15. ASSUME NEW answer \in SerpAnswers, FetchSerp(answer) PROVE TraceInv'
  BY <1>1, <1>15 DEF FetchSerp, Stages
<1>16. ASSUME NEW answer \in CompetitorAnswers, FetchCompetitors(answer) PROVE TraceInv'
  BY <1>1, <1>16 DEF FetchCompetitors, Stages
<1>17. ASSUME NEW list \in ProviderLists, FetchProviders(list) PROVE TraceInv'
  BY <1>1, <1>17 DEF FetchProviders, Stages
<1>18. CASE UNCHANGED vars
  BY <1>1, <1>18 DEF vars, evidence
<1> QED
  BY <1>3, <1>4, <1>5, <1>6, <1>7, <1>8, <1>9, <1>10, <1>11, <1>12, <1>13, <1>14, <1>15, <1>16,
     <1>17, <1>18 DEF Next

LEMMA LevelsAre == ToSet(Levels) = LevelSet
<1>1. Levels = <<"insufficient", "low", "medium", "high">>
  BY DEF Levels
<1>2. /\ DOMAIN Levels = {1, 2, 3, 4}
      /\ Levels[1] = "insufficient" /\ Levels[2] = "low" /\ Levels[3] = "medium"
      /\ Levels[4] = "high"
  BY <1>1
<1>3. ToSet(Levels) = {Levels[i] : i \in {1, 2, 3, 4}}
  BY <1>2 DEF ToSet
<1>4. {Levels[i] : i \in {1, 2, 3, 4}} = {Levels[1], Levels[2], Levels[3], Levels[4]}
  OBVIOUS
<1> QED BY <1>2, <1>3, <1>4 DEF LevelSet

\* The ranges of a score, and its trace
Ranged(s) ==
    /\ \A c \in Components : s.components[c] \in 0..(100 * Weights[c])
    /\ s.total \in Nat /\ s.total <= 10000
    /\ s.cap # None => s.total <= s.cap
    /\ s.confidence \in ToSet(Levels)
Explained(s) ==
    \A c \in Components : Abs(Steps(s.trace[c]) - 100 * s.components[c]) <= 100

LEMMA TraceReconciled == TraceInv => TraceReconciles
<1> SUFFICES ASSUME TraceInv PROVE TraceReconciles
  OBVIOUS
<1>1. ASSUME NEW s, WellScored(s)
      PROVE  Ranged(s) /\ Explained(s)
  <2>1. ASSUME NEW c \in Components
        PROVE  /\ s.components[c] \in 0..(100 * Weights[c])
               /\ Abs(Steps(s.trace[c]) - 100 * s.components[c]) <= 100
    <3> DEFINE t == Steps(s.trace[c])
               p == s.components[c]
               n == 100 * Weights[c]
    <3>1. Agree(t, p) /\ p \in Nat /\ p <= n
      BY <1>1 DEF WellScored
    <3>2. n \in Nat
      BY DEF Components, Weights
    <3> HIDE DEF t, p, n
    <3>3. p \in 0..n
      BY <3>1, <3>2
    <3>4. Abs(t - 100 * p) <= 100
      BY <3>1 DEF Agree, Abs
    <3> QED BY <3>3, <3>4 DEF t, p, n
  <2>2. s.total \in Nat /\ s.total <= 10000
    BY <1>1 DEF WellScored
  <2>3. s.confidence \in ToSet(Levels) /\ (s.cap # None => s.total <= s.cap)
    BY <1>1, LevelsAre DEF WellScored
  <2> QED BY <2>1, <2>2, <2>3 DEF Ranged, Explained
<1>2. TypeOK
  <2>1. stage \in Stages /\ opp.state \in States
    BY DEF TraceInv
  <2>2. score # None => Ranged(score)
    BY <1>1 DEF TraceInv
  <2> QED BY <2>1, <2>2 DEF TypeOK, Stages, States, Ranged
<1>3. stage = "persisting_results" => Explained(score)
  BY <1>1 DEF TraceInv
<1> QED BY <1>2, <1>3 DEF TraceReconciles, Explained

\* The trace of every component adds up to the score it explains (score.py:37,
\* docs/scoring_v2.md:40), and no component, total or confidence leaves its range:
\* TraceReconciles, for every answer of the providers and every setup.
THEOREM TracesReconcile == Spec => []TraceReconciles
<1>1. Init => EvidenceInv /\ ScoreInv /\ GradedInv /\ TraceInv
  BY EvidenceInit, ScoreInit, GradedInit, TraceInit
<1>2. EvidenceInv /\ ScoreInv /\ GradedInv /\ TraceInv /\ [Next]_vars
        => (EvidenceInv /\ ScoreInv /\ GradedInv /\ TraceInv)'
  BY EvidenceStep, ScoreStep, GradedStep, TraceStep
<1> QED BY <1>1, <1>2, TraceReconciled, PTL DEF Spec
=============================================================================
