----------------------------- MODULE FiniteSums -----------------------------
(***************************************************************************)
(* What the sum of a function over a finite set is, whatever the order in  *)
(* which SumFunctionOnSet adds. The proofs are by least counterexample.    *)
(***************************************************************************)
EXTENDS Functions, FiniteSets, FiniteSetTheorems, WellFoundedInduction, TLAPS

Pick(s) == CHOOSE x \in s : TRUE

\* g adds f up over every subset of a set of D.
Adds(g, f, D) ==
    g = [s \in D |-> IF s = {} THEN 0 ELSE f[Pick(s)] + g[s \ {Pick(s)}]]

LEMMA LeastNatural ==
    ASSUME NEW T, T \subseteq Nat, T # {}
    PROVE  \E x \in T : \A y \in T : x <= y
<1>1. PICK x \in T : \A y \in T : ~ (<<y, x>> \in OpToRel(<, Nat))
  BY NatLessThanWellFounded, WFMin
<1>2. x \in Nat /\ \A y \in T : y \in Nat /\ ~(y < x)
  BY <1>1 DEF OpToRel
<1>3. \A y \in T : x <= y
  BY <1>2
<1> QED
  BY <1>3

-----------------------------------------------------------------------------
\* There is a function that adds up, and only one.

\* The subsets of S of at most n elements
Small(S, n) == {s \in SUBSET S : Cardinality(s) <= n}

LEMMA PickIn == \A s : s # {} => Pick(s) \in s
BY DEF Pick

LEMMA SmallerByOne ==
    ASSUME NEW S, IsFiniteSet(S), NEW s \in SUBSET S, NEW x \in s
    PROVE  /\ s \ {x} \in SUBSET S
           /\ IsFiniteSet(s) /\ IsFiniteSet(s \ {x})
           /\ Cardinality(s) \in Nat /\ Cardinality(s \ {x}) \in Nat
           /\ Cardinality(s \ {x}) = Cardinality(s) - 1
<1>1. IsFiniteSet(s) /\ IsFiniteSet(s \ {x})
  BY FS_Subset
<1>2. Cardinality(s) \in Nat /\ Cardinality(s \ {x}) \in Nat
  BY <1>1, FS_CardinalityType
<1>3. Cardinality(s \ {x}) = Cardinality(s) - 1
  BY <1>1, FS_RemoveElement
<1> QED
  BY <1>1, <1>2, <1>3

LEMMA AddsSmall ==
    ASSUME NEW f, NEW S, IsFiniteSet(S), NEW n \in Nat
    PROVE  \E g : Adds(g, f, Small(S, n))
<1> DEFINE Bad == {m \in Nat : ~ \E g : Adds(g, f, Small(S, m))}
<1> SUFFICES ASSUME Bad # {} PROVE FALSE
  OBVIOUS
<1>1. PICK m \in Bad : \A k \in Bad : m <= k
  <2> HIDE DEF Bad
  <2>1. Bad \subseteq Nat
    BY DEF Bad
  <2> QED
    BY <2>1, LeastNatural
<1>2. CASE m = 0
  <2> DEFINE g == [s \in Small(S, 0) |-> 0]
  <2>1. \A s \in Small(S, 0) : s = {}
    BY FS_Subset, FS_EmptySet, FS_CardinalityType DEF Small
  <2>2. g = [s \in Small(S, 0) |-> IF s = {} THEN 0 ELSE f[Pick(s)] + g[s \ {Pick(s)}]]
    BY <2>1
  <2>3. Adds(g, f, Small(S, 0))
    BY <2>2 DEF Adds
  <2> QED
    BY <1>1, <1>2, <2>3
<1>3. CASE m # 0
  <2>1. m - 1 \in Nat /\ ~(m - 1 >= m)
    BY <1>1, <1>3
  <2>2. PICK g : Adds(g, f, Small(S, m - 1))
    BY <1>1, <2>1
  <2> DEFINE D == Small(S, m - 1)
             E == Small(S, m)
             h == [s \in E |-> IF s = {} THEN 0 ELSE f[Pick(s)] + g[s \ {Pick(s)}]]
  <2>3. \A s \in E : s # {} => s \ {Pick(s)} \in D
    BY <1>1, PickIn, SmallerByOne DEF Small
  <2>4. D \subseteq E
    BY <1>1, FS_Subset, FS_CardinalityType DEF Small
  <2>5. \A s \in D : h[s] = g[s]
    BY <2>2, <2>4 DEF Adds
  <2> HIDE DEF D, E
  <2>6. h = [s \in E |-> IF s = {} THEN 0 ELSE f[Pick(s)] + h[s \ {Pick(s)}]]
    BY <2>3, <2>5
  <2>7. Adds(h, f, E)
    BY <2>6 DEF Adds
  <2> QED
    BY <1>1, <2>7 DEF E
<1> QED
  BY <1>2, <1>3

LEMMA SumUnfolds ==
    ASSUME NEW f, NEW S, IsFiniteSet(S)
    PROVE  \E g : Adds(g, f, SUBSET S) /\ SumFunctionOnSet(f, S) = g[S]
<1>1. Cardinality(S) \in Nat
  BY FS_CardinalityType
<1>2. Small(S, Cardinality(S)) = SUBSET S
  BY FS_Subset DEF Small
<1>3. \E g : Adds(g, f, SUBSET S)
  <2>1. \E g : Adds(g, f, Small(S, Cardinality(S)))
    BY <1>1, AddsSmall
  <2> QED
    BY <1>2, <2>1
<1>4. Adds(CHOOSE g : Adds(g, f, SUBSET S), f, SUBSET S)
  BY <1>3
<1>5. SumFunctionOnSet(f, S) = (CHOOSE g : Adds(g, f, SUBSET S))[S]
  BY DEF SumFunctionOnSet, FoldFunctionOnSet, MapThenFoldSet, Adds, Pick
<1> QED
  BY <1>4, <1>5

-----------------------------------------------------------------------------
\* Least counterexample over the subsets of a finite set

\* A non-empty set of subsets of a finite set has a member of least cardinality.
LEMMA LeastSubset ==
    ASSUME NEW S, IsFiniteSet(S), NEW B, B \subseteq SUBSET S, B # {}
    PROVE  \E s \in B : \A t \in B : Cardinality(s) <= Cardinality(t)
<1> DEFINE Sizes == {Cardinality(s) : s \in B}
<1>1. Sizes \subseteq Nat
  BY FS_Subset, FS_CardinalityType
<1>2. Sizes # {}
  OBVIOUS
<1> HIDE DEF Sizes
<1>3. PICK n \in Sizes : \A m \in Sizes : n <= m
  BY <1>1, <1>2, LeastNatural
<1> QED
  BY <1>3 DEF Sizes

\* A finite set of naturals has a greatest.
LEMMA GreatestOf ==
    ASSUME NEW S, IsFiniteSet(S), S \subseteq Nat, S # {}
    PROVE  \E x \in S : \A y \in S : x >= y
<1> DEFINE Bad == {s \in SUBSET S : s # {} /\ ~ \E x \in s : \A y \in s : x >= y}
<1> SUFFICES ASSUME Bad # {} PROVE FALSE
  OBVIOUS
<1>1. PICK s \in Bad : \A t \in Bad : Cardinality(s) <= Cardinality(t)
  <2> HIDE DEF Bad
  <2>1. Bad \subseteq SUBSET S
    BY DEF Bad
  <2> QED BY <2>1, LeastSubset
<1>2. PICK x \in s : TRUE
  OBVIOUS
<1>3. /\ s \ {x} \in SUBSET S
      /\ Cardinality(s) \in Nat /\ Cardinality(s \ {x}) = Cardinality(s) - 1
  BY SmallerByOne
<1>4. s \ {x} \notin Bad
  <2> HIDE DEF Bad
  <2> QED BY <1>1, <1>3
<1>5. CASE s \ {x} = {}
  BY <1>5
<1>6. CASE s \ {x} # {}
  <2>1. PICK z \in s \ {x} : \A y \in s \ {x} : z >= y
    BY <1>3, <1>4, <1>6
  <2>2. \A y \in s : (IF z >= x THEN z ELSE x) >= y
    BY <2>1
  <2> QED BY <2>2
<1> QED BY <1>5, <1>6

\* Functions that agree have the same sums.
LEMMA AddsAgree ==
    ASSUME NEW T, IsFiniteSet(T), NEW S \in SUBSET T,
           NEW f, NEW e, \A x \in S : f[x] = e[x],
           NEW g, Adds(g, f, SUBSET S), NEW h, Adds(h, e, SUBSET T)
    PROVE  \A s \in SUBSET S : g[s] = h[s]
<1> DEFINE Bad == {s \in SUBSET S : g[s] # h[s]}
<1> SUFFICES ASSUME Bad # {} PROVE FALSE
  OBVIOUS
<1>1. IsFiniteSet(S)
  BY FS_Subset
<1>2. PICK s \in Bad : \A t \in Bad : Cardinality(s) <= Cardinality(t)
  <2> HIDE DEF Bad
  <2>1. Bad \subseteq SUBSET S
    BY DEF Bad
  <2> QED
    BY <1>1, <2>1, LeastSubset
<1>3. s # {}
  BY <1>2 DEF Adds
<1> DEFINE x == Pick(s)
<1>4. x \in s
  BY <1>3, PickIn
<1>5. s \ {x} \notin Bad
  BY <1>1, <1>2, <1>4, SmallerByOne
<1>6. g[s] = f[x] + g[s \ {x}] /\ h[s] = e[x] + h[s \ {x}]
  BY <1>2, <1>3 DEF Adds
<1> QED
  BY <1>2, <1>4, <1>5, <1>6

\* The order in which elements are taken does not matter.
LEMMA AddsAny ==
    ASSUME NEW f, NEW S, IsFiniteSet(S), \A x \in S : f[x] \in Int,
           NEW g, Adds(g, f, SUBSET S)
    PROVE  \A s \in SUBSET S : g[s] \in Int /\ \A x \in s : g[s] = f[x] + g[s \ {x}]
<1> DEFINE Bad == {s \in SUBSET S : ~(g[s] \in Int /\ \A x \in s : g[s] = f[x] + g[s \ {x}])}
<1> SUFFICES ASSUME Bad # {} PROVE FALSE
  OBVIOUS
<1>1. PICK s \in Bad : \A t \in Bad : Cardinality(s) <= Cardinality(t)
  <2> HIDE DEF Bad
  <2>1. Bad \subseteq SUBSET S
    BY DEF Bad
  <2> QED
    BY <2>1, LeastSubset
<1>2. s # {}
  BY <1>1 DEF Adds
<1>3. PICK c : c = Pick(s) /\ c \in s
  BY <1>2, PickIn
<1>4. s \in SUBSET S
  BY <1>1
<1>5. \A t \in SUBSET S : Cardinality(t) < Cardinality(s) =>
          g[t] \in Int /\ \A x \in t : g[t] = f[x] + g[t \ {x}]
  <2> SUFFICES ASSUME NEW t \in SUBSET S, Cardinality(t) < Cardinality(s), t \in Bad PROVE FALSE
    OBVIOUS
  <2>1. Cardinality(s) <= Cardinality(t)
    BY <1>1
  <2>2. Cardinality(s) \in Nat /\ Cardinality(t) \in Nat
    BY <1>4, FS_Subset, FS_CardinalityType
  <2> QED
    BY <2>1, <2>2
<1>6. \A x \in s : s \ {x} \in SUBSET S /\ Cardinality(s \ {x}) < Cardinality(s)
  <2> TAKE x \in s
  <2>1. /\ s \ {x} \in SUBSET S /\ Cardinality(s) \in Nat
        /\ Cardinality(s \ {x}) = Cardinality(s) - 1
    BY <1>4, SmallerByOne
  <2> QED
    BY <2>1
<1>7. g[s] = f[c] + g[s \ {c}]
  BY <1>2, <1>3, <1>4 DEF Adds
<1>8. f[c] \in Int /\ g[s \ {c}] \in Int
  BY <1>3, <1>4, <1>5, <1>6
<1>9. ASSUME NEW x \in s, x # c PROVE g[s] = f[x] + g[s \ {x}]
  <2>1. PICK t : t = (s \ {c}) \ {x} /\ t = (s \ {x}) \ {c}
    OBVIOUS
  <2>2. g[s \ {c}] = f[x] + g[t]
    BY <1>3, <1>5, <1>6, <1>9, <2>1
  <2>3. g[s \ {x}] = f[c] + g[t]
    BY <1>3, <1>5, <1>6, <1>9, <2>1
  <2>4. g[t] \in Int
    <3>1. /\ t \in SUBSET S /\ Cardinality(t) < Cardinality(s \ {x})
          /\ Cardinality(s \ {x}) < Cardinality(s)
      <4> DEFINE u == s \ {x}
      <4>1. u \in SUBSET S /\ c \in u /\ Cardinality(u) < Cardinality(s)
        BY <1>3, <1>6, <1>9
      <4> HIDE DEF u
      <4>2. /\ u \ {c} \in SUBSET S /\ Cardinality(u) \in Nat
            /\ Cardinality(u \ {c}) = Cardinality(u) - 1
        BY <4>1, SmallerByOne
      <4>3. t = u \ {c}
        BY <2>1 DEF u
      <4>4. t \in SUBSET S /\ Cardinality(t) < Cardinality(u) /\ Cardinality(u) < Cardinality(s)
        BY <4>1, <4>2, <4>3
      <4> QED
        BY <4>4 DEF u
    <3>2. Cardinality(t) \in Nat /\ Cardinality(s) \in Nat /\ Cardinality(s \ {x}) \in Nat
      BY <1>4, <2>1, FS_Subset, FS_CardinalityType
    <3> QED
      BY <1>5, <3>1, <3>2
  <2>5. f[x] \in Int
    BY <1>4, <1>9
  <2> QED
    BY <1>7, <1>8, <2>2, <2>3, <2>4, <2>5
<1>10. g[s] \in Int
  BY <1>7, <1>8
<1> QED
  BY <1>1, <1>7, <1>9, <1>10

-----------------------------------------------------------------------------
\* What users of a sum need to know

LEMMA SumOfNone == ASSUME NEW f PROVE SumFunctionOnSet(f, {}) = 0
<1>1. PICK g : Adds(g, f, SUBSET {}) /\ SumFunctionOnSet(f, {}) = g[{}]
  BY FS_EmptySet, SumUnfolds
<1> QED
  BY <1>1 DEF Adds

LEMMA SumIsInt ==
    ASSUME NEW f, NEW S, IsFiniteSet(S), \A x \in S : f[x] \in Int
    PROVE  SumFunctionOnSet(f, S) \in Int
<1>1. PICK g : Adds(g, f, SUBSET S) /\ SumFunctionOnSet(f, S) = g[S]
  BY SumUnfolds
<1>2. Adds(g, f, SUBSET S)
  BY <1>1
<1>3. \A s \in SUBSET S : g[s] \in Int
  BY <1>2, AddsAny
<1> QED
  BY <1>1, <1>3

\* Only the values on the set count.
LEMMA SumsAgree ==
    ASSUME NEW f, NEW e, NEW S, IsFiniteSet(S), \A x \in S : f[x] = e[x]
    PROVE  SumFunctionOnSet(f, S) = SumFunctionOnSet(e, S)
<1>1. PICK g : Adds(g, f, SUBSET S) /\ SumFunctionOnSet(f, S) = g[S]
  BY SumUnfolds
<1>2. PICK h : Adds(h, e, SUBSET S) /\ SumFunctionOnSet(e, S) = h[S]
  BY SumUnfolds
<1> QED
  BY <1>1, <1>2, AddsAgree

\* An element adds its value.
LEMMA SumWith ==
    ASSUME NEW f, NEW S, IsFiniteSet(S), NEW x \in S, \A y \in S : f[y] \in Int
    PROVE  SumFunctionOnSet(f, S) = f[x] + SumFunctionOnSet(f, S \ {x})
<1>1. PICK g : Adds(g, f, SUBSET S) /\ SumFunctionOnSet(f, S) = g[S]
  BY SumUnfolds
<1>2. IsFiniteSet(S \ {x})
  BY FS_Subset
<1>3. PICK h : Adds(h, f, SUBSET (S \ {x})) /\ SumFunctionOnSet(f, S \ {x}) = h[S \ {x}]
  BY <1>2, SumUnfolds
<1>4. Adds(g, f, SUBSET S) /\ Adds(h, f, SUBSET (S \ {x}))
  BY <1>1, <1>3
<1>5. h[S \ {x}] = g[S \ {x}]
  <2>1. \A s \in SUBSET (S \ {x}) : h[s] = g[s]
    <3> DEFINE R == S \ {x}
    <3>1. PICK e : e = f
      OBVIOUS
    <3>2. /\ R \subseteq S /\ \A y \in R : f[y] = e[y]
          /\ Adds(h, f, SUBSET R) /\ Adds(g, e, SUBSET S)
          /\ R \in SUBSET S
      BY <1>4, <3>1
    <3> HIDE DEF R
    <3>3. \A s \in SUBSET R : h[s] = g[s]
      BY <3>2, AddsAgree
    <3> QED
      BY <3>3 DEF R
  <2> QED
    BY <2>1
<1>6. g[S] = f[x] + g[S \ {x}]
  <2>1. \A s \in SUBSET S : g[s] \in Int /\ \A y \in s : g[s] = f[y] + g[s \ {y}]
    BY <1>4, AddsAny
  <2> QED
    BY <2>1
<1> QED
  BY <1>1, <1>3, <1>5, <1>6

\* One value of a function changes.
LEMMA SumChanges ==
    ASSUME NEW f, NEW e, NEW S, IsFiniteSet(S), NEW x \in S, \A y \in S : f[y] \in Int,
           e[x] \in Int, \A y \in S \ {x} : e[y] = f[y]
    PROVE  SumFunctionOnSet(e, S) = SumFunctionOnSet(f, S) - f[x] + e[x]
<1>1. IsFiniteSet(S \ {x})
  BY FS_Subset
<1>2. PICK rest : rest = SumFunctionOnSet(f, S \ {x}) /\ rest \in Int
  BY <1>1, SumIsInt
<1>3. SumFunctionOnSet(f, S) = f[x] + rest
  BY <1>2, SumWith
<1>4. SumFunctionOnSet(e, S \ {x}) = rest
  BY <1>1, <1>2, SumsAgree
<1>5. SumFunctionOnSet(e, S) = e[x] + rest
  <2>1. \A y \in S : e[y] \in Int
    OBVIOUS
  <2> QED
    BY <1>4, <2>1, SumWith
<1>6. f[x] \in Int
  OBVIOUS
<1> QED
  BY <1>2, <1>3, <1>5, <1>6

\* An element joins.
LEMMA SumGrows ==
    ASSUME NEW f, NEW e, NEW S, IsFiniteSet(S), NEW x, x \notin S, e[x] \in Int,
           \A y \in S : f[y] \in Int /\ e[y] = f[y]
    PROVE  SumFunctionOnSet(e, S \cup {x}) = SumFunctionOnSet(f, S) + e[x]
<1> DEFINE T == S \cup {x}
<1>1. IsFiniteSet(T) /\ x \in T /\ T \ {x} = S /\ \A y \in T : e[y] \in Int
  BY FS_AddElement
<1>2. SumFunctionOnSet(e, S) = SumFunctionOnSet(f, S) /\ SumFunctionOnSet(f, S) \in Int
  BY SumsAgree, SumIsInt
<1> HIDE DEF T
<1>3. SumFunctionOnSet(e, T) = e[x] + SumFunctionOnSet(e, T \ {x})
  BY <1>1, SumWith
<1>4. SumFunctionOnSet(e, T) = e[x] + SumFunctionOnSet(f, S)
  BY <1>1, <1>2, <1>3, Zenon
<1>5. SumFunctionOnSet(e, T) = SumFunctionOnSet(f, S) + e[x]
  BY <1>2, <1>4
<1> QED
  BY <1>5 DEF T

\* Sums of smaller values are smaller.
LEMMA SumsMonotone ==
    ASSUME NEW f, NEW e, NEW S, IsFiniteSet(S),
           \A x \in S : f[x] \in Int /\ e[x] \in Int /\ f[x] <= e[x]
    PROVE  SumFunctionOnSet(f, S) <= SumFunctionOnSet(e, S)
<1> DEFINE Bad == {s \in SUBSET S : ~(SumFunctionOnSet(f, s) <= SumFunctionOnSet(e, s))}
<1> SUFFICES ASSUME Bad # {} PROVE FALSE
  OBVIOUS
<1>1. PICK s \in Bad : \A t \in Bad : Cardinality(s) <= Cardinality(t)
  <2> HIDE DEF Bad
  <2>1. Bad \subseteq SUBSET S
    BY DEF Bad
  <2> QED
    BY <2>1, LeastSubset
<1>2. s \in SUBSET S /\ IsFiniteSet(s) /\ ~(SumFunctionOnSet(f, s) <= SumFunctionOnSet(e, s))
  BY <1>1, FS_Subset
<1>3. s # {}
  <2>1. SumFunctionOnSet(f, {}) = 0 /\ SumFunctionOnSet(e, {}) = 0
    BY SumOfNone
  <2> QED
    BY <1>2, <2>1
<1>4. PICK x : x \in s
  BY <1>3
<1>5. /\ Cardinality(s) \in Nat /\ Cardinality(s \ {x}) = Cardinality(s) - 1
      /\ s \ {x} \in SUBSET S /\ IsFiniteSet(s \ {x})
  BY <1>2, <1>4, SmallerByOne
<1>6. SumFunctionOnSet(f, s \ {x}) <= SumFunctionOnSet(e, s \ {x})
  <2> SUFFICES ASSUME s \ {x} \in Bad PROVE FALSE
    BY <1>5
  <2>1. Cardinality(s) <= Cardinality(s \ {x})
    BY <1>1
  <2> QED
    BY <1>5, <2>1
<1>7. /\ SumFunctionOnSet(f, s) = f[x] + SumFunctionOnSet(f, s \ {x})
      /\ SumFunctionOnSet(e, s) = e[x] + SumFunctionOnSet(e, s \ {x})
  <2>1. \A y \in s : f[y] \in Int /\ e[y] \in Int
    BY <1>2
  <2> QED
    BY <1>2, <1>4, <2>1, SumWith
<1>8. SumFunctionOnSet(f, s \ {x}) \in Int /\ SumFunctionOnSet(e, s \ {x}) \in Int
  <2>1. \A y \in s \ {x} : f[y] \in Int /\ e[y] \in Int
    BY <1>2
  <2> QED
    BY <1>5, <2>1, SumIsInt
<1>9. f[x] \in Int /\ e[x] \in Int /\ f[x] <= e[x]
  BY <1>2, <1>4
<1> QED
  BY <1>2, <1>6, <1>7, <1>8, <1>9

\* Zeros add up to zero.
LEMMA SumOfZeros ==
    ASSUME NEW f, NEW S, IsFiniteSet(S), \A x \in S : f[x] = 0
    PROVE  SumFunctionOnSet(f, S) = 0
<1> DEFINE Bad == {s \in SUBSET S : SumFunctionOnSet(f, s) # 0}
<1> SUFFICES ASSUME Bad # {} PROVE FALSE
  OBVIOUS
<1>1. PICK s \in Bad : \A t \in Bad : Cardinality(s) <= Cardinality(t)
  <2> HIDE DEF Bad
  <2>1. Bad \subseteq SUBSET S
    BY DEF Bad
  <2> QED BY <2>1, LeastSubset
<1>2. s # {}
  BY SumOfNone
<1>3. PICK x \in s : TRUE
  BY <1>2
<1>4. /\ s \ {x} \in SUBSET S /\ IsFiniteSet(s)
      /\ Cardinality(s) \in Nat /\ Cardinality(s \ {x}) = Cardinality(s) - 1
  BY SmallerByOne
<1>5. s \ {x} \notin Bad
  BY <1>1, <1>4
<1>6. SumFunctionOnSet(f, s \ {x}) = 0
  BY <1>4, <1>5
<1>7. SumFunctionOnSet(f, s) = f[x] + SumFunctionOnSet(f, s \ {x})
  <2>1. \A y \in s : f[y] \in Int
    OBVIOUS
  <2> QED BY <1>4, <2>1, SumWith
<1>8. SumFunctionOnSet(f, s) = 0
  BY <1>6, <1>7
<1> QED BY <1>8

\* A sum of naturals is one, and no value exceeds it.
LEMMA SumIsNat ==
    ASSUME NEW f, NEW S, IsFiniteSet(S), \A x \in S : f[x] \in Nat
    PROVE  SumFunctionOnSet(f, S) \in Nat
<1> DEFINE Bad == {s \in SUBSET S : ~(SumFunctionOnSet(f, s) \in Nat)}
<1> SUFFICES ASSUME Bad # {} PROVE FALSE
  OBVIOUS
<1>1. PICK s \in Bad : \A t \in Bad : Cardinality(s) <= Cardinality(t)
  <2> HIDE DEF Bad
  <2>1. Bad \subseteq SUBSET S
    BY DEF Bad
  <2> QED
    BY <2>1, LeastSubset
<1>2. s \in SUBSET S /\ IsFiniteSet(s) /\ ~(SumFunctionOnSet(f, s) \in Nat)
  BY <1>1, FS_Subset
<1>3. PICK x : x \in s
  <2>1. SumFunctionOnSet(f, {}) = 0
    BY SumOfNone
  <2> QED
    BY <1>2, <2>1
<1>4. /\ Cardinality(s) \in Nat /\ Cardinality(s \ {x}) = Cardinality(s) - 1
      /\ s \ {x} \in SUBSET S
  BY <1>2, <1>3, SmallerByOne
<1>5. SumFunctionOnSet(f, s \ {x}) \in Nat
  <2> SUFFICES ASSUME s \ {x} \in Bad PROVE FALSE
    BY <1>4
  <2>1. Cardinality(s) <= Cardinality(s \ {x})
    BY <1>1
  <2> QED
    BY <1>4, <2>1
<1>6. SumFunctionOnSet(f, s) = f[x] + SumFunctionOnSet(f, s \ {x})
  <2>1. \A y \in s : f[y] \in Int
    BY <1>2
  <2> QED
    BY <1>2, <1>3, <2>1, SumWith
<1>7. f[x] \in Nat
  BY <1>2, <1>3
<1> QED
  BY <1>2, <1>5, <1>6, <1>7

LEMMA ValueWithinSum ==
    ASSUME NEW f, NEW S, IsFiniteSet(S), NEW x \in S, \A y \in S : f[y] \in Nat
    PROVE  f[x] <= SumFunctionOnSet(f, S)
<1>1. IsFiniteSet(S \ {x})
  BY FS_Subset
<1>2. SumFunctionOnSet(f, S \ {x}) \in Nat
  BY <1>1, SumIsNat
<1>3. SumFunctionOnSet(f, S) = f[x] + SumFunctionOnSet(f, S \ {x})
  <2>1. \A y \in S : f[y] \in Int
    OBVIOUS
  <2> QED
    BY <2>1, SumWith
<1> QED
  BY <1>2, <1>3
=============================================================================
