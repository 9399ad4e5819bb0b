---------------------------- MODULE SumTheorems ----------------------------
(***************************************************************************)
(* Sums over finite sets, as Portfolio and Startup use them.               *)
(* SumFunctionOnSet is a recursive function; induction over the subsets of *)
(* a set is had from their well-founded order: a set of subsets for which  *)
(* the claim fails would have a minimal member.                            *)
(***************************************************************************)
EXTENDS Integers, FiniteSets, Functions, FiniteSetTheorems, WellFoundedInduction, TLAPS

\* A set of natural numbers that has a member has a smallest one.
LEMMA Smallest ==
  ASSUME NEW T \in SUBSET Nat, T # {}
  PROVE  \E m \in T : \A k \in T : m <= k
<1> DEFINE R == OpToRel(<, Nat)
<1>1. \A k, m \in Nat : k < m => <<k, m>> \in R
  BY Zenon DEF OpToRel
<1>2. IsWellFoundedOn(R, Nat)
  BY NatLessThanWellFounded, Zenon
<1> HIDE DEF R
<1>3. PICK m \in T : \A k \in T : <<k, m>> \notin R
  BY <1>2, WFMin, Zenon
<1>4. \A k \in T : m <= k
  <2> TAKE k \in T
  <2>1. k \in Nat /\ m \in Nat /\ ~(k < m)
    BY <1>1, <1>3
  <2>2. QED
    BY <2>1
<1>5. QED
  BY <1>4

\* Among the subsets of a finite set some are minimal.
LEMMA MinimalSubset ==
  ASSUME NEW S, IsFiniteSet(S), NEW T \in SUBSET SUBSET S, T # {}
  PROVE  \E U \in T : \A V \in T : ~(V \subseteq U /\ V # U)
<1> DEFINE R == StrictSubsetOrdering(S)
           W == FiniteSubsetsOf(S)
<1>1. IsWellFoundedOn(R, W)
  BY FS_StrictSubsetOrderingWellFounded, Zenon
<1>2. T \subseteq W
  BY FS_Subset DEF FiniteSubsetsOf
<1>3. \A U, V \in T : V \subseteq U /\ V # U => <<V, U>> \in R
  BY DEF StrictSubsetOrdering
<1> HIDE DEF R, W
<1>4. \E U \in T : \A V \in T : <<V, U>> \notin R
  BY <1>1, <1>2, WFMin, Zenon
<1>5. QED
  BY <1>3, <1>4

\* Induction over the subsets of a finite set, for a set of good ones.
LEMMA SubsetInduction ==
  ASSUME NEW S, IsFiniteSet(S), NEW Good \in SUBSET SUBSET S,
         \A U \in SUBSET S : (\A V \in SUBSET U : V # U => V \in Good) => U \in Good
  PROVE  \A U \in SUBSET S : U \in Good
<1> DEFINE Bad == (SUBSET S) \ Good
<1>1. SUFFICES ASSUME Bad # {} PROVE FALSE
  OBVIOUS
<1>2. Bad \in SUBSET SUBSET S
  OBVIOUS
<1>3. \E U \in Bad : \A V \in Bad : ~(V \subseteq U /\ V # U)
  <2> HIDE DEF Bad
  <2> QED
    BY <1>1, <1>2, MinimalSubset
<1>4. PICK U \in Bad : \A V \in Bad : ~(V \subseteq U /\ V # U)
  BY <1>3
<1>5. ASSUME NEW V \in SUBSET U, V # U PROVE V \in Good
  BY <1>4, <1>5
<1>6. QED
  BY <1>4, <1>5

\* The member that the fold takes next.
Pick(s) == CHOOSE x \in s : TRUE

\* The recursion that SumFunctionOnSet unfolds.
IsSum(g, f, D) == g = [s \in D |-> IF s = {} THEN 0 ELSE f[Pick(s)] + g[s \ {Pick(s)}]]

\* The sum of a set is what that recursion gives it.
LEMMA SumUnfold ==
  ASSUME NEW f, NEW S
  PROVE  SumFunctionOnSet(f, S) = (CHOOSE g : IsSum(g, f, SUBSET S))[S]
BY DEF SumFunctionOnSet, FoldFunctionOnSet, MapThenFoldSet, IsSum, Pick

\* It is a member.
LEMMA PickIn == ASSUME NEW s, s # {} PROVE Pick(s) \in s
BY DEF Pick

\* The recursion has a solution: one for the subsets of up to n members extends to
\* those of n + 1.
LEMMA SumExists ==
  ASSUME NEW f, NEW S, IsFiniteSet(S)
  PROVE  \E g : IsSum(g, f, SUBSET S)
<1> DEFINE D(n) == {s \in SUBSET S : Cardinality(s) <= n}
           Bad == {n \in Nat : ~ \E g : IsSum(g, f, D(n))}
<1>0. \A s \in SUBSET S : IsFiniteSet(s) /\ Cardinality(s) \in Nat /\ Cardinality(s) <= Cardinality(S)
  BY FS_Subset, FS_CardinalityType
<1>1. Bad = {}
  <2>1. SUFFICES ASSUME Bad # {} PROVE FALSE
    OBVIOUS
  <2>2. PICK m \in Bad : \A k \in Bad : m <= k
    BY <2>1, Smallest
  <2>3. m # 0
    <3>1. ASSUME m = 0 PROVE FALSE
      <4> DEFINE g == [s \in D(0) |-> 0]
      <4>1. \A s \in D(0) : s = {}
        BY <1>0, FS_EmptySet
      <4>2. IsSum(g, f, D(0))
        BY <4>1 DEF IsSum
      <4>3. QED
        BY <2>2, <3>1, <4>2
    <3>2. QED
      BY <3>1
  <2>4. m - 1 \in Nat /\ m - 1 \notin Bad
    <3>1. m - 1 \in Nat /\ m - 1 < m /\ m \in Nat
      BY <2>2, <2>3
    <3>2. QED
      BY <2>2, <3>1
  <2>5. PICK g : IsSum(g, f, D(m - 1))
    BY <2>4
  <2> DEFINE h == [s \in D(m) |-> IF s = {} THEN 0 ELSE f[Pick(s)] + g[s \ {Pick(s)}]]
  <2>6. \A s \in D(m) : s # {} => s \ {Pick(s)} \in D(m - 1)
    <3> SUFFICES ASSUME NEW s \in D(m), s # {} PROVE s \ {Pick(s)} \in D(m - 1)
      OBVIOUS
    <3>1. IsFiniteSet(s) /\ Pick(s) \in s /\ Cardinality(s) \in Nat
      BY <1>0, PickIn
    <3>2. Cardinality(s \ {Pick(s)}) = Cardinality(s) - 1
      BY <3>1, FS_RemoveElement
    <3>3. QED
      BY <2>2, <3>1, <3>2
  <2>7. \A s \in D(m - 1) : s \in D(m) /\ h[s] = g[s]
    <3>1. \A s \in D(m - 1) : s \in D(m)
      BY <1>0, <2>2
    <3>2. ASSUME NEW s \in D(m - 1) PROVE h[s] = g[s]
      <4>1. g[s] = IF s = {} THEN 0 ELSE f[Pick(s)] + g[s \ {Pick(s)}]
        <5> HIDE DEF D
        <5> QED
          BY <2>5 DEF IsSum
      <4>2. h[s] = IF s = {} THEN 0 ELSE f[Pick(s)] + g[s \ {Pick(s)}]
        <5> HIDE DEF D
        <5> QED
          BY <3>1
      <4>3. QED
        BY <4>1, <4>2
    <3>3. QED
      BY <3>1, <3>2
  <2>8. IsSum(h, f, D(m))
    <3> HIDE DEF D
    <3>1. \A s \in D(m) : s # {} => h[s \ {Pick(s)}] = g[s \ {Pick(s)}]
      BY <2>6, <2>7
    <3>2. h = [s \in D(m) |-> IF s = {} THEN 0 ELSE f[Pick(s)] + h[s \ {Pick(s)}]]
      BY <3>1
    <3>3. QED
      BY <3>2 DEF IsSum
  <2>9. QED
    BY <2>2, <2>8
<1>2. SUBSET S = D(Cardinality(S))
  BY <1>0
<1>3. Cardinality(S) \in Nat
  BY FS_CardinalityType
<1>4. QED
  <2> HIDE DEF D
  <2> QED
    BY <1>1, <1>2, <1>3

\* The recursion gives every subset the same sum, whichever superset it is read in.
LEMMA SumUnique ==
  ASSUME NEW f, NEW S, IsFiniteSet(S), NEW T \in SUBSET S, NEW g, NEW h,
         IsSum(g, f, SUBSET S), IsSum(h, f, SUBSET T)
  PROVE  g[T] = h[T]
<1> DEFINE Good == {U \in SUBSET T : g[U] = h[U]}
<1>1. IsFiniteSet(T)
  BY FS_Subset
<1>2. ASSUME NEW U \in SUBSET T, \A V \in SUBSET U : V # U => V \in Good
      PROVE  U \in Good
  <2>1. /\ g[U] = IF U = {} THEN 0 ELSE f[Pick(U)] + g[U \ {Pick(U)}]
        /\ h[U] = IF U = {} THEN 0 ELSE f[Pick(U)] + h[U \ {Pick(U)}]
    BY DEF IsSum
  <2>2. U # {} => U \ {Pick(U)} \in SUBSET U /\ U \ {Pick(U)} # U
    BY PickIn
  <2>3. QED
    BY <1>2, <2>1, <2>2
<1>3. \A U \in SUBSET T : U \in Good
  <2>1. Good \in SUBSET SUBSET T
    OBVIOUS
  <2> HIDE DEF Good
  <2> QED
    BY <1>1, <1>2, <2>1, SubsetInduction
<1>4. QED
  BY <1>3

\* The empty sum.
LEMMA SumEmpty ==
  ASSUME NEW f
  PROVE  SumFunctionOnSet(f, {}) = 0
<1>1. PICK g : IsSum(g, f, SUBSET {})
  BY SumExists, FS_EmptySet
<1> DEFINE c == CHOOSE k : IsSum(k, f, SUBSET {})
<1>2. IsSum(c, f, SUBSET {})
  BY <1>1
<1>3. c[{}] = 0
  <2> HIDE DEF c
  <2> QED
    BY <1>2 DEF IsSum
<1>4. QED
  BY <1>3, SumUnfold

\* One step of the fold.
LEMMA SumStep ==
  ASSUME NEW f, NEW S, IsFiniteSet(S), S # {}
  PROVE  SumFunctionOnSet(f, S) = f[Pick(S)] + SumFunctionOnSet(f, S \ {Pick(S)})
<1> DEFINE T == S \ {Pick(S)}
           g == CHOOSE k : IsSum(k, f, SUBSET S)
           h == CHOOSE k : IsSum(k, f, SUBSET T)
<1>1. T \in SUBSET S /\ IsFiniteSet(T)
  BY FS_Subset
<1>2. IsSum(g, f, SUBSET S) /\ IsSum(h, f, SUBSET T)
  BY <1>1, SumExists
<1>3. SumFunctionOnSet(f, S) = g[S] /\ SumFunctionOnSet(f, T) = h[T]
  BY SumUnfold
<1> HIDE DEF g, h
<1>4. g[T] = h[T]
  <2> HIDE DEF T
  <2> QED
    BY <1>1, <1>2, SumUnique
<1>5. g[S] = f[Pick(S)] + g[T]
  BY <1>2 DEF IsSum
<1>6. QED
  BY <1>3, <1>4, <1>5

\* A sum of integers is an integer, and of natural numbers a natural number.
LEMMA SumType ==
  ASSUME NEW f, NEW S, IsFiniteSet(S)
  PROVE  /\ (\A x \in S : f[x] \in Int) => SumFunctionOnSet(f, S) \in Int
         /\ (\A x \in S : f[x] \in Nat) => SumFunctionOnSet(f, S) \in Nat
<1> DEFINE Good == {U \in SUBSET S :
                      /\ (\A x \in S : f[x] \in Int) => SumFunctionOnSet(f, U) \in Int
                      /\ (\A x \in S : f[x] \in Nat) => SumFunctionOnSet(f, U) \in Nat}
<1>1. ASSUME NEW U \in SUBSET S, \A V \in SUBSET U : V # U => V \in Good
      PROVE  U \in Good
  <2>1. CASE U = {}
    BY <2>1, SumEmpty
  <2>2. CASE U # {}
    <3> DEFINE V == U \ {Pick(U)}
    <3>1. Pick(U) \in S /\ IsFiniteSet(U) /\ V \in Good
      BY <1>1, <2>2, PickIn, FS_Subset
    <3>2. SumFunctionOnSet(f, U) = f[Pick(U)] + SumFunctionOnSet(f, V)
      BY <2>2, <3>1, SumStep
    <3>3. QED
      BY <3>1, <3>2
  <2>3. QED
    BY <2>1, <2>2
<1>2. \A U \in SUBSET S : U \in Good
  <2>1. Good \in SUBSET SUBSET S
    OBVIOUS
  <2> HIDE DEF Good
  <2> QED
    BY <1>1, <2>1, SubsetInduction
<1>3. QED
  BY <1>2

\* Any member may be taken out of a sum.
LEMMA SumRemove ==
  ASSUME NEW f, NEW S, IsFiniteSet(S), \A x \in S : f[x] \in Int, NEW y \in S
  PROVE  SumFunctionOnSet(f, S) = f[y] + SumFunctionOnSet(f, S \ {y})
<1> DEFINE Sum(U) == SumFunctionOnSet(f, U)
           Good == {U \in SUBSET S : \A z \in U : Sum(U) = f[z] + Sum(U \ {z})}
<1>1. ASSUME NEW U \in SUBSET S, \A V \in SUBSET U : V # U => V \in Good
      PROVE  U \in Good
  <2> SUFFICES ASSUME NEW z \in U PROVE Sum(U) = f[z] + Sum(U \ {z})
    OBVIOUS
  <2> DEFINE p == Pick(U)
  <2>1. IsFiniteSet(U) /\ p \in U
    BY PickIn, FS_Subset
  <2>2. Sum(U) = f[p] + Sum(U \ {p})
    BY <2>1, SumStep
  <2> HIDE DEF p
  <2>3. CASE z = p
    BY <2>2, <2>3
  <2>4. CASE z # p
    <3> DEFINE W == (U \ {p}) \ {z}
    <3>1. U \ {p} \in Good /\ U \ {z} \in Good
      BY <1>1, <2>1
    <3>2. Sum(U \ {p}) = f[z] + Sum(W) /\ Sum(U \ {z}) = f[p] + Sum(W)
      <4>1. z \in U \ {p} /\ p \in U \ {z} /\ W = (U \ {z}) \ {p}
        BY <2>1, <2>4
      <4>2. QED
        BY <3>1, <4>1
    <3>3. f[z] \in Int /\ f[p] \in Int /\ Sum(W) \in Int
      <4>1. IsFiniteSet(W)
        BY <2>1, FS_Subset
      <4>2. QED
        BY <2>1, <4>1, SumType
    <3> HIDE DEF Sum
    <3>4. QED
      BY <2>2, <3>2, <3>3
  <2>5. QED
    BY <2>3, <2>4
<1>2. \A U \in SUBSET S : U \in Good
  <2>1. Good \in SUBSET SUBSET S
    OBVIOUS
  <2> HIDE DEF Good
  <2> QED
    BY <1>1, <2>1, SubsetInduction
<1>3. QED
  BY <1>2

\* A sum depends on the values at its members only.
LEMMA SumSame ==
  ASSUME NEW f, NEW g, NEW S, IsFiniteSet(S), \A x \in S : f[x] = g[x]
  PROVE  SumFunctionOnSet(f, S) = SumFunctionOnSet(g, S)
<1> DEFINE Good == {U \in SUBSET S : SumFunctionOnSet(f, U) = SumFunctionOnSet(g, U)}
<1>1. ASSUME NEW U \in SUBSET S, \A V \in SUBSET U : V # U => V \in Good
      PROVE  U \in Good
  <2>1. CASE U = {}
    BY <2>1, SumEmpty
  <2>2. CASE U # {}
    <3> DEFINE V == U \ {Pick(U)}
    <3>1. Pick(U) \in S /\ IsFiniteSet(U) /\ V \in Good
      BY <1>1, <2>2, PickIn, FS_Subset
    <3>2. /\ SumFunctionOnSet(f, U) = f[Pick(U)] + SumFunctionOnSet(f, V)
          /\ SumFunctionOnSet(g, U) = g[Pick(U)] + SumFunctionOnSet(g, V)
      BY <2>2, <3>1, SumStep
    <3>3. QED
      BY <3>1, <3>2
  <2>3. QED
    BY <2>1, <2>2
<1>2. \A U \in SUBSET S : U \in Good
  <2>1. Good \in SUBSET SUBSET S
    OBVIOUS
  <2> HIDE DEF Good
  <2> QED
    BY <1>1, <2>1, SubsetInduction
<1>3. QED
  BY <1>2

\* Changing the value at one member changes the sum by as much.
LEMMA SumChange ==
  ASSUME NEW f, NEW g, NEW S, IsFiniteSet(S), NEW y \in S,
         \A x \in S : f[x] \in Int /\ g[x] \in Int,
         \A x \in S : x # y => f[x] = g[x]
  PROVE  SumFunctionOnSet(g, S) = SumFunctionOnSet(f, S) - f[y] + g[y]
<1> DEFINE T == S \ {y}
<1>1. IsFiniteSet(T)
  BY FS_Subset
<1>2. SumFunctionOnSet(f, T) = SumFunctionOnSet(g, T) /\ SumFunctionOnSet(f, T) \in Int
  BY <1>1, SumSame, SumType
<1>3. /\ SumFunctionOnSet(f, S) = f[y] + SumFunctionOnSet(f, T)
      /\ SumFunctionOnSet(g, S) = g[y] + SumFunctionOnSet(g, T)
  BY SumRemove
<1>4. QED
  BY <1>2, <1>3

\* No member of a sum of natural numbers exceeds it.
LEMMA SumBounds ==
  ASSUME NEW f, NEW S, IsFiniteSet(S), \A x \in S : f[x] \in Nat, NEW y \in S
  PROVE  f[y] <= SumFunctionOnSet(f, S)
<1>1. SumFunctionOnSet(f, S) = f[y] + SumFunctionOnSet(f, S \ {y})
  BY SumRemove
<1>2. SumFunctionOnSet(f, S \ {y}) \in Nat
  <2>1. IsFiniteSet(S \ {y})
    BY FS_Subset
  <2>2. QED
    BY <2>1, SumType
<1>3. QED
  BY <1>1, <1>2

\* A sum of zeros is zero.
LEMMA SumZero ==
  ASSUME NEW f, NEW S, IsFiniteSet(S), \A x \in S : f[x] = 0
  PROVE  SumFunctionOnSet(f, S) = 0
<1> DEFINE Good == {U \in SUBSET S : SumFunctionOnSet(f, U) = 0}
<1>1. ASSUME NEW U \in SUBSET S, \A V \in SUBSET U : V # U => V \in Good
      PROVE  U \in Good
  <2>1. CASE U = {}
    BY <2>1, SumEmpty
  <2>2. CASE U # {}
    <3> DEFINE V == U \ {Pick(U)}
    <3>1. Pick(U) \in S /\ IsFiniteSet(U) /\ V \in Good
      BY <1>1, <2>2, PickIn, FS_Subset
    <3>2. SumFunctionOnSet(f, U) = f[Pick(U)] + SumFunctionOnSet(f, V)
      BY <2>2, <3>1, SumStep
    <3>3. QED
      BY <3>1, <3>2
  <2>3. QED
    BY <2>1, <2>2
<1>2. \A U \in SUBSET S : U \in Good
  <2>1. Good \in SUBSET SUBSET S
    OBVIOUS
  <2> HIDE DEF Good
  <2> QED
    BY <1>1, <2>1, SubsetInduction
<1>3. QED
  BY <1>2

=============================================================================
