------------------------------- MODULE Sums --------------------------------
(***************************************************************************)
(* Sums of functions over finite sets, for the proofs that do bookkeeping. *)
(* SumFunctionOnSet (module Functions) is a recursive function on the      *)
(* subsets of its index set.  That the function exists, that it does not   *)
(* depend on the enumeration, and how a sum changes with one summand are   *)
(* proved here, from the well-foundedness of < on the naturals.            *)
(***************************************************************************)
EXTENDS Integers, FiniteSets, Functions, FiniteSetTheorems, WellFoundedInduction, TLAPS

\* Induction over the naturals: a set that contains 0 and is closed under
\* successor contains every natural number.
LEMMA Induction ==
    ASSUME NEW T, 0 \in T, \A n \in Nat : n \in T => n + 1 \in T
    PROVE  \A n \in Nat : n \in T
<1> DEFINE Bad == Nat \ T
<1> SUFFICES ASSUME Bad # {} PROVE FALSE
    OBVIOUS
<1>1. Bad \subseteq Nat
      OBVIOUS
<1> HIDE DEF Bad
<1>2. PICK n \in Bad : \A m \in Bad : ~ (<<m, n>> \in OpToRel(<, Nat))
      BY <1>1, WFMin, NatLessThanWellFounded, Zenon
<1>3. \A m \in Bad : ~ (m < n)
      BY <1>1, <1>2 DEF OpToRel
<1> QED BY <1>1, <1>3 DEF Bad

\* The element the recursion removes from a set.
First(s) == CHOOSE x \in s : TRUE

\* The function a sum is defined by.
Sums(f, S, g) ==
    g = [s \in SUBSET S |-> IF s = {} THEN 0
                            ELSE LET x == CHOOSE y \in s : TRUE IN f[x] + g[s \ {x}]]

\* The equation of the defining function, point by point.
LEMMA SumsAt ==
    ASSUME NEW f, NEW S, NEW g
    PROVE  Sums(f, S, g) <=>
             /\ g = [s \in SUBSET S |-> g[s]]
             /\ \A s \in SUBSET S : g[s] = IF s = {} THEN 0 ELSE f[First(s)] + g[s \ {First(s)}]
<1>1. ASSUME Sums(f, S, g)
      PROVE  /\ g = [s \in SUBSET S |-> g[s]]
             /\ \A s \in SUBSET S : g[s] = IF s = {} THEN 0 ELSE f[First(s)] + g[s \ {First(s)}]
      BY <1>1 DEF Sums, First
<1>2. ASSUME g = [s \in SUBSET S |-> g[s]],
             \A s \in SUBSET S : g[s] = IF s = {} THEN 0 ELSE f[First(s)] + g[s \ {First(s)}]
      PROVE  Sums(f, S, g)
      BY <1>2 DEF Sums, First
<1> QED BY <1>1, <1>2

\* The element a sum takes first is one of the set.
LEMMA FirstIn == \A s : s # {} => First(s) \in s
BY DEF First

\* Removing an element leaves a smaller finite set.
LEMMA SmallerSet ==
    ASSUME NEW s, NEW n \in Nat, IsFiniteSet(s), Cardinality(s) <= n + 1, NEW x \in s
    PROVE  IsFiniteSet(s \ {x}) /\ Cardinality(s \ {x}) <= n
<1>1. Cardinality(s) \in Nat /\ IsFiniteSet(s \ {x}) /\ Cardinality(s \ {x}) = Cardinality(s) - 1
      BY FS_RemoveElement, FS_CardinalityType
<1> QED BY <1>1

\* The defining function exists: by induction on the size of the subsets.
LEMMA SumsExist ==
    ASSUME NEW f, NEW S, IsFiniteSet(S)
    PROVE  \E g : Sums(f, S, g)
<1> DEFINE Upto(n) == {s \in SUBSET S : Cardinality(s) <= n}
           Part(n, g) == /\ g = [s \in Upto(n) |-> g[s]]
                         /\ \A s \in Upto(n) : g[s] = IF s = {} THEN 0 ELSE f[First(s)] + g[s \ {First(s)}]
           T == {n \in Nat : \E g : Part(n, g)}
<1>1. \A s \in SUBSET S : IsFiniteSet(s) /\ Cardinality(s) \in Nat /\ Cardinality(s) <= Cardinality(S)
      BY FS_Subset, FS_CardinalityType
<1>2. 0 \in T
  <2> DEFINE g == [s \in Upto(0) |-> 0]
  <2>1. \A s \in Upto(0) : s = {}
        BY <1>1, FS_EmptySet
  <2>2. Part(0, g)
        BY <2>1
  <2> QED BY <2>2
<1>3. ASSUME NEW n \in Nat, n \in T PROVE n + 1 \in T
  <2>1. PICK h : Part(n, h)
        BY <1>3
  <2> DEFINE g == [s \in Upto(n + 1) |-> IF s = {} THEN 0 ELSE f[First(s)] + h[s \ {First(s)}]]
  <2>2. \A s \in Upto(n) : s \in Upto(n + 1) /\ g[s] = h[s]
    <3> SUFFICES ASSUME NEW s \in Upto(n) PROVE s \in Upto(n + 1) /\ g[s] = h[s]
        OBVIOUS
    <3>1. s \in Upto(n + 1)
          BY <1>1
    <3>2. g[s] = IF s = {} THEN 0 ELSE f[First(s)] + h[s \ {First(s)}]
          BY <3>1
    <3>3. h[s] = IF s = {} THEN 0 ELSE f[First(s)] + h[s \ {First(s)}]
          BY <2>1
    <3> HIDE DEF g
    <3> QED BY <3>1, <3>2, <3>3
  <2>3. \A s \in Upto(n + 1) : s # {} => s \ {First(s)} \in Upto(n)
        BY <1>1, FirstIn, SmallerSet
  <2>4. Part(n + 1, g)
    <3>1. g = [s \in Upto(n + 1) |-> g[s]]
          OBVIOUS
    <3>2. \A s \in Upto(n + 1) : g[s] = IF s = {} THEN 0 ELSE f[First(s)] + h[s \ {First(s)}]
          OBVIOUS
    <3> HIDE DEF g, Upto
    <3> QED BY <2>2, <2>3, <3>1, <3>2
  <2> HIDE DEF Part
  <2> QED BY <2>4
<1> HIDE DEF T
<1>4. Cardinality(S) \in T
      BY <1>1, <1>2, <1>3, Induction
<1>5. PICK g : Part(Cardinality(S), g)
      BY <1>4 DEF T
<1>6. Upto(Cardinality(S)) = SUBSET S
      BY <1>1
<1>7. Sums(f, S, g)
      BY <1>5, <1>6, SumsAt
<1> QED BY <1>7

\* Defining functions of a set and of a subset agree on the subset.
LEMMA SumsUnique ==
    ASSUME NEW f, NEW S, NEW g, NEW R, NEW h, IsFiniteSet(S), R \subseteq S,
           Sums(f, S, g), Sums(f, R, h)
    PROVE  g[R] = h[R]
<1> DEFINE T == {n \in Nat : \A s \in SUBSET R : Cardinality(s) <= n => g[s] = h[s]}
<1>1. \A s \in SUBSET R : s \in SUBSET S /\ IsFiniteSet(s) /\ Cardinality(s) \in Nat
      BY FS_Subset, FS_CardinalityType
<1>2. \A s \in SUBSET R : /\ g[s] = IF s = {} THEN 0 ELSE f[First(s)] + g[s \ {First(s)}]
                          /\ h[s] = IF s = {} THEN 0 ELSE f[First(s)] + h[s \ {First(s)}]
      BY <1>1, SumsAt
<1>3. 0 \in T
      BY <1>1, <1>2, FS_EmptySet
<1>4. ASSUME NEW n \in Nat, n \in T PROVE n + 1 \in T
  <2> SUFFICES ASSUME NEW s \in SUBSET R, Cardinality(s) <= n + 1, s # {}
               PROVE  g[s] = h[s]
      BY <1>2
  <2>1. Cardinality(s \ {First(s)}) <= n /\ s \ {First(s)} \in SUBSET R
        BY <1>1, FirstIn, SmallerSet
  <2> QED BY <1>2, <1>4, <2>1
<1> HIDE DEF T
<1>5. Cardinality(R) \in T
      BY <1>1, <1>3, <1>4, Induction
<1> QED BY <1>1, <1>5 DEF T

\* A sum is the value of any defining function.
LEMMA SumIs ==
    ASSUME NEW f, NEW S, IsFiniteSet(S), NEW g, Sums(f, S, g)
    PROVE  SumFunctionOnSet(f, S) = g[S]
<1>1. SumFunctionOnSet(f, S) = (CHOOSE h : Sums(f, S, h))[S]
      BY DEF SumFunctionOnSet, FoldFunctionOnSet, MapThenFoldSet, Sums
<1>2. PICK h : h = CHOOSE i : Sums(f, S, i)
      OBVIOUS
<1>3. Sums(f, S, h)
      BY <1>2, Zenon
<1> QED BY <1>1, <1>2, <1>3, SumsUnique

\* The sum over no elements is zero.
LEMMA SumEmpty == \A f : SumFunctionOnSet(f, {}) = 0
<1> SUFFICES ASSUME NEW f PROVE SumFunctionOnSet(f, {}) = 0
    OBVIOUS
<1>1. IsFiniteSet({})
      BY FS_EmptySet
<1>2. PICK g : Sums(f, {}, g)
      BY <1>1, SumsExist
<1> QED BY <1>1, <1>2, SumIs, SumsAt

\* A sum over a nonempty set is its first summand and the sum of the rest.
LEMMA SumFirst ==
    ASSUME NEW f, NEW S, IsFiniteSet(S), S # {}
    PROVE  SumFunctionOnSet(f, S) = f[First(S)] + SumFunctionOnSet(f, S \ {First(S)})
<1> DEFINE R == S \ {First(S)}
<1>1. IsFiniteSet(R) /\ R \subseteq S
      BY FS_Subset
<1>2. PICK g : Sums(f, S, g)
      BY SumsExist
<1> HIDE DEF R
<1>3. PICK h : Sums(f, R, h)
      BY <1>1, SumsExist
<1>4. g[R] = h[R]
      BY <1>1, <1>2, <1>3, SumsUnique
<1>5. SumFunctionOnSet(f, S) = g[S] /\ SumFunctionOnSet(f, R) = h[R]
      BY <1>1, <1>2, <1>3, SumIs
<1>6. g[S] = f[First(S)] + g[R]
      BY <1>2, SumsAt DEF R
<1> QED BY <1>4, <1>5, <1>6 DEF R

\* Induction over the subsets of a finite set: a property a set has when all
\* its proper subsets have it holds of every subset.
LEMMA SubsetInduction ==
    ASSUME NEW S, IsFiniteSet(S), NEW T,
           \A s \in SUBSET S : (\A r \in SUBSET s : r # s => r \in T) => s \in T
    PROVE  \A s \in SUBSET S : s \in T
<1> DEFINE N == {n \in Nat : \A s \in SUBSET S : Cardinality(s) <= n => s \in T}
<1>1. \A s \in SUBSET S : IsFiniteSet(s) /\ Cardinality(s) \in Nat
      BY FS_Subset, FS_CardinalityType
<1>2. \A s \in SUBSET S : \A r \in SUBSET s : r # s => Cardinality(r) < Cardinality(s)
      BY <1>1, FS_Subset
<1>3. 0 \in N
      BY <1>1, <1>2
<1>4. ASSUME NEW n \in Nat, n \in N PROVE n + 1 \in N
  <2> SUFFICES ASSUME NEW s \in SUBSET S, Cardinality(s) <= n + 1 PROVE s \in T
      OBVIOUS
  <2>1. \A r \in SUBSET s : r # s => r \in SUBSET S /\ Cardinality(r) <= n
        BY <1>1, <1>2
  <2> QED BY <1>4, <2>1
<1> HIDE DEF N
<1>5. \A n \in Nat : n \in N
      BY <1>3, <1>4, Induction
<1> QED BY <1>1, <1>5 DEF N

\* A sum of integers is an integer.
LEMMA SumInt ==
    ASSUME NEW f, NEW S, IsFiniteSet(S), \A x \in S : f[x] \in Int
    PROVE  SumFunctionOnSet(f, S) \in Int
<1> DEFINE T == {s \in SUBSET S : SumFunctionOnSet(f, s) \in Int}
<1>1. ASSUME NEW s \in SUBSET S, \A r \in SUBSET s : r # s => r \in T PROVE s \in T
  <2>1. CASE s = {}
        BY <2>1, SumEmpty
  <2>2. CASE s # {}
    <3>1. First(s) \in s /\ IsFiniteSet(s)
          BY <2>2, FirstIn, FS_Subset
    <3>2. s \ {First(s)} \in T
          BY <1>1, <3>1
    <3> QED BY <2>2, <3>1, <3>2, SumFirst
  <2> QED BY <2>1, <2>2
<1> HIDE DEF T
<1>2. S \in T
      BY <1>1, SubsetInduction
<1> QED BY <1>2 DEF T

\* A sum of naturals is a natural.
LEMMA SumNat ==
    ASSUME NEW f, NEW S, IsFiniteSet(S), \A x \in S : f[x] \in Nat
    PROVE  SumFunctionOnSet(f, S) \in Nat
<1> DEFINE T == {s \in SUBSET S : SumFunctionOnSet(f, s) \in Nat}
<1>1. ASSUME NEW s \in SUBSET S, \A r \in SUBSET s : r # s => r \in T PROVE s \in T
  <2>1. CASE s = {}
        BY <2>1, SumEmpty
  <2>2. CASE s # {}
    <3>1. First(s) \in s /\ IsFiniteSet(s)
          BY <2>2, FirstIn, FS_Subset
    <3>2. s \ {First(s)} \in T
          BY <1>1, <3>1
    <3> QED BY <2>2, <3>1, <3>2, SumFirst
  <2> QED BY <2>1, <2>2
<1> HIDE DEF T
<1>2. S \in T
      BY <1>1, SubsetInduction
<1> QED BY <1>2 DEF T

\* Functions equal on the index set have equal sums.
LEMMA SumSame ==
    ASSUME NEW f, NEW g, NEW S, IsFiniteSet(S), \A x \in S : f[x] = g[x]
    PROVE  SumFunctionOnSet(f, S) = SumFunctionOnSet(g, S)
<1> DEFINE T == {s \in SUBSET S : SumFunctionOnSet(f, s) = SumFunctionOnSet(g, s)}
<1>1. ASSUME NEW s \in SUBSET S, \A r \in SUBSET s : r # s => r \in T PROVE s \in T
  <2>1. CASE s = {}
        BY <2>1, SumEmpty
  <2>2. CASE s # {}
    <3>1. First(s) \in s /\ IsFiniteSet(s)
          BY <2>2, FirstIn, FS_Subset
    <3>2. s \ {First(s)} \in T
          BY <1>1, <3>1
    <3> QED BY <2>2, <3>1, <3>2, SumFirst
  <2> QED BY <2>1, <2>2
<1> HIDE DEF T
<1>2. S \in T
      BY <1>1, SubsetInduction
<1> QED BY <1>2 DEF T

\* Any summand, not only the first, can be taken out of a sum.
LEMMA SumRemove ==
    ASSUME NEW f, NEW S, IsFiniteSet(S), \A x \in S : f[x] \in Int, NEW a \in S
    PROVE  SumFunctionOnSet(f, S) = f[a] + SumFunctionOnSet(f, S \ {a})
<1> DEFINE Removed(s) == \A x \in s : SumFunctionOnSet(f, s) = f[x] + SumFunctionOnSet(f, s \ {x})
           T == {s \in SUBSET S : Removed(s)}
<1>1. ASSUME NEW s \in SUBSET S, \A r \in SUBSET s : r # s => r \in T PROVE s \in T
  <2> SUFFICES ASSUME NEW x \in s
               PROVE  SumFunctionOnSet(f, s) = f[x] + SumFunctionOnSet(f, s \ {x})
      OBVIOUS
  <2> DEFINE y == First(s)
  <2>1. y \in s /\ IsFiniteSet(s)
        BY FirstIn, FS_Subset
  <2>2. SumFunctionOnSet(f, s) = f[y] + SumFunctionOnSet(f, s \ {y})
        BY <2>1, SumFirst
  <2> HIDE DEF y
  <2>3. CASE x = y
        BY <2>2, <2>3
  <2>4. CASE x # y
    <3>1. SumFunctionOnSet(f, s \ {y}) = f[x] + SumFunctionOnSet(f, (s \ {y}) \ {x})
          BY <1>1, <2>1, <2>4
    <3>2. SumFunctionOnSet(f, s \ {x}) = f[y] + SumFunctionOnSet(f, (s \ {x}) \ {y})
          BY <1>1, <2>1, <2>4
    <3>3. (s \ {y}) \ {x} = (s \ {x}) \ {y}
          OBVIOUS
    <3>4. PICK rest : rest = SumFunctionOnSet(f, (s \ {x}) \ {y})
          OBVIOUS
    <3>5. rest \in Int
      <4>1. IsFiniteSet((s \ {x}) \ {y}) /\ (s \ {x}) \ {y} \subseteq S
            BY <2>1, FS_Subset
      <4> QED BY <3>4, <4>1, SumInt
    <3>6. f[x] \in Int /\ f[y] \in Int
          BY <2>1
    <3>7. f[y] + (f[x] + rest) = f[x] + (f[y] + rest)
          BY <3>5, <3>6
    <3> QED BY <2>2, <3>1, <3>2, <3>3, <3>4, <3>7
  <2> QED BY <2>3, <2>4
<1> HIDE DEF T
<1>2. S \in T
      BY <1>1, SubsetInduction
<1> QED BY <1>2 DEF T

\* A new index adds its summand.
LEMMA SumAdd ==
    ASSUME NEW f, NEW S, IsFiniteSet(S), NEW a, a \notin S,
           \A x \in S \cup {a} : f[x] \in Int
    PROVE  SumFunctionOnSet(f, S \cup {a}) = f[a] + SumFunctionOnSet(f, S)
<1>1. IsFiniteSet(S \cup {a}) /\ a \in S \cup {a} /\ (S \cup {a}) \ {a} = S
      BY FS_AddElement
<1>2. PICK U : U = S \cup {a}
      OBVIOUS
<1>3. SumFunctionOnSet(f, U) = f[a] + SumFunctionOnSet(f, U \ {a})
      BY <1>1, <1>2, SumRemove
<1> QED BY <1>1, <1>2, <1>3

\* Changing one summand changes the sum by the difference.
LEMMA SumUpdate ==
    ASSUME NEW f, NEW g, NEW S, IsFiniteSet(S), NEW a \in S,
           \A x \in S : f[x] \in Int /\ g[x] \in Int,
           \A x \in S : x # a => g[x] = f[x]
    PROVE  SumFunctionOnSet(g, S) = SumFunctionOnSet(f, S) - f[a] + g[a]
<1>1. IsFiniteSet(S \ {a})
      BY FS_Subset
<1>2. SumFunctionOnSet(g, S \ {a}) = SumFunctionOnSet(f, S \ {a})
      BY <1>1, SumSame
<1>3. SumFunctionOnSet(f, S) = f[a] + SumFunctionOnSet(f, S \ {a})
      BY SumRemove
<1>4. SumFunctionOnSet(g, S) = g[a] + SumFunctionOnSet(g, S \ {a})
      BY SumRemove
<1>5. SumFunctionOnSet(f, S \ {a}) \in Int
      BY <1>1, SumInt
<1> QED BY <1>2, <1>3, <1>4, <1>5

\* Adding to one summand adds as much to the sum.
LEMMA SumIncrease ==
    ASSUME NEW f, NEW g, NEW S, IsFiniteSet(S), NEW a \in S, NEW d \in Int,
           \A x \in S : f[x] \in Int,
           \A x \in S : g[x] = IF x = a THEN f[a] + d ELSE f[x]
    PROVE  SumFunctionOnSet(g, S) = SumFunctionOnSet(f, S) + d
<1>1. \A x \in S : f[x] \in Int /\ g[x] \in Int
      OBVIOUS
<1>2. \A x \in S : x # a => g[x] = f[x]
      OBVIOUS
<1>3. SumFunctionOnSet(g, S) = SumFunctionOnSet(f, S) - f[a] + g[a]
      BY <1>1, <1>2, SumUpdate
<1>4. SumFunctionOnSet(f, S) \in Int
      BY <1>1, SumInt
<1>5. g[a] = f[a] + d /\ f[a] \in Int
      OBVIOUS
<1> QED BY <1>3, <1>4, <1>5

\* A sum of zeros is zero.
LEMMA SumZero ==
    ASSUME NEW f, NEW S, IsFiniteSet(S), \A x \in S : f[x] = 0
    PROVE  SumFunctionOnSet(f, S) = 0
<1> DEFINE T == {s \in SUBSET S : SumFunctionOnSet(f, s) = 0}
<1>1. ASSUME NEW s \in SUBSET S, \A r \in SUBSET s : r # s => r \in T PROVE s \in T
  <2>1. CASE s = {}
        BY <2>1, SumEmpty
  <2>2. CASE s # {}
    <3>1. First(s) \in s /\ IsFiniteSet(s)
          BY <2>2, FirstIn, FS_Subset
    <3>2. s \ {First(s)} \in T
          BY <1>1, <3>1
    <3> QED BY <2>2, <3>1, <3>2, SumFirst
  <2> QED BY <2>1, <2>2
<1> HIDE DEF T
<1>2. S \in T
      BY <1>1, SubsetInduction
<1> QED BY <1>2 DEF T

\* Sums are monotone in their summands.
LEMMA SumAtMost ==
    ASSUME NEW f, NEW g, NEW S, IsFiniteSet(S),
           \A x \in S : f[x] \in Int /\ g[x] \in Int /\ f[x] <= g[x]
    PROVE  SumFunctionOnSet(f, S) <= SumFunctionOnSet(g, S)
<1> DEFINE T == {s \in SUBSET S : SumFunctionOnSet(f, s) <= SumFunctionOnSet(g, s)}
<1>1. ASSUME NEW s \in SUBSET S, \A r \in SUBSET s : r # s => r \in T PROVE s \in T
  <2>1. CASE s = {}
        BY <2>1, SumEmpty
  <2>2. CASE s # {}
    <3>1. First(s) \in s /\ IsFiniteSet(s) /\ IsFiniteSet(s \ {First(s)})
          BY <2>2, FirstIn, FS_Subset
    <3>2. s \ {First(s)} \in T
          BY <1>1, <3>1
    <3>3. /\ SumFunctionOnSet(f, s \ {First(s)}) \in Int
          /\ SumFunctionOnSet(g, s \ {First(s)}) \in Int
          BY <3>1, SumInt
    <3>4. f[First(s)] <= g[First(s)] /\ f[First(s)] \in Int /\ g[First(s)] \in Int
          BY <3>1
    <3>5. /\ SumFunctionOnSet(f, s) = f[First(s)] + SumFunctionOnSet(f, s \ {First(s)})
          /\ SumFunctionOnSet(g, s) = g[First(s)] + SumFunctionOnSet(g, s \ {First(s)})
          BY <2>2, <3>1, SumFirst
    <3> QED BY <3>2, <3>3, <3>4, <3>5
  <2> QED BY <2>1, <2>2
<1> HIDE DEF T
<1>2. S \in T
      BY <1>1, SubsetInduction
<1> QED BY <1>2 DEF T

\* No summand of a sum of naturals exceeds it.
LEMMA SumMember ==
    ASSUME NEW f, NEW S, IsFiniteSet(S), \A x \in S : f[x] \in Nat, NEW a \in S
    PROVE  f[a] <= SumFunctionOnSet(f, S)
<1>1. IsFiniteSet(S \ {a})
      BY FS_Subset
<1>2. SumFunctionOnSet(f, S \ {a}) \in Nat
      BY <1>1, SumNat
<1>3. SumFunctionOnSet(f, S) = f[a] + SumFunctionOnSet(f, S \ {a})
      BY SumRemove
<1>4. f[a] \in Nat
      OBVIOUS
<1> QED BY <1>2, <1>3, <1>4

\* More summands, none negative, make no smaller sum.
LEMMA SumSubset ==
    ASSUME NEW f, NEW S, IsFiniteSet(S), \A x \in S : f[x] \in Nat, NEW R \in SUBSET S
    PROVE  SumFunctionOnSet(f, R) <= SumFunctionOnSet(f, S)
<1> DEFINE Most(s) == SumFunctionOnSet(f, s \cap R) <= SumFunctionOnSet(f, s)
           T == {s \in SUBSET S : Most(s)}
<1>1. ASSUME NEW s \in SUBSET S, \A r \in SUBSET s : r # s => r \in T PROVE s \in T
  <2>1. CASE s = {}
    <3>1. s \cap R = {}
          BY <2>1
    <3> QED BY <2>1, <3>1, SumEmpty
  <2>2. CASE s # {}
    <3> DEFINE a == First(s)
               r == s \ {a}
    <3>1. a \in s /\ a \in S /\ IsFiniteSet(s) /\ IsFiniteSet(r) /\ r \subseteq S
          BY <2>2, FirstIn, FS_Subset
    <3>2. Most(r)
          BY <1>1, <3>1
    <3>3. SumFunctionOnSet(f, s) = f[a] + SumFunctionOnSet(f, r)
          BY <2>2, <3>1, SumFirst
    <3> HIDE DEF a
    <3>4. PICK u : u = r \cap R
          OBVIOUS
    <3>5. IsFiniteSet(u) /\ u \subseteq S /\ a \notin u
          BY <3>1, <3>4, FS_Subset
    <3>6. SumFunctionOnSet(f, r) \in Nat /\ SumFunctionOnSet(f, u) \in Nat
          BY <3>1, <3>5, SumNat
    <3>7. SumFunctionOnSet(f, u) <= SumFunctionOnSet(f, r)
          BY <3>2, <3>4
    <3>8. CASE a \in R
      <4>1. s \cap R = u \cup {a}
            BY <3>1, <3>4, <3>8
      <4>2. \A x \in u \cup {a} : f[x] \in Int
            BY <3>1, <3>5
      <4>3. SumFunctionOnSet(f, u \cup {a}) = f[a] + SumFunctionOnSet(f, u)
            BY <3>5, <4>2, SumAdd
      <4>4. f[a] \in Nat
            BY <3>1
      <4>5. SumFunctionOnSet(f, u \cup {a}) <= SumFunctionOnSet(f, s)
            BY <3>3, <3>6, <3>7, <4>3, <4>4
      <4> QED BY <4>1, <4>5
    <3>9. CASE a \notin R
      <4>1. s \cap R = u
            BY <3>4, <3>9
      <4>2. f[a] \in Nat
            BY <3>1
      <4>3. SumFunctionOnSet(f, u) <= SumFunctionOnSet(f, s)
            BY <3>3, <3>6, <3>7, <4>2
      <4> QED BY <4>1, <4>3
    <3> QED BY <3>8, <3>9
  <2> QED BY <2>1, <2>2
<1> HIDE DEF T
<1>2. S \in T
      BY <1>1, SubsetInduction
<1>3. S \cap R = R
      OBVIOUS
<1> QED BY <1>2, <1>3 DEF T

=============================================================================
