----------------------------- MODULE SumProofs -----------------------------
(***************************************************************************)
(* Facts about sums: SumTo over rollup ids, SumFunctionOnSet over any      *)
(* finite set, whatever the order its elements are taken in; and the blocks*)
(* of numbers that nullifiers are made of.  The library's                  *)
(* induction theorems take an operator as a parameter, so each induction   *)
(* below is made on the least element, or the smallest set, among the      *)
(* counterexamples.                                                        *)
(***************************************************************************)
EXTENDS RollupSums, Integers, FiniteSets, Functions, FiniteSetTheorems, WellFoundedInduction,
        TLAPS

-----------------------------------------------------------------------------
(* Sums over the rollups. *)

\* A set of natural numbers that is not empty has a least element.
LEMMA LeastElement ==
    ASSUME NEW S \in SUBSET Nat, S # {}
    PROVE  \E m \in S : \A k \in S : m <= k
<1> DEFINE less == OpToRel(<, Nat)
<1>1. IsWellFoundedOn(less, Nat)
  BY NatLessThanWellFounded
<1>2. less = {ss \in Nat \X Nat : ss[1] < ss[2]}
  BY DEF OpToRel
<1> HIDE DEF less
<1>3. PICK m \in S : \A k \in S : <<k, m>> \notin less
  BY <1>1, WFMin
<1>4. ASSUME NEW k \in S PROVE m <= k
  <2>1. k \in Nat /\ m \in Nat
    OBVIOUS
  <2>2. ~(k < m)
    BY <2>1, <1>2, <1>3
  <2> QED BY <2>1, <2>2
<1> QED
  BY <1>4

\* s holds the partial sums of f up to n.
PartialSums(s, f, n) ==
    s = [i \in 0..n |-> IF i = 0 THEN 0 ELSE s[i - 1] + f[i]]

\* The recursive function in SumTo exists.
LEMMA PartialSumsExist ==
    ASSUME NEW f, NEW n \in Nat
    PROVE  \E s : PartialSums(s, f, n)
<1> DEFINE Missing == {m \in Nat : ~ \E s : PartialSums(s, f, m)}
<1>1. ASSUME Missing # {} PROVE FALSE
  <2>1. PICK m \in Missing : \A k \in Missing : m <= k
    BY <1>1, LeastElement
  <2>2. m # 0
    <3>1. PartialSums([i \in 0..0 |-> 0], f, 0)
      BY DEF PartialSums
    <3> QED BY <3>1, <2>1
  <2>3. m - 1 \in Nat /\ m - 1 \notin Missing
    BY <2>1, <2>2
  <2>4. PICK s : PartialSums(s, f, m - 1)
    BY <2>3
  <2> DEFINE t == [i \in 0..m |-> IF i = m THEN s[m - 1] + f[m] ELSE s[i]]
  <2>5. ASSUME NEW i \in 0..m
        PROVE  t[i] = IF i = 0 THEN 0 ELSE t[i - 1] + f[i]
    <3>1. CASE i = m
      BY <3>1, <2>2, <2>3
    <3>2. CASE i # m
      <4>1. i \in 0 .. m - 1 /\ (i # 0 => i - 1 \in 0 .. m - 1)
        BY <3>2, <2>1
      <4>2. s[i] = IF i = 0 THEN 0 ELSE s[i - 1] + f[i]
        BY <4>1, <2>4 DEF PartialSums
      <4> QED BY <4>1, <4>2, <3>2
    <3> QED BY <3>1, <3>2
  <2>6. PartialSums(t, f, m)
    BY <2>5 DEF PartialSums
  <2> QED BY <2>1, <2>6
<1> QED BY <1>1

\* SumTo is the last partial sum.
LEMMA SumToPartial ==
    ASSUME NEW f, NEW n \in Nat
    PROVE  \E s : /\ SumTo(f, n) = s[n]
                  /\ s[0] = 0
                  /\ \A i \in 1..n : s[i] = s[i - 1] + f[i]
<1> DEFINE sum == CHOOSE s : PartialSums(s, f, n)
<1>1. PartialSums(sum, f, n)
  BY PartialSumsExist
<1>2. SumTo(f, n) = sum[n]
  BY DEF SumTo, PartialSums
<1> HIDE DEF sum
<1>3. sum[0] = 0 /\ \A i \in 1..n : sum[i] = sum[i - 1] + f[i]
  BY <1>1 DEF PartialSums
<1> QED BY <1>2, <1>3

\* A sum of natural numbers is one, and bounds each of its terms.
LEMMA SumToNat ==
    ASSUME NEW n \in Nat, NEW f, \A i \in 1..n : f[i] \in Nat
    PROVE  SumTo(f, n) \in Nat /\ \A r \in 1..n : f[r] <= SumTo(f, n)
<1>1. PICK s : /\ SumTo(f, n) = s[n]
               /\ s[0] = 0
               /\ \A i \in 1..n : s[i] = s[i - 1] + f[i]
  BY SumToPartial
<1> DEFINE Good(i) == s[i] \in Nat /\ \A r \in 1..i : f[r] <= s[i]
<1> DEFINE Bad == {i \in 0..n : ~Good(i)}
<1>2. ASSUME Bad # {} PROVE FALSE
  <2>1. PICK m \in Bad : \A k \in Bad : m <= k
    <3>1. Bad \in SUBSET Nat
      OBVIOUS
    <3> HIDE DEF Bad
    <3> QED BY <1>2, <3>1, LeastElement
  <2>2. m # 0
    BY <1>1, <2>1
  <2>3. m - 1 \in 0..n /\ Good(m - 1)
    BY <2>1, <2>2
  <2>4. s[m] = s[m - 1] + f[m] /\ f[m] \in Nat /\ s[m - 1] \in Nat
    BY <2>1, <2>2, <2>3, <1>1
  <2>5. \A r \in 1..m : f[r] <= s[m]
    <3> TAKE r \in 1..m
    <3>1. f[r] \in Nat
      BY <2>1
    <3>2. r # m => r \in 1 .. m - 1
      BY <2>1
    <3> QED BY <3>1, <3>2, <2>3, <2>4
  <2> QED BY <2>1, <2>4, <2>5
<1>3. Good(n)
  BY <1>2
<1> QED BY <1>1, <1>3

\* Changing one term of a sum changes the sum by as much.
LEMMA SumToExcept ==
    ASSUME NEW n \in Nat, NEW f, NEW g, NEW r \in 1..n,
           \A i \in 1..n : f[i] \in Nat /\ g[i] \in Nat,
           \A i \in 1..n \ {r} : g[i] = f[i]
    PROVE  SumTo(g, n) = SumTo(f, n) + g[r] - f[r]
<1>1. PICK s : /\ SumTo(f, n) = s[n]
               /\ s[0] = 0
               /\ \A i \in 1..n : s[i] = s[i - 1] + f[i]
  BY SumToPartial
<1>2. PICK t : /\ SumTo(g, n) = t[n]
               /\ t[0] = 0
               /\ \A i \in 1..n : t[i] = t[i - 1] + g[i]
  BY SumToPartial
<1> DEFINE Good(i) == s[i] \in Int /\ t[i] = IF i < r THEN s[i] ELSE s[i] + g[r] - f[r]
<1> DEFINE Bad == {i \in 0..n : ~Good(i)}
<1>3. ASSUME Bad # {} PROVE FALSE
  <2>1. PICK m \in Bad : \A k \in Bad : m <= k
    <3>1. Bad \in SUBSET Nat
      OBVIOUS
    <3> HIDE DEF Bad
    <3> QED BY <1>3, <3>1, LeastElement
  <2>2. m # 0
    BY <1>1, <1>2, <2>1
  <2>3. m - 1 \in 0..n /\ Good(m - 1)
    BY <2>1, <2>2
  <2>4. /\ s[m] = s[m - 1] + f[m] /\ t[m] = t[m - 1] + g[m]
        /\ f[m] \in Nat /\ f[r] \in Nat /\ g[r] \in Nat /\ s[m - 1] \in Int
    BY <2>1, <2>2, <2>3, <1>1, <1>2
  <2>5. g[m] = IF m = r THEN g[r] ELSE f[m]
    BY <2>1, <2>2
  <2>6. Good(m)
    BY <2>1, <2>2, <2>3, <2>4, <2>5
  <2> QED BY <2>1, <2>6
<1>4. Good(n)
  BY <1>3
<1> QED BY <1>1, <1>2, <1>4

\* A sum of smaller terms is smaller, by at least the gap at any one of them.
LEMMA SumToGap ==
    ASSUME NEW n \in Nat, NEW f, NEW g, NEW r \in 1..n,
           \A i \in 1..n : f[i] \in Nat /\ g[i] \in Nat /\ f[i] <= g[i]
    PROVE  g[r] - f[r] <= SumTo(g, n) - SumTo(f, n)
<1>1. PICK s : /\ SumTo(f, n) = s[n]
               /\ s[0] = 0
               /\ \A i \in 1..n : s[i] = s[i - 1] + f[i]
  BY SumToPartial
<1>2. PICK t : /\ SumTo(g, n) = t[n]
               /\ t[0] = 0
               /\ \A i \in 1..n : t[i] = t[i - 1] + g[i]
  BY SumToPartial
<1> DEFINE Good(i) == /\ s[i] \in Int /\ t[i] \in Int
                      /\ 0 <= t[i] - s[i]
                      /\ r <= i => g[r] - f[r] <= t[i] - s[i]
<1> DEFINE Bad == {i \in 0..n : ~Good(i)}
<1>3. ASSUME Bad # {} PROVE FALSE
  <2>1. PICK m \in Bad : \A k \in Bad : m <= k
    <3>1. Bad \in SUBSET Nat
      OBVIOUS
    <3> HIDE DEF Bad
    <3> QED BY <1>3, <3>1, LeastElement
  <2>2. m # 0
    BY <1>1, <1>2, <2>1
  <2>3. m - 1 \in 0..n /\ Good(m - 1)
    BY <2>1, <2>2
  <2>4. /\ s[m] = s[m - 1] + f[m] /\ t[m] = t[m - 1] + g[m]
        /\ f[m] \in Nat /\ g[m] \in Nat /\ f[m] <= g[m]
    BY <2>1, <2>2, <2>3, <1>1, <1>2
  <2>5. f[r] \in Nat /\ g[r] \in Nat /\ m \in Nat /\ r \in Nat
    BY <2>1
  <2>6. s[m] \in Int /\ t[m] \in Int /\ 0 <= t[m] - s[m]
    BY <2>3, <2>4
  <2>7. r <= m => g[r] - f[r] <= t[m] - s[m]
    <3>1. CASE r = m
      BY <3>1, <2>3, <2>4
    <3>2. CASE r <= m - 1
      BY <3>2, <2>3, <2>4, <2>5
    <3> QED BY <3>1, <3>2, <2>5
  <2> QED BY <2>1, <2>6, <2>7
<1>4. Good(n)
  BY <1>3
<1> QED BY <1>1, <1>2, <1>4

\* A sum of zeros is zero.
LEMMA SumToZero ==
    ASSUME NEW n \in Nat
    PROVE  SumTo([r \in 1..n |-> 0], n) = 0
<1> DEFINE f == [r \in 1..n |-> 0]
<1>1. PICK s : /\ SumTo(f, n) = s[n]
               /\ s[0] = 0
               /\ \A i \in 1..n : s[i] = s[i - 1] + f[i]
  BY SumToPartial
<1> DEFINE Bad == {i \in 0..n : s[i] # 0}
<1>2. ASSUME Bad # {} PROVE FALSE
  <2>1. PICK m \in Bad : \A k \in Bad : m <= k
    <3>1. Bad \in SUBSET Nat
      OBVIOUS
    <3> HIDE DEF Bad
    <3> QED BY <1>2, <3>1, LeastElement
  <2>2. m # 0
    BY <1>1, <2>1
  <2>3. m - 1 \in 0..n /\ s[m - 1] = 0
    BY <2>1, <2>2
  <2> QED BY <2>1, <2>2, <2>3, <1>1
<1> QED BY <1>1, <1>2

-----------------------------------------------------------------------------
(* Sums over a finite set. *)

\* The element that a sum takes first.
First(T) == CHOOSE x \in T : TRUE

\* A family of sets that are all finite has a smallest one.
LEMMA SmallestSet ==
    ASSUME NEW F, F # {}, \A T \in F : IsFiniteSet(T)
    PROVE  \E T \in F : \A U \in F : Cardinality(T) <= Cardinality(U)
<1> DEFINE C == {Cardinality(T) : T \in F}
<1>1. C \in SUBSET Nat /\ C # {}
  BY FS_CardinalityType
<1>2. PICK m \in C : \A k \in C : m <= k
  <2> HIDE DEF C
  <2> QED BY <1>1, LeastElement
<1> QED BY <1>2

\* s holds the sums of f over the subsets of S with up to m elements.
SubsetSums(s, f, S, m) ==
    s = [T \in {U \in SUBSET S : Cardinality(U) <= m} |->
            IF T = {} THEN 0 ELSE f[First(T)] + s[T \ {First(T)}]]

LEMMA WithoutFirst ==
    ASSUME NEW T, IsFiniteSet(T), T # {}
    PROVE  First(T) \in T /\ IsFiniteSet(T \ {First(T)})
           /\ Cardinality(T \ {First(T)}) = Cardinality(T) - 1
           /\ Cardinality(T) \in Nat /\ Cardinality(T) > 0
           /\ Cardinality(T \ {First(T)}) \in Nat
<1>1. First(T) \in T
  BY DEF First
<1> QED BY <1>1, FS_RemoveElement, FS_CardinalityType, FS_EmptySet

\* The recursive function in SumFunctionOnSet exists.
LEMMA SubsetSumsExist ==
    ASSUME NEW S, IsFiniteSet(S), NEW f, NEW n \in Nat
    PROVE  \E s : SubsetSums(s, f, S, n)
<1> DEFINE Missing == {m \in Nat : ~ \E s : SubsetSums(s, f, S, m)}
<1>1. \A T \in SUBSET S : IsFiniteSet(T) /\ Cardinality(T) \in Nat
  BY FS_Subset, FS_CardinalityType
<1>2. ASSUME Missing # {} PROVE FALSE
  <2>1. PICK m \in Missing : \A k \in Missing : m <= k
    BY <1>2, LeastElement
  <2> DEFINE D(k) == {U \in SUBSET S : Cardinality(U) <= k}
  <2>2. CASE m = 0
    <3> DEFINE z == [T \in D(0) |-> 0]
    <3>1. \A T \in D(0) : T = {}
      BY <1>1, FS_EmptySet
    <3>2. z = [T \in D(0) |-> IF T = {} THEN 0 ELSE f[First(T)] + z[T \ {First(T)}]]
      BY <3>1
    <3> QED BY <3>2, <2>1, <2>2 DEF SubsetSums
  <2>3. CASE m # 0
    <3>1. m - 1 \in Nat /\ m - 1 \notin Missing
      BY <2>1, <2>3
    <3>2. PICK s : SubsetSums(s, f, S, m - 1)
      BY <3>1
    <3> DEFINE t == [T \in D(m) |-> IF T = {} THEN 0 ELSE f[First(T)] + s[T \ {First(T)}]]
    <3>3. ASSUME NEW U \in D(m - 1) PROVE t[U] = s[U]
      <4>1. U \in D(m)
        BY <1>1, <3>1
      <4>2. s[U] = IF U = {} THEN 0 ELSE f[First(U)] + s[U \ {First(U)}]
        BY <3>2 DEF SubsetSums
      <4> QED BY <4>1, <4>2
    <3>4. ASSUME NEW T \in D(m), T # {} PROVE T \ {First(T)} \in D(m - 1)
      BY <1>1, <3>4, WithoutFirst
    <3>5. t = [T \in D(m) |-> IF T = {} THEN 0 ELSE f[First(T)] + t[T \ {First(T)}]]
      <4> HIDE DEF D
      <4> QED BY <3>3, <3>4
    <3> QED BY <3>5, <2>1 DEF SubsetSums
  <2> QED BY <2>2, <2>3
<1> QED BY <1>2

\* s adds f over any subset of S.
AddsOver(s, f, S) ==
    /\ s[{}] = 0
    /\ \A T \in SUBSET S : T # {} => s[T] = f[First(T)] + s[T \ {First(T)}]

LEMMA SumIsSubsetSum ==
    ASSUME NEW S, IsFiniteSet(S), NEW f
    PROVE  \E s : SumFunctionOnSet(f, S) = s[S] /\ AddsOver(s, f, S)
<1> DEFINE sum == CHOOSE s : s = [T \in SUBSET S |->
                      IF T = {} THEN 0 ELSE f[First(T)] + s[T \ {First(T)}]]
<1>1. SumFunctionOnSet(f, S) = sum[S]
  BY DEF SumFunctionOnSet, FoldFunctionOnSet, MapThenFoldSet, First
<1>2. {U \in SUBSET S : Cardinality(U) <= Cardinality(S)} = SUBSET S
  BY FS_Subset
<1>3. \E s : s = [T \in SUBSET S |-> IF T = {} THEN 0 ELSE f[First(T)] + s[T \ {First(T)}]]
  <2>1. PICK s : SubsetSums(s, f, S, Cardinality(S))
    BY SubsetSumsExist, FS_CardinalityType
  <2>2. s = [T \in SUBSET S |-> IF T = {} THEN 0 ELSE f[First(T)] + s[T \ {First(T)}]]
    BY <1>2, <2>1 DEF SubsetSums
  <2> QED BY <2>2
<1>4. sum = [T \in SUBSET S |-> IF T = {} THEN 0 ELSE f[First(T)] + sum[T \ {First(T)}]]
  BY <1>3
<1> HIDE DEF sum
<1>5. sum[{}] = 0
  BY <1>4
<1>6. \A T \in SUBSET S : T # {} => sum[T] = f[First(T)] + sum[T \ {First(T)}]
  BY <1>4
<1> QED BY <1>1, <1>5, <1>6 DEF AddsOver

\* Two such functions agree.
LEMMA SubsetSumsAgree ==
    ASSUME NEW S, IsFiniteSet(S), NEW f, NEW s, NEW u,
           AddsOver(s, f, S), AddsOver(u, f, S)
    PROVE  s[S] = u[S]
<1> DEFINE Bad == {T \in SUBSET S : s[T] # u[T]}
<1>1. \A T \in SUBSET S : IsFiniteSet(T)
  BY FS_Subset
<1>2. ASSUME Bad # {} PROVE FALSE
  <2>1. PICK T \in Bad : \A U \in Bad : Cardinality(T) <= Cardinality(U)
    <3>1. \A T \in Bad : IsFiniteSet(T)
      BY <1>1
    <3> HIDE DEF Bad
    <3> QED BY <1>2, <3>1, SmallestSet
  <2>2. T # {} /\ IsFiniteSet(T)
    BY <1>1, <2>1 DEF AddsOver
  <2>3. T \ {First(T)} \notin Bad
    <3>1. Cardinality(T \ {First(T)}) = Cardinality(T) - 1 /\ Cardinality(T) \in Nat
      BY <2>2, WithoutFirst
    <3>2. ~(Cardinality(T) <= Cardinality(T) - 1)
      BY <3>1
    <3> HIDE DEF Bad
    <3> QED BY <2>1, <3>1, <3>2
  <2> QED BY <2>1, <2>2, <2>3 DEF AddsOver
<1> QED BY <1>2

LEMMA SumOfNone == ASSUME NEW f PROVE SumFunctionOnSet(f, {}) = 0
  BY SumIsSubsetSum, FS_EmptySet DEF AddsOver

LEMMA SumFirst ==
    ASSUME NEW S, IsFiniteSet(S), S # {}, NEW f
    PROVE  SumFunctionOnSet(f, S) = f[First(S)] + SumFunctionOnSet(f, S \ {First(S)})
<1> DEFINE R == S \ {First(S)}
<1>1. PICK s : SumFunctionOnSet(f, S) = s[S] /\ AddsOver(s, f, S)
  BY SumIsSubsetSum
<1>2. IsFiniteSet(R) /\ R \in SUBSET S
  BY WithoutFirst
<1>3. AddsOver(s, f, R)
  BY <1>1 DEF AddsOver
<1>4. s[S] = f[First(S)] + s[R]
  BY <1>1 DEF AddsOver
<1> HIDE DEF R
<1>5. PICK u : SumFunctionOnSet(f, R) = u[R] /\ AddsOver(u, f, R)
  BY <1>2, SumIsSubsetSum
<1>6. s[R] = u[R]
  BY <1>2, <1>3, <1>5, SubsetSumsAgree
<1> QED BY <1>1, <1>4, <1>5, <1>6 DEF R

-----------------------------------------------------------------------------
\* A sum of integers is one.
LEMMA SumInt ==
    ASSUME NEW S, IsFiniteSet(S), NEW f, \A x \in S : f[x] \in Int
    PROVE  SumFunctionOnSet(f, S) \in Int
<1> DEFINE Bad == {T \in SUBSET S : SumFunctionOnSet(f, T) \notin Int}
<1>1. \A T \in SUBSET S : IsFiniteSet(T)
  BY FS_Subset
<1>2. ASSUME Bad # {} PROVE FALSE
  <2>1. PICK T \in Bad : \A U \in Bad : Cardinality(T) <= Cardinality(U)
    <3>1. \A T \in Bad : IsFiniteSet(T)
      BY <1>1
    <3> HIDE DEF Bad
    <3> QED BY <1>2, <3>1, SmallestSet
  <2>2. T # {} /\ IsFiniteSet(T)
    BY <1>1, <2>1, SumOfNone
  <2>3. T \ {First(T)} \notin Bad
    <3>1. Cardinality(T \ {First(T)}) = Cardinality(T) - 1 /\ Cardinality(T) \in Nat
      BY <2>2, WithoutFirst
    <3>2. ~(Cardinality(T) <= Cardinality(T) - 1)
      BY <3>1
    <3> HIDE DEF Bad
    <3> QED BY <2>1, <3>1, <3>2
  <2>4. First(T) \in S /\ f[First(T)] \in Int
    BY <2>1, <2>2, WithoutFirst
  <2>5. SumFunctionOnSet(f, T) = f[First(T)] + SumFunctionOnSet(f, T \ {First(T)})
    BY <2>2, SumFirst
  <2>6. SumFunctionOnSet(f, T \ {First(T)}) \in Int
    BY <2>1, <2>3
  <2> QED BY <2>1, <2>4, <2>5, <2>6
<1> QED BY <1>2

\* The order does not matter: any element can be taken first.
LEMMA SumRemove ==
    ASSUME NEW S, IsFiniteSet(S), NEW f, \A x \in S : f[x] \in Int, NEW x \in S
    PROVE  SumFunctionOnSet(f, S) = SumFunctionOnSet(f, S \ {x}) + f[x]
<1> DEFINE Bad == {T \in SUBSET S : \E y \in T :
                      SumFunctionOnSet(f, T) # SumFunctionOnSet(f, T \ {y}) + f[y]}
<1>1. \A T \in SUBSET S : IsFiniteSet(T) /\ SumFunctionOnSet(f, T) \in Int
  BY FS_Subset, SumInt
<1>2. ASSUME Bad # {} PROVE FALSE
  <2>1. PICK T \in Bad : \A U \in Bad : Cardinality(T) <= Cardinality(U)
    <3>1. \A T \in Bad : IsFiniteSet(T)
      BY <1>1
    <3> HIDE DEF Bad
    <3> QED BY <1>2, <3>1, SmallestSet
  <2>2. PICK y \in T : SumFunctionOnSet(f, T) # SumFunctionOnSet(f, T \ {y}) + f[y]
    BY <2>1
  <2> DEFINE z == First(T)
  <2>3. T # {} /\ IsFiniteSet(T) /\ T \in SUBSET S /\ z \in T
    BY <1>1, <2>1, <2>2, WithoutFirst
  <2>4. SumFunctionOnSet(f, T) = f[z] + SumFunctionOnSet(f, T \ {z})
    BY <2>3, SumFirst
  <2>5. f[y] \in Int /\ f[z] \in Int
    BY <2>3
  <2>6. \A w \in T : T \ {w} \in SUBSET S /\ T \ {w} \notin Bad
    <3> TAKE w \in T
    <3>1. Cardinality(T \ {w}) = Cardinality(T) - 1 /\ Cardinality(T) \in Nat
      BY <2>3, FS_RemoveElement, FS_CardinalityType
    <3>2. ~(Cardinality(T) <= Cardinality(T) - 1)
      BY <3>1
    <3>3. T \ {w} \notin Bad
      <4> HIDE DEF Bad
      <4> QED BY <2>1, <3>1, <3>2
    <3> QED BY <2>3, <3>3
  <2> HIDE DEF z
  <2> DEFINE a == SumFunctionOnSet(f, T \ {y})
             b == SumFunctionOnSet(f, T \ {z})
             c == SumFunctionOnSet(f, (T \ {y}) \ {z})
  <2>7. a \in Int /\ b \in Int
    BY <1>1, <2>3, <2>6
  <2>8. SumFunctionOnSet(f, T) = f[z] + b /\ SumFunctionOnSet(f, T) # a + f[y]
    BY <2>2, <2>4
  <2>9. y # z
    <3>1. y = z => a = b
      OBVIOUS
    <3> HIDE DEF a, b
    <3> QED BY <2>5, <2>7, <2>8, <3>1
  <2>10. (T \ {z}) \ {y} = (T \ {y}) \ {z} /\ (T \ {y}) \ {z} \in SUBSET S
    BY <2>3
  <2>11. c \in Int
    BY <1>1, <2>10
  <2>12. b = c + f[y]
    BY <2>3, <2>6, <2>9, <2>10
  <2>13. a = c + f[z]
    BY <2>3, <2>6, <2>9
  <2> HIDE DEF a, b, c
  <2> QED BY <2>5, <2>7, <2>8, <2>11, <2>12, <2>13
<1> QED BY <1>2

LEMMA SumAdd ==
    ASSUME NEW S, IsFiniteSet(S), NEW x, x \notin S, NEW f,
           \A y \in S \cup {x} : f[y] \in Int
    PROVE  SumFunctionOnSet(f, S \cup {x}) = SumFunctionOnSet(f, S) + f[x]
<1>1. IsFiniteSet(S \cup {x}) /\ (S \cup {x}) \ {x} = S
  BY FS_AddElement
<1> QED BY <1>1, SumRemove

\* The sum of two functions.
LEMMA SumPlus ==
    ASSUME NEW S, IsFiniteSet(S), NEW f, NEW g, NEW h,
           \A x \in S : f[x] \in Int /\ g[x] \in Int /\ h[x] = f[x] + g[x]
    PROVE  SumFunctionOnSet(h, S) = SumFunctionOnSet(f, S) + SumFunctionOnSet(g, S)
<1> DEFINE Bad == {T \in SUBSET S : SumFunctionOnSet(h, T)
                                       # SumFunctionOnSet(f, T) + SumFunctionOnSet(g, T)}
<1>1. \A T \in SUBSET S : /\ IsFiniteSet(T)
                          /\ SumFunctionOnSet(f, T) \in Int
                          /\ SumFunctionOnSet(g, T) \in Int
  BY FS_Subset, SumInt
<1>2. ASSUME Bad # {} PROVE FALSE
  <2>1. PICK T \in Bad : \A U \in Bad : Cardinality(T) <= Cardinality(U)
    <3>1. \A T \in Bad : IsFiniteSet(T)
      BY <1>1
    <3> HIDE DEF Bad
    <3> QED BY <1>2, <3>1, SmallestSet
  <2> DEFINE x == First(T)
             R == T \ {x}
             a == SumFunctionOnSet(f, R)
             b == SumFunctionOnSet(g, R)
  <2>2. T # {} /\ IsFiniteSet(T) /\ x \in S /\ R \in SUBSET S
    <3>1. T # {}
      BY <2>1, SumOfNone
    <3> QED BY <1>1, <2>1, <3>1, WithoutFirst
  <2>3. R \notin Bad
    <3>1. Cardinality(R) = Cardinality(T) - 1 /\ Cardinality(T) \in Nat
      BY <2>2, WithoutFirst
    <3>2. ~(Cardinality(T) <= Cardinality(T) - 1)
      BY <3>1
    <3> HIDE DEF Bad, R
    <3> QED BY <2>1, <3>1, <3>2
  <2>4. /\ SumFunctionOnSet(f, T) = f[x] + a
        /\ SumFunctionOnSet(g, T) = g[x] + b
        /\ SumFunctionOnSet(h, T) = h[x] + SumFunctionOnSet(h, R)
    BY <2>2, SumFirst
  <2>5. SumFunctionOnSet(h, R) = a + b /\ a \in Int /\ b \in Int
    BY <1>1, <2>2, <2>3
  <2>6. f[x] \in Int /\ g[x] \in Int /\ h[x] = f[x] + g[x]
    BY <2>2
  <2>7. SumFunctionOnSet(h, T) # SumFunctionOnSet(f, T) + SumFunctionOnSet(g, T)
    BY <2>1
  <2> HIDE DEF x, R, a, b
  <2> QED BY <2>4, <2>5, <2>6, <2>7
<1> QED BY <1>2

LEMMA SumOfZeros ==
    ASSUME NEW S, IsFiniteSet(S), NEW f, \A x \in S : f[x] = 0
    PROVE  SumFunctionOnSet(f, S) = 0
<1>1. SumFunctionOnSet(f, S) = SumFunctionOnSet(f, S) + SumFunctionOnSet(f, S)
  BY SumPlus
<1>2. SumFunctionOnSet(f, S) \in Int
  BY SumInt
<1>3. \A n \in Int : n = n + n => n = 0
  OBVIOUS
<1> QED BY <1>1, <1>2, <1>3

\* A sum depends on the values on its set only.
LEMMA SumAgree ==
    ASSUME NEW S, IsFiniteSet(S), NEW f, NEW g,
           \A x \in S : f[x] \in Int /\ g[x] = f[x]
    PROVE  SumFunctionOnSet(g, S) = SumFunctionOnSet(f, S)
<1> DEFINE zero == [x \in S |-> 0]
<1>1. \A x \in S : zero[x] \in Int /\ zero[x] = 0 /\ g[x] = f[x] + zero[x]
  OBVIOUS
<1> HIDE DEF zero
<1>2. SumFunctionOnSet(g, S) = SumFunctionOnSet(f, S) + SumFunctionOnSet(zero, S)
  BY <1>1, SumPlus
<1>3. SumFunctionOnSet(zero, S) = 0 /\ SumFunctionOnSet(f, S) \in Int
  BY <1>1, SumOfZeros, SumInt
<1> QED BY <1>2, <1>3

\* One more element, with a function that agrees on the others.
LEMMA SumExtend ==
    ASSUME NEW S, IsFiniteSet(S), NEW x, x \notin S, NEW f, NEW g, NEW T, T = S \cup {x},
           \A y \in S : g[y] = f[y] /\ f[y] \in Int, g[x] \in Int
    PROVE  SumFunctionOnSet(g, T) = SumFunctionOnSet(f, S) + g[x]
<1>1. SumFunctionOnSet(g, S) = SumFunctionOnSet(f, S)
  BY SumAgree
<1>2. \A y \in S \cup {x} : g[y] \in Int
  OBVIOUS
<1>3. SumFunctionOnSet(g, S \cup {x}) = SumFunctionOnSet(g, S) + g[x]
  BY <1>2, SumAdd
<1> QED BY <1>1, <1>3

\* Changing one value of a function changes the sum by as much.
LEMMA SumChange ==
    ASSUME NEW S, IsFiniteSet(S), NEW f, NEW g, NEW x \in S,
           \A y \in S : f[y] \in Int /\ g[y] \in Int,
           \A y \in S \ {x} : g[y] = f[y]
    PROVE  SumFunctionOnSet(g, S) = SumFunctionOnSet(f, S) + g[x] - f[x]
<1> DEFINE R == S \ {x}
           a == SumFunctionOnSet(f, R)
           b == SumFunctionOnSet(g, R)
<1>1. IsFiniteSet(R) /\ \A y \in R : f[y] \in Int /\ g[y] = f[y]
  BY FS_RemoveElement
<1>2. SumFunctionOnSet(f, S) = a + f[x] /\ SumFunctionOnSet(g, S) = b + g[x]
  BY SumRemove
<1> HIDE DEF R
<1>3. b = a /\ a \in Int
  BY <1>1, SumAgree, SumInt
<1> HIDE DEF a, b
<1> QED BY <1>2, <1>3

\* A sum of natural numbers is one, and bounds each of them.
LEMMA SumNat ==
    ASSUME NEW S, IsFiniteSet(S), NEW f, \A x \in S : f[x] \in Nat
    PROVE  SumFunctionOnSet(f, S) \in Nat /\ \A x \in S : f[x] <= SumFunctionOnSet(f, S)
<1> DEFINE Bad == {T \in SUBSET S : SumFunctionOnSet(f, T) \notin Nat}
<1>1. \A T \in SUBSET S : IsFiniteSet(T)
  BY FS_Subset
<1>2. ASSUME Bad # {} PROVE FALSE
  <2>1. PICK T \in Bad : \A U \in Bad : Cardinality(T) <= Cardinality(U)
    <3>1. \A T \in Bad : IsFiniteSet(T)
      BY <1>1
    <3> HIDE DEF Bad
    <3> QED BY <1>2, <3>1, SmallestSet
  <2>2. T # {} /\ IsFiniteSet(T)
    BY <1>1, <2>1, SumOfNone
  <2>3. T \ {First(T)} \notin Bad
    <3>1. Cardinality(T \ {First(T)}) = Cardinality(T) - 1 /\ Cardinality(T) \in Nat
      BY <2>2, WithoutFirst
    <3>2. ~(Cardinality(T) <= Cardinality(T) - 1)
      BY <3>1
    <3> HIDE DEF Bad
    <3> QED BY <2>1, <3>1, <3>2
  <2>4. First(T) \in S /\ f[First(T)] \in Nat
    BY <2>1, <2>2, WithoutFirst
  <2>5. SumFunctionOnSet(f, T) = f[First(T)] + SumFunctionOnSet(f, T \ {First(T)})
    BY <2>2, SumFirst
  <2>6. SumFunctionOnSet(f, T \ {First(T)}) \in Nat
    BY <2>1, <2>3
  <2> QED BY <2>1, <2>4, <2>5, <2>6
<1>3. ASSUME NEW x \in S
      PROVE  f[x] <= SumFunctionOnSet(f, S)
  <2> DEFINE a == SumFunctionOnSet(f, S \ {x})
  <2>1. SumFunctionOnSet(f, S) = a + f[x]
    BY SumRemove
  <2>2. a \in Nat /\ f[x] \in Nat
    BY <1>2
  <2> HIDE DEF a
  <2> QED BY <2>1, <2>2
<1> QED BY <1>2, <1>3

\* The sum over two sets without a common element.
LEMMA SumSplit ==
    ASSUME NEW A, IsFiniteSet(A), NEW B, IsFiniteSet(B), A \cap B = {}, NEW f,
           \A x \in A \cup B : f[x] \in Int
    PROVE  SumFunctionOnSet(f, A \cup B) = SumFunctionOnSet(f, A) + SumFunctionOnSet(f, B)
<1> DEFINE Bad == {T \in SUBSET A : SumFunctionOnSet(f, T \cup B)
                                       # SumFunctionOnSet(f, T) + SumFunctionOnSet(f, B)}
<1>1. \A T \in SUBSET A : /\ IsFiniteSet(T) /\ IsFiniteSet(T \cup B)
                          /\ SumFunctionOnSet(f, T) \in Int
                          /\ SumFunctionOnSet(f, T \cup B) \in Int
  BY FS_Subset, FS_Union, SumInt
<1>2. SumFunctionOnSet(f, B) \in Int
  BY SumInt
<1>3. ASSUME Bad # {} PROVE FALSE
  <2>1. PICK T \in Bad : \A U \in Bad : Cardinality(T) <= Cardinality(U)
    <3>1. \A T \in Bad : IsFiniteSet(T)
      BY <1>1
    <3> HIDE DEF Bad
    <3> QED BY <1>3, <3>1, SmallestSet
  <2> DEFINE x == First(T)
             R == T \ {x}
             a == SumFunctionOnSet(f, R)
             b == SumFunctionOnSet(f, R \cup B)
             c == SumFunctionOnSet(f, B)
  <2>2. T # {}
    <3>1. {} \cup B = B
      OBVIOUS
    <3> QED BY <1>2, <2>1, <3>1, SumOfNone
  <2>3. IsFiniteSet(T) /\ x \in A /\ x \in T /\ R \in SUBSET A /\ T \in SUBSET A
    BY <1>1, <2>1, <2>2, WithoutFirst
  <2>4. R \notin Bad
    <3>1. Cardinality(R) = Cardinality(T) - 1 /\ Cardinality(T) \in Nat
      BY <2>2, <2>3, WithoutFirst
    <3>2. ~(Cardinality(T) <= Cardinality(T) - 1)
      BY <3>1
    <3> HIDE DEF Bad, R
    <3> QED BY <2>1, <3>1, <3>2
  <2>5. b = a + c
    BY <2>3, <2>4
  <2>6. SumFunctionOnSet(f, T) = a + f[x]
    <3>1. \A y \in T : f[y] \in Int
      BY <2>3
    <3> HIDE DEF x
    <3> QED BY <2>3, <3>1, SumRemove
  <2>7. SumFunctionOnSet(f, T \cup B) = b + f[x]
    <3>1. (T \cup B) \ {x} = R \cup B
      BY <2>3
    <3>2. /\ \A y \in T \cup B : f[y] \in Int
          /\ IsFiniteSet(T \cup B) /\ x \in T \cup B
      BY <1>1, <2>3
    <3> HIDE DEF x, R
    <3> QED BY <3>1, <3>2, SumRemove
  <2>8. a \in Int /\ b \in Int /\ c \in Int /\ f[x] \in Int
    BY <1>1, <1>2, <2>3
  <2>9. SumFunctionOnSet(f, T \cup B) # SumFunctionOnSet(f, T) + c
    BY <2>1
  <2> HIDE DEF x, R, a, b, c
  <2> QED BY <2>5, <2>6, <2>7, <2>8, <2>9
<1> QED BY <1>3

\* A part of a sum of natural numbers is no more than the sum.
LEMMA SumPart ==
    ASSUME NEW S, IsFiniteSet(S), NEW T \in SUBSET S, NEW f, \A x \in S : f[x] \in Nat
    PROVE  SumFunctionOnSet(f, T) <= SumFunctionOnSet(f, S)
<1> DEFINE a == SumFunctionOnSet(f, T)
           b == SumFunctionOnSet(f, S \ T)
<1>1. IsFiniteSet(T) /\ IsFiniteSet(S \ T) /\ T \cap (S \ T) = {} /\ T \cup (S \ T) = S
  BY FS_Subset, FS_Difference
<1>2. SumFunctionOnSet(f, S) = a + b
  BY <1>1, SumSplit
<1>3. a \in Nat /\ b \in Nat
  BY <1>1, SumNat
<1> HIDE DEF a, b
<1> QED BY <1>2, <1>3 DEF a

-----------------------------------------------------------------------------
(* Blocks of numbers. *)

\* Blocks of M bits do not overlap.
LEMMA DisjointBlocks ==
    ASSUME NEW M \in Nat, NEW i \in Nat, NEW j \in Nat, NEW a \in Nat, NEW b \in Nat,
           i < M, j < M, i + a * M = j + b * M
    PROVE  a = b /\ i = j
<1>1. ASSUME NEW x \in Nat, NEW y \in Nat, x < y
      PROVE  y * M >= x * M + M
  <2>1. PICK d \in Nat : y = x + 1 + d
    <3>1. y - x - 1 \in Nat /\ y = x + 1 + (y - x - 1)
      BY <1>1
    <3> QED BY <3>1
  <2>2. y * M = x * M + M + d * M
    BY <2>1
  <2>3. d * M \in Nat /\ x * M \in Nat /\ y * M \in Nat
    BY SMT
  <2> QED BY <2>2, <2>3
<1>2. a * M \in Nat /\ b * M \in Nat
  BY SMT
<1>3. ~(a < b)
  BY <1>1, <1>2
<1>4. ~(b < a)
  BY <1>1, <1>2
<1>5. a = b
  BY <1>3, <1>4
<1> QED BY <1>2, <1>5
=============================================================================
