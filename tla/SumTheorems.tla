----------------------------- MODULE SumTheorems -----------------------------
(****************************************************************************)
(* Facts about SumFunctionOnSet, the sum of a function over a finite set,   *)
(* that the proofs of the books rest on.  The community modules define it   *)
(* by a fold that takes the elements in an order CHOOSE fixes; here the     *)
(* order is shown not to matter.  Induction is over sets of good subsets or *)
(* of good numbers, so that each use of it is a first-order fact.  Last,    *)
(* what the smaller and the larger of two numbers are.                      *)
(****************************************************************************)
EXTENDS Integers, FiniteSetsExt, FiniteSetTheorems, TLAPS

(* A set of subsets that holds every subset all of whose proper subsets it  *)
(* holds, holds the whole set.                                              *)
LEMMA SubsetInduction ==
  ASSUME NEW S, IsFiniteSet(S), NEW Good,
         \A T \in SUBSET S : (\A U \in SUBSET T : U # T => U \in Good) => T \in Good
  PROVE  S \in Good
<1> DEFINE Bad == {T \in SUBSET S : T \notin Good}
<1> SUFFICES ASSUME S \notin Good PROVE FALSE OBVIOUS
<1>1. Bad # {} OBVIOUS
<1>2. /\ FiniteSubsetsOf(S) = SUBSET S
      /\ IsWellFoundedOn(StrictSubsetOrdering(S), FiniteSubsetsOf(S))
  BY FS_FiniteSubsetsOfFinite, FS_StrictSubsetOrderingWellFounded
<1>3. PICK T \in Bad : \A U \in Bad : <<U, T>> \notin StrictSubsetOrdering(S)
  <2>1. Bad \subseteq FiniteSubsetsOf(S) BY <1>2
  <2> HIDE DEF Bad
  <2> QED BY <1>1, <1>2, <2>1, WFMin
<1>4. \A U \in SUBSET T : U # T => U \in Good
  BY <1>3 DEF StrictSubsetOrdering
<1> QED BY <1>3, <1>4

(* The same, one element at a time. *)
LEMMA ElementInduction ==
  ASSUME NEW S, IsFiniteSet(S), NEW Good, {} \in Good,
         \A T \in SUBSET S : \A x \in S \ T : T \in Good => T \cup {x} \in Good
  PROVE  S \in Good
<1>1. ASSUME NEW T \in SUBSET S, \A U \in SUBSET T : U # T => U \in Good
      PROVE  T \in Good
  <2>1. CASE T = {} BY <2>1
  <2>2. CASE T # {}
    <3>1. PICK x \in T : TRUE BY <2>2
    <3>2. T \ {x} \in Good BY <1>1
    <3>3. (T \ {x}) \cup {x} = T OBVIOUS
    <3> QED BY <3>2, <3>3
  <2> QED BY <2>1, <2>2
<1> QED BY <1>1, SubsetInduction

(* A set that holds 0 and the successor of whatever it holds, holds all. *)
LEMMA NumberInduction ==
  ASSUME NEW Good, 0 \in Good, \A n \in Nat : n \in Good => n + 1 \in Good
  PROVE  \A n \in Nat : n \in Good
<1> SUFFICES ASSUME NEW m \in Nat PROVE m \in Good OBVIOUS
<1> DEFINE Fine == {T \in SUBSET (0 .. m) : \A n \in Nat : T = 0 .. n => n \in Good}
           S == 0 .. m
<1>1. ASSUME NEW T \in SUBSET S, \A U \in SUBSET T : U # T => U \in Fine
      PROVE  T \in Fine
  <2>1. SUFFICES ASSUME NEW n \in Nat, T = 0 .. n PROVE n \in Good OBVIOUS
  <2>2. CASE n = 0 BY <2>2
  <2>3. CASE n # 0
    <3>1. n - 1 \in Nat /\ 0 .. n - 1 \in SUBSET T /\ n \in T /\ n \notin 0 .. n - 1
      BY <2>1, <2>3
    <3>2. n - 1 \in Good BY <1>1, <3>1
    <3> QED BY <3>1, <3>2
  <2> QED BY <2>2, <2>3
<1>2. IsFiniteSet(S) BY FS_Interval
<1> HIDE DEF Fine, S
<1>3. S \in Fine BY <1>1, <1>2, SubsetInduction
<1> QED BY <1>3 DEF Fine, S

-----------------------------------------------------------------------------
(* The fold's table of partial sums. *)
Adds(f, S, g) ==
  g = [T \in SUBSET S |-> IF T = {} THEN 0
                          ELSE LET x == CHOOSE x \in T : TRUE IN f[x] + g[T \ {x}]]

First(T) == CHOOSE x \in T : TRUE

(* What the definition of the fold says of the sum. *)
LEMMA SumIsFold == \A f, S : SumFunctionOnSet(f, S) = (CHOOSE g : Adds(f, S, g))[S]
BY Zenon DEF SumFunctionOnSet, FoldFunctionOnSet, MapThenFoldSet, Adds

(* A table, entry by entry. *)
LEMMA AddsEntries ==
  ASSUME NEW f, NEW S, NEW g
  PROVE  Adds(f, S, g) <=>
           /\ g = [T \in SUBSET S |-> g[T]]
           /\ \A T \in SUBSET S :
                g[T] = IF T = {} THEN 0 ELSE f[First(T)] + g[T \ {First(T)}]
BY Zenon DEF Adds, First

(* There is at most one table. *)
LEMMA AddsUnique ==
  ASSUME NEW f, NEW S, IsFiniteSet(S), NEW g, NEW h, NEW R, S \subseteq R,
         Adds(f, S, g), Adds(f, R, h)
  PROVE  g[S] = h[S]
<1> DEFINE Good == {T \in SUBSET S : g[T] = h[T]}
<1>1. ASSUME NEW T \in SUBSET S, \A U \in SUBSET T : U # T => U \in Good
      PROVE  T \in Good
  <2>1. /\ g[T] = IF T = {} THEN 0 ELSE f[First(T)] + g[T \ {First(T)}]
        /\ h[T] = IF T = {} THEN 0 ELSE f[First(T)] + h[T \ {First(T)}]
    BY AddsEntries
  <2>2. T # {} => First(T) \in T BY DEF First
  <2>3. T # {} => g[T \ {First(T)}] = h[T \ {First(T)}]
    BY <1>1, <2>2
  <2> QED BY <2>1, <2>3
<1> HIDE DEF Good
<1>2. S \in Good BY <1>1, SubsetInduction
<1> QED BY <1>2 DEF Good

(* There is one. *)
LEMMA AddsExists ==
  ASSUME NEW f, NEW S, IsFiniteSet(S)
  PROVE  \E g : Adds(f, S, g)
<1> DEFINE Good == {T \in SUBSET S : \E g : Adds(f, T, g)}
<1>1. ASSUME NEW T \in SUBSET S, \A U \in SUBSET T : U # T => U \in Good
      PROVE  T \in Good
  <2> DEFINE table(U) == CHOOSE g : Adds(f, U, g)
             prev(U) == IF U = T THEN (IF T = {} THEN 0 ELSE f[First(T)] + table(T \ {First(T)})[T \ {First(T)}])
                        ELSE table(U)[U]
             g == [U \in SUBSET T |-> prev(U)]
  <2>1. \A U \in SUBSET T : U # T => Adds(f, U, table(U))
    BY <1>1
  <2>2. \A U \in SUBSET T : U # {} => First(U) \in U BY DEF First
  <2>3. ASSUME NEW U \in SUBSET T
        PROVE  g[U] = IF U = {} THEN 0 ELSE f[First(U)] + g[U \ {First(U)}]
    <3>1. CASE U = T
      <4>1. CASE T = {} BY <3>1, <4>1
      <4>2. CASE T # {}
        <5>1. T \ {First(T)} # T /\ T \ {First(T)} \in SUBSET T BY <2>2, <4>2
        <5>2. g[T \ {First(T)}] = table(T \ {First(T)})[T \ {First(T)}] BY <5>1
        <5>3. g[T] = f[First(T)] + table(T \ {First(T)})[T \ {First(T)}] BY <4>2
        <5> QED BY <3>1, <4>2, <5>2, <5>3
      <4> QED BY <4>1, <4>2
    <3>2. CASE U # T
      <4>1. g[U] = table(U)[U] BY <3>2
      <4>2. Adds(f, U, table(U)) BY <2>1, <3>2
      <4>3. U \in SUBSET U OBVIOUS
      <4>4. table(U)[U] = IF U = {} THEN 0 ELSE f[First(U)] + table(U)[U \ {First(U)}]
        <5> HIDE DEF table
        <5> QED BY <4>2, <4>3, AddsEntries
      <4>5. ASSUME U # {} PROVE table(U)[U \ {First(U)}] = g[U \ {First(U)}]
        <5> DEFINE V == U \ {First(U)}
        <5>1. V \in SUBSET T /\ V # T /\ V \subseteq U /\ IsFiniteSet(V)
          BY <2>2, <3>2, <4>5, FS_Subset
        <5>2. Adds(f, V, table(V)) BY <2>1, <5>1
        <5>3. g[V] = table(V)[V] BY <5>1
        <5> HIDE DEF table, V
        <5>4. table(V)[V] = table(U)[V] BY <4>2, <5>1, <5>2, AddsUnique
        <5> QED BY <5>3, <5>4 DEF V
      <4> HIDE DEF g, table
      <4> QED BY <4>1, <4>4, <4>5
    <3> QED BY <3>1, <3>2
  <2>4. g = [U \in SUBSET T |-> g[U]] OBVIOUS
  <2> HIDE DEF g
  <2>5. Adds(f, T, g) BY <2>3, <2>4, AddsEntries
  <2> QED BY <2>5
<1> HIDE DEF Good
<1>2. S \in Good BY <1>1, SubsetInduction
<1> QED BY <1>2 DEF Good

(* The sum over a set, one element taken away: the one CHOOSE takes. *)
LEMMA SumFirst ==
  ASSUME NEW f, NEW S, IsFiniteSet(S)
  PROVE  SumFunctionOnSet(f, S) =
           IF S = {} THEN 0 ELSE f[First(S)] + SumFunctionOnSet(f, S \ {First(S)})
<1> DEFINE g == CHOOSE g : Adds(f, S, g)
           R == S \ {First(S)}
           h == CHOOSE h : Adds(f, R, h)
<1>1. Adds(f, S, g) BY AddsExists
<1>2. IsFiniteSet(R) /\ R \subseteq S BY FS_Subset
<1>3. Adds(f, R, h)
  <2> HIDE DEF R
  <2> QED BY <1>2, AddsExists
<1>4. SumFunctionOnSet(f, S) = g[S] /\ SumFunctionOnSet(f, R) = h[R]
  BY SumIsFold, Zenon
<1> HIDE DEF g, h, R
<1>5. h[R] = g[R] BY <1>1, <1>2, <1>3, AddsUnique
<1>6. g[S] = IF S = {} THEN 0 ELSE f[First(S)] + g[S \ {First(S)}]
  BY <1>1, AddsEntries
<1> QED BY <1>4, <1>5, <1>6 DEF R

-----------------------------------------------------------------------------
(* The sum over no element. *)
LEMMA SumEmpty == \A f : SumFunctionOnSet(f, {}) = 0
BY SumFirst, FS_EmptySet

(* A sum of integers is an integer. *)
LEMMA SumInt ==
  ASSUME NEW f, NEW S, IsFiniteSet(S), \A x \in S : f[x] \in Int
  PROVE  SumFunctionOnSet(f, S) \in Int
<1> DEFINE Good == {T \in SUBSET S : SumFunctionOnSet(f, T) \in Int}
<1>1. ASSUME NEW T \in SUBSET S, \A U \in SUBSET T : U # T => U \in Good
      PROVE  T \in Good
  <2>1. IsFiniteSet(T) BY FS_Subset
  <2>2. T # {} => First(T) \in T /\ f[First(T)] \in Int BY DEF First
  <2>3. T # {} => SumFunctionOnSet(f, T \ {First(T)}) \in Int BY <1>1, <2>2
  <2>4. SumFunctionOnSet(f, T) =
          IF T = {} THEN 0 ELSE f[First(T)] + SumFunctionOnSet(f, T \ {First(T)})
    BY <2>1, SumFirst
  <2> QED BY <2>2, <2>3, <2>4
<1> HIDE DEF Good
<1>2. S \in Good BY <1>1, SubsetInduction
<1> QED BY <1>2 DEF Good

(* Whichever element is taken away, the rest and it add up. *)
LEMMA SumRemove ==
  ASSUME NEW f, NEW S, IsFiniteSet(S), \A x \in S : f[x] \in Int, NEW y \in S
  PROVE  SumFunctionOnSet(f, S) = f[y] + SumFunctionOnSet(f, S \ {y})
<1> DEFINE Good == {T \in SUBSET S : \A x \in T :
             SumFunctionOnSet(f, T) = f[x] + SumFunctionOnSet(f, T \ {x})}
<1>1. ASSUME NEW T \in SUBSET S, \A U \in SUBSET T : U # T => U \in Good
      PROVE  T \in Good
  <2> SUFFICES ASSUME NEW x \in T
               PROVE  SumFunctionOnSet(f, T) = f[x] + SumFunctionOnSet(f, T \ {x})
    OBVIOUS
  <2> DEFINE c == First(T)
             both == (T \ {c}) \ {x}
  <2>1. c \in T BY DEF First
  <2>2. IsFiniteSet(T) BY FS_Subset
  <2>3. SumFunctionOnSet(f, T) = f[c] + SumFunctionOnSet(f, T \ {c})
    BY <2>2, SumFirst
  <2>4. CASE x = c BY <2>3, <2>4
  <2>5. CASE x # c
    <3>1. T \ {c} \in Good /\ T \ {x} \in Good BY <1>1, <2>1
    <3>2. SumFunctionOnSet(f, T \ {c}) = f[x] + SumFunctionOnSet(f, both)
      BY <2>5, <3>1
    <3>3. SumFunctionOnSet(f, T \ {x}) = f[c] + SumFunctionOnSet(f, both)
      <4>1. (T \ {x}) \ {c} = both OBVIOUS
      <4> QED BY <2>1, <2>5, <3>1, <4>1
    <3>4. SumFunctionOnSet(f, both) \in Int /\ f[x] \in Int /\ f[c] \in Int
      <4>1. IsFiniteSet(both) BY FS_Subset
      <4> QED BY <2>1, <4>1, SumInt
    <3> QED BY <2>3, <3>2, <3>3, <3>4
  <2> QED BY <2>4, <2>5
<1> HIDE DEF Good
<1>2. S \in Good BY <1>1, SubsetInduction
<1> QED BY <1>2 DEF Good

(* An element more. *)
LEMMA SumAdd ==
  ASSUME NEW f, NEW S, IsFiniteSet(S), \A x \in S : f[x] \in Int,
         NEW y, y \notin S, f[y] \in Int
  PROVE  SumFunctionOnSet(f, S \cup {y}) = f[y] + SumFunctionOnSet(f, S)
<1>1. IsFiniteSet(S \cup {y}) /\ (S \cup {y}) \ {y} = S BY FS_AddElement
<1> QED BY <1>1, SumRemove

(* The sum sees only the values of the function on the set. *)
LEMMA SumSame ==
  ASSUME NEW f, NEW g, NEW S, IsFiniteSet(S), \A x \in S : f[x] = g[x]
  PROVE  SumFunctionOnSet(f, S) = SumFunctionOnSet(g, S)
<1> DEFINE Good == {T \in SUBSET S : SumFunctionOnSet(f, T) = SumFunctionOnSet(g, T)}
<1>1. ASSUME NEW T \in SUBSET S, \A U \in SUBSET T : U # T => U \in Good
      PROVE  T \in Good
  <2>1. IsFiniteSet(T) BY FS_Subset
  <2>2. T # {} => First(T) \in T BY DEF First
  <2>3. T # {} => SumFunctionOnSet(f, T \ {First(T)}) = SumFunctionOnSet(g, T \ {First(T)})
    BY <1>1, <2>2
  <2> QED BY <2>1, <2>2, <2>3, SumFirst
<1> HIDE DEF Good
<1>2. S \in Good BY <1>1, SubsetInduction
<1> QED BY <1>2 DEF Good

(* One value changes. *)
LEMMA SumChange ==
  ASSUME NEW f, NEW g, NEW S, IsFiniteSet(S), NEW y \in S,
         \A x \in S : f[x] \in Int /\ g[x] \in Int,
         \A x \in S \ {y} : f[x] = g[x]
  PROVE  SumFunctionOnSet(g, S) = SumFunctionOnSet(f, S) + g[y] - f[y]
<1> DEFINE R == S \ {y}
<1>1. IsFiniteSet(R) BY FS_Subset
<1>2. SumFunctionOnSet(f, R) = SumFunctionOnSet(g, R) BY <1>1, SumSame
<1>3. SumFunctionOnSet(f, R) \in Int BY <1>1, SumInt
<1>4. SumFunctionOnSet(f, S) = f[y] + SumFunctionOnSet(f, R) BY SumRemove
<1>5. SumFunctionOnSet(g, S) = g[y] + SumFunctionOnSet(g, R) BY SumRemove
<1>6. f[y] \in Int /\ g[y] \in Int OBVIOUS
<1> HIDE DEF R
<1> QED BY <1>2, <1>3, <1>4, <1>5, <1>6

-----------------------------------------------------------------------------
(* Sums are linear. *)
LEMMA SumPlus ==
  ASSUME NEW f, NEW g, NEW h, NEW S, IsFiniteSet(S),
         \A x \in S : f[x] \in Int /\ g[x] \in Int /\ h[x] = f[x] + g[x]
  PROVE  SumFunctionOnSet(h, S) = SumFunctionOnSet(f, S) + SumFunctionOnSet(g, S)
<1> DEFINE Good == {T \in SUBSET S :
             SumFunctionOnSet(h, T) = SumFunctionOnSet(f, T) + SumFunctionOnSet(g, T)}
<1>1. {} \in Good BY SumEmpty
<1>2. ASSUME NEW T \in SUBSET S, NEW x \in S \ T, T \in Good PROVE T \cup {x} \in Good
  <2>1. IsFiniteSet(T) BY FS_Subset
  <2>2. f[x] \in Int /\ g[x] \in Int /\ h[x] = f[x] + g[x] OBVIOUS
  <2>3. \A y \in T : f[y] \in Int /\ g[y] \in Int /\ h[y] \in Int OBVIOUS
  <2>4. /\ SumFunctionOnSet(f, T \cup {x}) = f[x] + SumFunctionOnSet(f, T)
        /\ SumFunctionOnSet(g, T \cup {x}) = g[x] + SumFunctionOnSet(g, T)
        /\ SumFunctionOnSet(h, T \cup {x}) = h[x] + SumFunctionOnSet(h, T)
    BY <2>1, <2>2, <2>3, SumAdd
  <2>5. SumFunctionOnSet(f, T) \in Int /\ SumFunctionOnSet(g, T) \in Int
    BY <2>1, <2>3, SumInt
  <2> QED BY <1>2, <2>2, <2>4, <2>5
<1> HIDE DEF Good
<1>3. S \in Good BY <1>1, <1>2, ElementInduction
<1> QED BY <1>3 DEF Good

(* A factor can be taken out. *)
LEMMA SumTimes ==
  ASSUME NEW f, NEW g, NEW c \in Int, NEW S, IsFiniteSet(S),
         \A x \in S : f[x] \in Int /\ g[x] = c * f[x]
  PROVE  SumFunctionOnSet(g, S) = c * SumFunctionOnSet(f, S)
<1> DEFINE Good == {T \in SUBSET S : SumFunctionOnSet(g, T) = c * SumFunctionOnSet(f, T)}
<1>0. \A a, b \in Int : c * (a + b) = c * a + c * b /\ c * a \in Int OBVIOUS
<1>1. {} \in Good BY SumEmpty
<1>2. ASSUME NEW T \in SUBSET S, NEW x \in S \ T, T \in Good PROVE T \cup {x} \in Good
  <2>1. IsFiniteSet(T) BY FS_Subset
  <2>2. f[x] \in Int /\ g[x] = c * f[x] /\ g[x] \in Int OBVIOUS
  <2>3. \A y \in T : f[y] \in Int /\ g[y] \in Int OBVIOUS
  <2>4. /\ SumFunctionOnSet(f, T \cup {x}) = f[x] + SumFunctionOnSet(f, T)
        /\ SumFunctionOnSet(g, T \cup {x}) = g[x] + SumFunctionOnSet(g, T)
    BY <2>1, <2>2, <2>3, SumAdd
  <2>5. SumFunctionOnSet(f, T) \in Int BY <2>1, <2>3, SumInt
  <2>6. SumFunctionOnSet(g, T) = c * SumFunctionOnSet(f, T) BY <1>2
  <2> QED BY <1>0, <2>2, <2>4, <2>5, <2>6
<1> HIDE DEF Good
<1>3. S \in Good BY <1>1, <1>2, ElementInduction
<1> QED BY <1>3 DEF Good

(* Sums are monotonic, and strictly so where one term is. *)
LEMMA SumMonotonic ==
  ASSUME NEW f, NEW g, NEW S, IsFiniteSet(S),
         \A x \in S : f[x] \in Int /\ g[x] \in Int /\ f[x] <= g[x]
  PROVE  SumFunctionOnSet(f, S) <= SumFunctionOnSet(g, S)
<1> DEFINE Good == {T \in SUBSET S : SumFunctionOnSet(f, T) <= SumFunctionOnSet(g, T)}
<1>1. {} \in Good BY SumEmpty
<1>2. ASSUME NEW T \in SUBSET S, NEW x \in S \ T, T \in Good PROVE T \cup {x} \in Good
  <2>1. IsFiniteSet(T) BY FS_Subset
  <2>2. f[x] \in Int /\ g[x] \in Int /\ f[x] <= g[x] OBVIOUS
  <2>3. \A y \in T : f[y] \in Int /\ g[y] \in Int OBVIOUS
  <2>4. /\ SumFunctionOnSet(f, T \cup {x}) = f[x] + SumFunctionOnSet(f, T)
        /\ SumFunctionOnSet(g, T \cup {x}) = g[x] + SumFunctionOnSet(g, T)
    BY <2>1, <2>2, <2>3, SumAdd
  <2>5. SumFunctionOnSet(f, T) \in Int /\ SumFunctionOnSet(g, T) \in Int
    BY <2>1, <2>3, SumInt
  <2> QED BY <1>2, <2>2, <2>4, <2>5
<1> HIDE DEF Good
<1>3. S \in Good BY <1>1, <1>2, ElementInduction
<1> QED BY <1>3 DEF Good

(* A sum of zeros is zero. *)
LEMMA SumZero ==
  ASSUME NEW f, NEW S, IsFiniteSet(S), \A x \in S : f[x] = 0
  PROVE  SumFunctionOnSet(f, S) = 0
<1> DEFINE Good == {T \in SUBSET S : SumFunctionOnSet(f, T) = 0}
<1>1. {} \in Good BY SumEmpty
<1>2. ASSUME NEW T \in SUBSET S, NEW x \in S \ T, T \in Good PROVE T \cup {x} \in Good
  <2>1. IsFiniteSet(T) BY FS_Subset
  <2>2. SumFunctionOnSet(f, T \cup {x}) = f[x] + SumFunctionOnSet(f, T)
    BY <2>1, SumAdd
  <2> QED BY <1>2, <2>2
<1> HIDE DEF Good
<1>3. S \in Good BY <1>1, <1>2, ElementInduction
<1> QED BY <1>3 DEF Good

(* No term of a sum of naturals exceeds it. *)
LEMMA SumNat ==
  ASSUME NEW f, NEW S, IsFiniteSet(S), \A x \in S : f[x] \in Nat
  PROVE  /\ SumFunctionOnSet(f, S) \in Nat
         /\ \A x \in S : f[x] <= SumFunctionOnSet(f, S)
<1>1. ASSUME NEW T \in SUBSET S PROVE SumFunctionOnSet(f, T) \in Nat
  <2> DEFINE z == [x \in T |-> 0]
  <2>1. IsFiniteSet(T) BY FS_Subset
  <2>2. SumFunctionOnSet(z, T) = 0 BY <2>1, SumZero
  <2>3. SumFunctionOnSet(f, T) \in Int BY <2>1, SumInt
  <2>4. \A x \in T : z[x] \in Int /\ f[x] \in Int /\ z[x] <= f[x] OBVIOUS
  <2> HIDE DEF z
  <2>5. SumFunctionOnSet(z, T) <= SumFunctionOnSet(f, T) BY <2>1, <2>4, SumMonotonic
  <2> QED BY <2>2, <2>3, <2>5
<1>2. ASSUME NEW x \in S PROVE f[x] <= SumFunctionOnSet(f, S)
  <2>1. SumFunctionOnSet(f, S) = f[x] + SumFunctionOnSet(f, S \ {x}) BY SumRemove
  <2>2. SumFunctionOnSet(f, S \ {x}) \in Nat BY <1>1
  <2> QED BY <2>1, <2>2
<1> QED BY <1>1, <1>2

(* The sum of a membership test counts the members. *)
LEMMA SumCounts ==
  ASSUME NEW S, IsFiniteSet(S), NEW f, NEW A \in SUBSET S,
         \A x \in S : f[x] = IF x \in A THEN 1 ELSE 0
  PROVE  SumFunctionOnSet(f, S) = Cardinality(A)
<1> DEFINE Good == {T \in SUBSET S : SumFunctionOnSet(f, T) = Cardinality(A \cap T)}
<1>1. {} \in Good
  <2>1. A \cap {} = {} OBVIOUS
  <2> QED BY <2>1, SumEmpty, FS_EmptySet
<1>2. ASSUME NEW T \in SUBSET S, NEW x \in S \ T, T \in Good PROVE T \cup {x} \in Good
  <2>1. IsFiniteSet(T) /\ IsFiniteSet(A \cap T) BY FS_Subset
  <2>2. SumFunctionOnSet(f, T \cup {x}) = f[x] + SumFunctionOnSet(f, T)
    BY <2>1, SumAdd
  <2>3. Cardinality(A \cap T) \in Nat BY <2>1, FS_CardinalityType
  <2>4. SumFunctionOnSet(f, T) = Cardinality(A \cap T) BY <1>2
  <2>5. CASE x \in A
    <3>1. A \cap (T \cup {x}) = (A \cap T) \cup {x} BY <2>5
    <3>2. Cardinality(A \cap (T \cup {x})) = Cardinality(A \cap T) + 1
      BY <2>1, <3>1, FS_AddElement
    <3> QED BY <2>2, <2>3, <2>4, <2>5, <3>2
  <2>6. CASE x \notin A
    <3>1. A \cap (T \cup {x}) = A \cap T BY <2>6
    <3> QED BY <2>2, <2>3, <2>4, <2>6, <3>1
  <2> QED BY <2>5, <2>6
<1> HIDE DEF Good
<1>3. S \in Good BY <1>1, <1>2, ElementInduction
<1>4. A \cap S = A OBVIOUS
<1> QED BY <1>3, <1>4 DEF Good

(* Elements on which the function is zero do not count. *)
LEMMA SumExtend ==
  ASSUME NEW S, IsFiniteSet(S), NEW R \in SUBSET S, NEW f, NEW g,
         \A x \in R : f[x] \in Int,
         \A x \in S : g[x] = IF x \in R THEN f[x] ELSE 0
  PROVE  SumFunctionOnSet(g, S) = SumFunctionOnSet(f, R)
<1> DEFINE Good == {T \in SUBSET S : SumFunctionOnSet(g, T) = SumFunctionOnSet(f, R \cap T)}
<1>1. {} \in Good
  <2>1. R \cap {} = {} OBVIOUS
  <2> QED BY <2>1, SumEmpty
<1>2. ASSUME NEW T \in SUBSET S, NEW x \in S \ T, T \in Good PROVE T \cup {x} \in Good
  <2>1. IsFiniteSet(T) /\ IsFiniteSet(R \cap T) BY FS_Subset
  <2>2. \A y \in S : g[y] \in Int OBVIOUS
  <2>3. SumFunctionOnSet(g, T \cup {x}) = g[x] + SumFunctionOnSet(g, T)
    BY <2>1, <2>2, SumAdd
  <2>4. SumFunctionOnSet(g, T) = SumFunctionOnSet(f, R \cap T) BY <1>2
  <2>5. SumFunctionOnSet(f, R \cap T) \in Int BY <2>1, SumInt
  <2>6. ASSUME x \in R
        PROVE  SumFunctionOnSet(g, T \cup {x}) = SumFunctionOnSet(f, R \cap (T \cup {x}))
    <3>1. R \cap (T \cup {x}) = (R \cap T) \cup {x} /\ x \notin R \cap T BY <2>6
    <3>2. SumFunctionOnSet(f, (R \cap T) \cup {x}) = f[x] + SumFunctionOnSet(f, R \cap T)
      BY <2>1, <2>6, <3>1, SumAdd
    <3> QED BY <2>3, <2>4, <2>6, <3>1, <3>2
  <2>7. ASSUME x \notin R
        PROVE  SumFunctionOnSet(g, T \cup {x}) = SumFunctionOnSet(f, R \cap (T \cup {x}))
    <3>1. R \cap (T \cup {x}) = R \cap T BY <2>7
    <3>2. SumFunctionOnSet(f, R \cap (T \cup {x})) = SumFunctionOnSet(f, R \cap T)
      BY <3>1
    <3>3. g[x] = 0 BY <2>7
    <3> QED BY <2>3, <2>4, <2>5, <3>2, <3>3
  <2>8. SumFunctionOnSet(g, T \cup {x}) = SumFunctionOnSet(f, R \cap (T \cup {x}))
    BY <2>6, <2>7
  <2> QED BY <2>8
<1> HIDE DEF Good
<1>3. S \in Good BY <1>1, <1>2, ElementInduction
<1>4. R \cap S = R OBVIOUS
<1> QED BY <1>3, <1>4 DEF Good

-----------------------------------------------------------------------------
(* The smaller of two numbers. *)
LEMMA MinOfTwo ==
  ASSUME NEW m \in Int, NEW n \in Int
  PROVE  Min({m, n}) \in {m, n} /\ Min({m, n}) <= m /\ Min({m, n}) <= n
<1>1. CASE m <= n
  <2>1. m \in {m, n} /\ \A y \in {m, n} : m <= y BY <1>1
  <2>2. Min({m, n}) \in {m, n} /\ \A y \in {m, n} : Min({m, n}) <= y BY <2>1 DEF Min
  <2> QED BY <2>2
<1>2. CASE n <= m
  <2>1. n \in {m, n} /\ \A y \in {m, n} : n <= y BY <1>2
  <2>2. Min({m, n}) \in {m, n} /\ \A y \in {m, n} : Min({m, n}) <= y BY <2>1 DEF Min
  <2> QED BY <2>2
<1> QED BY <1>1, <1>2

(* The larger of two numbers. *)
LEMMA MaxOfTwo ==
  ASSUME NEW m \in Int, NEW n \in Int
  PROVE  Max({m, n}) \in Int /\ Max({m, n}) >= m /\ Max({m, n}) >= n
<1>1. CASE m >= n
  <2>1. m \in {m, n} /\ \A y \in {m, n} : m >= y BY <1>1
  <2>2. Max({m, n}) \in {m, n} /\ \A y \in {m, n} : Max({m, n}) >= y BY <2>1 DEF Max
  <2> QED BY <2>2
<1>2. CASE n >= m
  <2>1. n \in {m, n} /\ \A y \in {m, n} : n >= y BY <1>2
  <2>2. Max({m, n}) \in {m, n} /\ \A y \in {m, n} : Max({m, n}) >= y BY <2>1 DEF Max
  <2> QED BY <2>2
<1> QED BY <1>1, <1>2
=============================================================================
