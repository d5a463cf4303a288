---------------------------- MODULE NettingProofs ----------------------------
(****************************************************************************)
(* The netting engine for any finite set of strategies and any targets:     *)
(* the shares of a fill add up to it although each is rounded, and the      *)
(* global position stays the sum of the attributed ones, but for fills      *)
(* that no net order stands behind.                                         *)
(****************************************************************************)
EXTENDS Netting, SumTheorems

-----------------------------------------------------------------------------
(* Ranking a finite set by a strict total order, given as a set of pairs.   *)

StrictOrder(P, S) ==
  /\ \A x \in S : <<x, x>> \notin P
  /\ \A x, y \in S : x # y => <<x, y>> \in P \/ <<y, x>> \in P
  /\ \A x, y, z \in S : <<x, y>> \in P /\ <<y, z>> \in P => <<x, z>> \in P

Below(P, S, x) == {y \in S : <<y, x>> \in P}
Leading(P, S, m) == {x \in S : Cardinality(Below(P, S, x)) < m}

(* A non-empty finite set has a last element. *)
LEMMA LastExists ==
  ASSUME NEW S, IsFiniteSet(S), NEW P, StrictOrder(P, S)
  PROVE  S = {} \/ \E z \in S : \A x \in S \ {z} : <<x, z>> \in P
<1> DEFINE Good == {T \in SUBSET S : T = {} \/ \E z \in T : \A x \in T \ {z} : <<x, z>> \in P}
<1>1. {} \in Good OBVIOUS
<1>2. ASSUME NEW T \in SUBSET S, NEW y \in S \ T, T \in Good PROVE T \cup {y} \in Good
  <2>1. CASE T = {} BY <2>1
  <2>2. CASE T # {}
    <3>1. PICK z \in T : \A x \in T \ {z} : <<x, z>> \in P BY <1>2, <2>2
    <3>2. CASE <<z, y>> \in P
      <4>1. \A x \in (T \cup {y}) \ {y} : <<x, y>> \in P BY <3>1, <3>2 DEF StrictOrder
      <4> QED BY <4>1
    <3>3. CASE <<y, z>> \in P
      <4>1. \A x \in (T \cup {y}) \ {z} : <<x, z>> \in P BY <3>1, <3>3
      <4> QED BY <3>1, <4>1
    <3> QED BY <3>2, <3>3 DEF StrictOrder
  <2> QED BY <2>1, <2>2
<1> HIDE DEF Good
<1>3. S \in Good BY <1>1, <1>2, ElementInduction
<1> QED BY <1>3 DEF Good

(* Exactly m elements have fewer than m elements before them. *)
LEMMA LeadingCount ==
  ASSUME NEW S, IsFiniteSet(S), NEW P, StrictOrder(P, S),
         NEW m \in Nat, m <= Cardinality(S)
  PROVE  Cardinality(Leading(P, S, m)) = m
<1> DEFINE Good == {T \in SUBSET S : m <= Cardinality(T) => Cardinality(Leading(P, T, m)) = m}
<1>1. ASSUME NEW T \in SUBSET S, \A U \in SUBSET T : U # T => U \in Good
      PROVE  T \in Good
  <2> SUFFICES ASSUME m <= Cardinality(T) PROVE Cardinality(Leading(P, T, m)) = m
    OBVIOUS
  <2>1. /\ IsFiniteSet(T) /\ Cardinality(T) \in Nat /\ StrictOrder(P, T)
        /\ \A U \in SUBSET T : IsFiniteSet(U) /\ Cardinality(U) \in Nat /\ Cardinality(U) <= Cardinality(T)
    BY FS_Subset, FS_CardinalityType DEF StrictOrder
  <2>2. CASE m = Cardinality(T)
    <3>1. ASSUME NEW x \in T PROVE Cardinality(Below(P, T, x)) < m
      <4>1. Below(P, T, x) \in SUBSET (T \ {x}) BY <2>1 DEF Below, StrictOrder
      <4>2. IsFiniteSet(T \ {x}) /\ Cardinality(T \ {x}) = Cardinality(T) - 1
        BY <2>1, FS_RemoveElement
      <4>3. Cardinality(Below(P, T, x)) <= Cardinality(T) - 1
        BY <4>1, <4>2, FS_Subset
      <4>4. Cardinality(Below(P, T, x)) \in Nat BY <2>1 DEF Below
      <4> QED BY <2>1, <2>2, <4>3, <4>4
    <3>2. Leading(P, T, m) = T BY <3>1 DEF Leading
    <3> QED BY <2>2, <3>2
  <2>3. CASE m < Cardinality(T)
    <3>1. T # {} BY <2>3, FS_EmptySet
    <3>2. PICK z \in T : \A x \in T \ {z} : <<x, z>> \in P BY <2>1, <3>1, LastExists
    <3> DEFINE R == T \ {z}
    <3>3. Cardinality(R) = Cardinality(T) - 1 BY <2>1, FS_RemoveElement
    <3>4. \A x \in R : Below(P, R, x) = Below(P, T, x)
      <4>1. \A x \in R : <<z, x>> \notin P BY <2>1, <3>2 DEF StrictOrder
      <4> QED BY <4>1 DEF Below
    <3>5. Below(P, T, z) = R BY <2>1, <3>2 DEF Below, StrictOrder
    <3>6. Leading(P, T, m) = Leading(P, R, m)
      <4>1. ~ (Cardinality(Below(P, T, z)) < m) BY <2>1, <2>3, <3>3, <3>5
      <4>2. T = R \cup {z} /\ z \notin R OBVIOUS
      <4> HIDE DEF R
      <4> QED BY <3>4, <4>1, <4>2 DEF Leading
    <3>7. R \in Good /\ m <= Cardinality(R) BY <1>1, <2>1, <2>3, <3>3
    <3> QED BY <3>6, <3>7
  <2> QED BY <2>1, <2>2, <2>3
<1> HIDE DEF Good
<1>2. S \in Good BY <1>1, SubsetInduction
<1> QED BY <1>2 DEF Good

-----------------------------------------------------------------------------
(* The shares of one fill: quantity "qty", split by the deltas "w".         *)

Weights == {w \in UNION {[D -> Int \ {0}] : D \in SUBSET Strategies} : DOMAIN w # {}}

(* Division with remainder, of a product by a positive number. *)
LEMMA Division ==
  ASSUME NEW a \in Nat, NEW g \in Nat \ {0}
  PROVE  /\ a \div g \in Nat /\ a % g \in Nat /\ a % g < g
         /\ a = g * (a \div g) + (a % g)
OBVIOUS

(* Products of naturals keep order; a multiple below a multiple.            *)
LEMMA Products ==
  /\ \A a, b \in Nat : a * b \in Nat
  /\ \A a, b, c \in Nat : a <= b => a * c <= b * c
  /\ \A a, b \in Int, g \in Nat \ {0} : g * a <= g * b => a <= b
  /\ \A a, b \in Int, g \in Nat \ {0} : g * a < g * b => a < b
OBVIOUS

(* Quota and remainder of a strategy, whatever the sign of the fill. *)
LEMMA QuotaAndRest ==
  ASSUME NEW w \in Weights, NEW qty \in Int
  PROVE  /\ IsFiniteSet(DOMAIN w) /\ DOMAIN w \subseteq Strategies
         /\ Abs(qty) \in Nat /\ Gross(w) \in Nat \ {0}
         /\ \A s \in DOMAIN w :
              /\ w[s] \in Int /\ Abs(w[s]) \in Nat \ {0} /\ Abs(w[s]) <= Gross(w)
              /\ Quota(qty, w, s) \in Nat /\ Rest(qty, w, s) \in 0 .. Gross(w) - 1
              /\ Abs(qty) * Abs(w[s]) = Gross(w) * Quota(qty, w, s) + Rest(qty, w, s)
<1> DEFINE D == DOMAIN w
           a == [s \in D |-> Abs(w[s])]
<1>1. IsFiniteSet(D) /\ D \subseteq Strategies /\ D # {} /\ \A s \in D : w[s] \in Int \ {0}
  <2>1. PICK E \in SUBSET Strategies : w \in [E -> Int \ {0}] BY DEF Weights
  <2> QED BY <2>1, NettingAssumption, FS_Subset DEF Weights
<1>2. \A s \in D : a[s] = Abs(w[s]) /\ a[s] \in Nat \ {0} BY <1>1 DEF Abs
<1>3. Gross(w) = SumFunctionOnSet(a, D) BY DEF Gross, SumFunction
<1> HIDE DEF a
<1>4. Gross(w) \in Nat /\ \A s \in D : a[s] <= Gross(w) BY <1>1, <1>2, <1>3, SumNat
<1>5. Gross(w) \in Nat \ {0}
  <2>1. PICK s \in D : TRUE BY <1>1
  <2> QED BY <1>2, <1>4, <2>1
<1>6. Abs(qty) \in Nat BY DEF Abs
<1>7. ASSUME NEW s \in D
      PROVE  /\ Quota(qty, w, s) \in Nat /\ Rest(qty, w, s) \in 0 .. Gross(w) - 1
             /\ Abs(qty) * Abs(w[s]) = Gross(w) * Quota(qty, w, s) + Rest(qty, w, s)
  <2>1. Abs(qty) * Abs(w[s]) \in Nat BY <1>2, <1>6, Products
  <2>2. /\ Quota(qty, w, s) \in Nat /\ Rest(qty, w, s) \in Nat /\ Rest(qty, w, s) < Gross(w)
        /\ Abs(qty) * Abs(w[s]) = Gross(w) * Quota(qty, w, s) + Rest(qty, w, s)
    BY <1>5, <2>1, Division DEF Quota, Rest
  <2> QED BY <1>5, <2>2
<1> QED BY <1>1, <1>2, <1>4, <1>5, <1>6, <1>7

(* The order in which left-over units are handed out, as a set of pairs. *)
Turn(qty, w) ==
  {p \in (DOMAIN w) \X (DOMAIN w) : p[1] # p[2] /\ Precedes(qty, w, p[1], p[2])}

(* It never leaves two strategies tied: ids break the last tie.             *)
LEMMA TurnIsStrict ==
  ASSUME NEW w \in Weights, NEW qty \in Int
  PROVE  /\ StrictOrder(Turn(qty, w), DOMAIN w)
         /\ \A s \in DOMAIN w : Below(Turn(qty, w), DOMAIN w, s) =
              {r \in DOMAIN w : r # s /\ Precedes(qty, w, r, s)}
<1> DEFINE D == DOMAIN w
           T == Turn(qty, w)
<1>1. \A s \in D : Rest(qty, w, s) \in Int /\ Abs(w[s]) \in Int /\ s \in Int
  <2>1. D \subseteq Nat BY QuotaAndRest, NettingAssumption
  <2>2. \A s \in D : Rest(qty, w, s) \in 0 .. Gross(w) - 1 /\ Abs(w[s]) \in Nat \ {0}
    BY QuotaAndRest
  <2>3. Gross(w) \in Nat BY QuotaAndRest
  <2> QED BY <2>1, <2>2, <2>3
<1>2. ASSUME NEW r \in D, NEW s \in D
      PROVE  <<r, s>> \in T <=> r # s /\ Precedes(qty, w, r, s)
  BY DEF Turn
<1>3. \A s \in D : <<s, s>> \notin T BY <1>2
<1>4. \A r, s \in D : r # s => <<r, s>> \in T \/ <<s, r>> \in T
  BY <1>1, <1>2 DEF Precedes
<1>5. ASSUME NEW r \in D, NEW s \in D, NEW u \in D, <<r, s>> \in T, <<s, u>> \in T
      PROVE  <<r, u>> \in T
  <2>1. Precedes(qty, w, r, s) /\ Precedes(qty, w, s, u) BY <1>2, <1>5
  <2>2. Precedes(qty, w, r, u) /\ r # u BY <1>1, <2>1 DEF Precedes
  <2> QED BY <1>2, <2>2
<1> QED BY <1>2, <1>3, <1>4, <1>5 DEF StrictOrder, Below

(* What the quotas leave over is not negative, and no more units than       *)
(* strategies whose exact share is not whole.                               *)
Uneven(qty, w) == {s \in DOMAIN w : Rest(qty, w, s) > 0}

LEMMA LeftoverBounds ==
  ASSUME NEW w \in Weights, NEW qty \in Int
  PROVE  /\ SumFunctionOnSet([s \in DOMAIN w |-> Quota(qty, w, s)], DOMAIN w) \in Int
         /\ Leftover(qty, w) \in Nat /\ Leftover(qty, w) <= Cardinality(Uneven(qty, w))
<1> DEFINE D == DOMAIN w
           n == Abs(qty)
           G == Gross(w)
           a == [s \in D |-> Abs(w[s])]
           p == [s \in D |-> n * Abs(w[s])]
           q == [s \in D |-> Quota(qty, w, s)]
           k == [s \in D |-> G * Quota(qty, w, s)]
           r == [s \in D |-> Rest(qty, w, s)]
           U == Uneven(qty, w)
           i == [s \in D |-> IF s \in U THEN 1 ELSE 0]
           g == [s \in D |-> IF s \in U THEN G ELSE 0]
           L == Leftover(qty, w)
           Sum(f) == SumFunctionOnSet(f, D)
<1>1. /\ IsFiniteSet(D) /\ n \in Nat /\ G \in Nat \ {0} /\ U \in SUBSET D
      /\ \A s \in D : /\ a[s] \in Int /\ q[s] \in Int /\ r[s] \in Nat /\ r[s] < G
                      /\ n * a[s] = G * q[s] + r[s]
  BY QuotaAndRest DEF Uneven
<1>2. G = Sum(a) /\ L = n - Sum(q) BY DEF Gross, Leftover, SumFunction
<1>3. /\ \A s \in D : p[s] = n * a[s] /\ k[s] = G * q[s]
      /\ \A s \in D : i[s] = (IF s \in U THEN 1 ELSE 0) /\ g[s] = G * i[s]
      /\ \A s \in D : r[s] > 0 <=> s \in U
  BY <1>1 DEF Uneven
<1> HIDE DEF n, G, a, p, q, k, r, U, i, g, L
<1>4. \A x, y \in Int : x * y \in Int OBVIOUS
<1>5. Sum(q) \in Int /\ Sum(r) \in Nat /\ Sum(k) \in Int
  BY <1>1, <1>3, <1>4, SumInt, SumNat
<1>6. Sum(p) = n * G
  <2>1. Sum(p) = n * Sum(a) BY <1>1, <1>3, SumTimes
  <2> QED BY <1>2, <2>1
<1>7. Sum(k) = G * Sum(q) BY <1>1, <1>3, SumTimes
<1>8. Sum(p) = Sum(k) + Sum(r)
  <2>1. \A s \in D : k[s] \in Int /\ r[s] \in Int /\ p[s] = k[s] + r[s]
    BY <1>1, <1>3, <1>4
  <2> HIDE DEF D
  <2> QED BY <1>1, <2>1, SumPlus
<1>9. Sum(r) = G * L
  <2>1. G * (n - Sum(q)) = n * G - G * Sum(q) BY <1>1, <1>5
  <2>2. G * Sum(q) \in Int /\ n * G \in Int BY <1>1, <1>4, <1>5
  <2> QED BY <1>2, <1>5, <1>6, <1>7, <1>8, <2>1, <2>2
<1>10. Sum(r) <= G * Cardinality(U)
  <2>1. Sum(i) = Cardinality(U) BY <1>1, <1>3, SumCounts
  <2>2. Sum(g) = G * Sum(i) BY <1>1, <1>3, SumTimes
  <2>3. \A s \in D : r[s] \in Int /\ g[s] \in Int /\ r[s] <= g[s]
    <3>1. \A s \in D : g[s] = IF s \in U THEN G ELSE 0 BY <1>1, <1>3
    <3> QED BY <1>1, <1>3, <3>1
  <2>4. Sum(r) <= Sum(g) BY <1>1, <2>3, SumMonotonic
  <2> QED BY <2>1, <2>2, <2>4
<1>11. L \in Int /\ Cardinality(U) \in Nat
  BY <1>1, <1>2, <1>5, FS_Subset, FS_CardinalityType
<1>12. L <= Cardinality(U) BY <1>1, <1>9, <1>10, <1>11, Products
<1>13. 0 <= L
  <2>1. G * 0 <= G * L BY <1>1, <1>5, <1>9
  <2> QED BY <1>1, <1>11, <2>1, Products
<1> QED BY <1>5, <1>11, <1>12, <1>13 DEF L, U, q

(* The strategies that get a unit on top of their quota: as many as there   *)
(* are units left over, none of them with a whole exact share.              *)
Extra(qty, w) == Leading(Turn(qty, w), DOMAIN w, Leftover(qty, w))

LEMMA ExtraUnits ==
  ASSUME NEW w \in Weights, NEW qty \in Int
  PROVE  /\ Extra(qty, w) \subseteq Uneven(qty, w)
         /\ Cardinality(Extra(qty, w)) = Leftover(qty, w)
         /\ \A s \in DOMAIN w :
              Share(qty, w, s) = Quota(qty, w, s) + IF s \in Extra(qty, w) THEN 1 ELSE 0
<1> DEFINE D == DOMAIN w
           P == Turn(qty, w)
           L == Leftover(qty, w)
           U == Uneven(qty, w)
<1>1. IsFiniteSet(D) /\ StrictOrder(P, D) BY QuotaAndRest, TurnIsStrict
<1>2. L \in Nat /\ L <= Cardinality(U) BY LeftoverBounds
<1>3. /\ U \subseteq D /\ IsFiniteSet(U) /\ Cardinality(U) \in Nat
      /\ Cardinality(D) \in Nat /\ Cardinality(U) <= Cardinality(D)
  BY <1>1, FS_Subset, FS_CardinalityType DEF Uneven
<1>4. Cardinality(Extra(qty, w)) = L
  <2>1. L <= Cardinality(D) BY <1>2, <1>3
  <2> HIDE DEF D, P, L
  <2>2. Cardinality(Leading(P, D, L)) = L BY <1>1, <1>2, <2>1, LeadingCount
  <2> QED BY <2>2 DEF Extra, D, P, L
<1>5. ASSUME NEW s \in D, s \notin U PROVE s \notin Extra(qty, w)
  <2>1. \A r \in D : Rest(qty, w, r) \in 0 .. Gross(w) - 1 BY QuotaAndRest
  <2>2. Gross(w) \in Nat BY QuotaAndRest
  <2>3. Rest(qty, w, s) = 0 BY <1>5, <2>1, <2>2 DEF Uneven
  <2>4. \A r \in U : r # s /\ Precedes(qty, w, r, s)
    BY <1>3, <1>5, <2>1, <2>2, <2>3 DEF Uneven, Precedes
  <2>5. U \in SUBSET Below(P, D, s) /\ Below(P, D, s) \in SUBSET D
    BY <1>3, <2>4, TurnIsStrict
  <2>6. IsFiniteSet(Below(P, D, s)) BY <1>1, <2>5, FS_Subset
  <2>7. Cardinality(U) <= Cardinality(Below(P, D, s)) /\ Cardinality(Below(P, D, s)) \in Nat
    BY <2>5, <2>6, FS_Subset, FS_CardinalityType
  <2>8. ~ (Cardinality(Below(P, D, s)) < L) BY <1>2, <1>3, <2>7
  <2> QED BY <2>8 DEF Extra, Leading
<1>6. Extra(qty, w) \subseteq D BY DEF Extra, Leading
<1>7. ASSUME NEW s \in D
      PROVE  Share(qty, w, s) = Quota(qty, w, s) + IF s \in Extra(qty, w) THEN 1 ELSE 0
  <2>1. {r \in D : r # s /\ Precedes(qty, w, r, s)} = Below(P, D, s) BY TurnIsStrict
  <2>2. s \in Extra(qty, w) <=> Cardinality(Below(P, D, s)) < L BY DEF Extra, Leading
  <2> QED BY <2>1, <2>2 DEF Share
<1> QED BY <1>4, <1>5, <1>6, <1>7

(* The shares of a fill are whole, not negative, and add up to it. *)
LEMMA SharesAddUp ==
  ASSUME NEW w \in Weights, NEW qty \in Int
  PROVE  /\ \A s \in DOMAIN w : Share(qty, w, s) \in Nat
         /\ SumFunctionOnSet([s \in DOMAIN w |-> Share(qty, w, s)], DOMAIN w) = Abs(qty)
<1> DEFINE D == DOMAIN w
           E == Extra(qty, w)
           q == [s \in D |-> Quota(qty, w, s)]
           i == [s \in D |-> IF s \in E THEN 1 ELSE 0]
           h == [s \in D |-> Share(qty, w, s)]
           Sum(f) == SumFunctionOnSet(f, D)
<1>1. /\ IsFiniteSet(D) /\ Abs(qty) \in Int
      /\ \A s \in D : Quota(qty, w, s) \in Nat
  BY QuotaAndRest
<1>2. /\ E \in SUBSET D /\ Cardinality(E) = Leftover(qty, w)
      /\ \A s \in D : Share(qty, w, s) = Quota(qty, w, s) + IF s \in E THEN 1 ELSE 0
  BY ExtraUnits DEF Uneven
<1>3. \A s \in D : /\ q[s] \in Int /\ i[s] \in Int /\ h[s] = q[s] + i[s]
                   /\ i[s] = IF s \in E THEN 1 ELSE 0
  BY <1>1, <1>2
<1>4. Leftover(qty, w) = Abs(qty) - Sum(q) BY DEF Leftover, SumFunction
<1>5. Sum(q) \in Int BY LeftoverBounds
<1>6. \A s \in D : Share(qty, w, s) \in Nat BY <1>1, <1>2
<1> HIDE DEF q, i, h, D, E
<1>7. Sum(h) = Sum(q) + Sum(i) BY <1>1, <1>3, SumPlus
<1>8. Sum(i) = Cardinality(E) BY <1>1, <1>2, <1>3, SumCounts
<1>9. Sum(h) = Abs(qty) BY <1>1, <1>2, <1>4, <1>5, <1>7, <1>8
<1> QED BY <1>6, <1>9 DEF D, h

(* Each share is a whole number next to the exact one, and a fill of at     *)
(* most the gross quantity gives no strategy more than its own delta.       *)
LEMMA SharesAreClose ==
  ASSUME NEW w \in Weights, NEW n \in Nat, NEW s \in DOMAIN w
  PROVE  /\ Abs(Share(n, w, s) * Gross(w) - n * Abs(w[s])) < Gross(w)
         /\ n <= Gross(w) => Share(n, w, s) <= Abs(w[s])
<1> DEFINE G == Gross(w)
           a == Abs(w[s])
           q == Quota(n, w, s)
           r == Rest(n, w, s)
           x == Share(n, w, s)
<1>1. Abs(n) = n BY DEF Abs
<1>2. /\ G \in Nat \ {0} /\ a \in Nat \ {0} /\ q \in Nat /\ r \in 0 .. G - 1
      /\ n * a = G * q + r
  BY <1>1, QuotaAndRest
<1>3. \/ x = q
      \/ x = q + 1 /\ r > 0
  BY <1>2, ExtraUnits DEF Uneven
<1> HIDE DEF G, a, q, r, x
<1>4. G * q \in Nat /\ n * a \in Nat BY <1>2, Products
<1>5. x * G - n * a = IF x = q THEN -r ELSE G - r
  <2>1. CASE x = q
    <3>1. x * G = G * q BY <1>2, <2>1
    <3> QED BY <1>2, <1>4, <2>1, <3>1
  <2>2. CASE x = q + 1
    <3>1. x * G = G * q + G BY <1>2, <2>2
    <3> QED BY <1>2, <1>4, <2>2, <3>1
  <2> QED BY <1>3, <2>1, <2>2
<1>6. Abs(x * G - n * a) < G BY <1>2, <1>3, <1>5 DEF Abs
<1>7. ASSUME n <= G PROVE x <= a
  <2>1. n * a <= G * a BY <1>2, <1>7, Products
  <2>2. G * a \in Nat BY <1>2, Products
  <2>3. CASE x = q
    <3>1. G * q <= G * a BY <1>2, <1>4, <2>1, <2>2
    <3> QED BY <1>2, <2>3, <3>1, Products
  <2>4. CASE x = q + 1 /\ r > 0
    <3>1. G * q < G * a BY <1>2, <1>4, <2>1, <2>2, <2>4
    <3>2. q < a BY <1>2, <3>1, Products
    <3> QED BY <1>2, <2>4, <3>2
  <2> QED BY <1>3, <2>3, <2>4
<1> QED BY <1>6, <1>7 DEF G, a, x

-----------------------------------------------------------------------------
(* The invariant: the deltas behind a net order are never zero.             *)
NettingInv ==
  /\ NettingTypeOK
  /\ target \in [DOMAIN target -> Int]
  /\ contrib \in [DOMAIN contrib -> Int \ {0}]
  /\ unattributed \in Int
  /\ GlobalIsSumOfParts

(* compute_cycle() only keeps the deltas that are not zero. *)
LEMMA DeltasTyped ==
  ASSUME NettingInv
  PROVE  /\ Deltas \in [DOMAIN Deltas -> Int \ {0}] /\ DOMAIN Deltas \subseteq Strategies
         /\ IsFiniteSet(DOMAIN Deltas)
<1>1. DOMAIN Deltas \subseteq DOMAIN target BY DEF Deltas
<1>2. DOMAIN target \subseteq Strategies BY DEF NettingInv, NettingTypeOK
<1>3. \A s \in DOMAIN target : target[s] \in Int /\ attributed[s] \in Int
  BY <1>2 DEF NettingInv, NettingTypeOK
<1>4. \A s \in DOMAIN Deltas : Deltas[s] \in Int \ {0} BY <1>3 DEF Deltas
<1>5. Deltas \in [DOMAIN Deltas -> Int \ {0}] BY <1>4 DEF Deltas
<1> QED BY <1>1, <1>2, <1>5, NettingAssumption, FS_Subset

(* Books credited with amounts "d" on the strategies of D grow by their sum. *)
LEMMA Credit ==
  ASSUME NettingInv, NEW D \in SUBSET Strategies, NEW d, \A s \in D : d[s] \in Int,
         attributed' = [s \in Strategies |-> IF s \in D THEN attributed[s] + d[s]
                                             ELSE attributed[s]]
  PROVE  /\ attributed' \in [Strategies -> Int]
         /\ SumFunctionOnSet(d, D) \in Int
         /\ Total(attributed') = Total(attributed) + SumFunctionOnSet(d, D)
         /\ Total(attributed) \in Int
<1> DEFINE e == [s \in Strategies |-> IF s \in D THEN d[s] ELSE 0]
<1>1. IsFiniteSet(Strategies) /\ IsFiniteSet(D) BY NettingAssumption, FS_Subset
<1>2. /\ attributed \in [Strategies -> Int]
      /\ Total(attributed) = SumFunctionOnSet(attributed, Strategies)
  BY DEF NettingInv, NettingTypeOK, Total, SumFunction
<1>3. /\ \A s \in Strategies : e[s] = IF s \in D THEN d[s] ELSE 0
      /\ \A s \in Strategies : attributed[s] \in Int /\ e[s] \in Int
                               /\ attributed'[s] = attributed[s] + e[s]
  BY <1>2
<1> HIDE DEF e
<1>4. SumFunctionOnSet(d, D) \in Int BY <1>1, SumInt
<1>5. SumFunctionOnSet(e, Strategies) = SumFunctionOnSet(d, D) BY <1>1, <1>3, SumExtend
<1>6. SumFunctionOnSet(attributed', Strategies) =
        SumFunctionOnSet(attributed, Strategies) + SumFunctionOnSet(e, Strategies)
  BY <1>1, <1>3, SumPlus
<1>7. Total(attributed') = SumFunctionOnSet(attributed', Strategies) BY DEF Total, SumFunction
<1>8. attributed' \in [Strategies -> Int] BY <1>2
<1>9. Total(attributed) \in Int BY <1>1, <1>2, SumInt
<1> QED BY <1>2, <1>4, <1>5, <1>6, <1>7, <1>8, <1>9

(* A fill is attributed in full, or, without contributions, not at all: its *)
(* sign times the shares adds up to it.                                     *)
LEMMA FillIsCredited ==
  ASSUME NettingInv, NEW qty \in Int, AttributeFill(qty)
  PROVE  /\ attributed' \in [Strategies -> Int] /\ global' \in Int /\ unattributed' \in Int
         /\ global' = Total(attributed') + unattributed'
<1> DEFINE D == DOMAIN contrib
           h == [s \in D |-> Share(qty, contrib, s)]
           d == [s \in D |-> Sign(qty) * Share(qty, contrib, s)]
<1>1. Sign(qty) \in Int /\ Abs(qty) \in Int /\ Sign(qty) * Abs(qty) = qty BY DEF Abs, Sign
<1>2. /\ global' = global + qty
      /\ attributed' = [s \in Strategies |->
           IF s \in D THEN attributed[s] + d[s] ELSE attributed[s]]
      /\ unattributed' = IF D = {} THEN unattributed + qty ELSE unattributed
  BY DEF AttributeFill
<1>3. /\ global \in Int /\ unattributed \in Int /\ global = Total(attributed) + unattributed
      /\ D \in SUBSET Strategies /\ IsFiniteSet(D)
  BY NettingAssumption, FS_Subset DEF NettingInv, NettingTypeOK, GlobalIsSumOfParts
<1>4. CASE D = {}
  <2>1. attributed' = attributed
    BY <1>2, <1>4 DEF NettingInv, NettingTypeOK
  <2>2. Total(attributed) \in Int
    <3>1. \A s \in Strategies : attributed[s] \in Int /\ DOMAIN attributed = Strategies
      BY DEF NettingInv, NettingTypeOK
    <3> QED BY <3>1, NettingAssumption, SumInt DEF Total, SumFunction, NettingInv, NettingTypeOK
  <2> QED BY <1>2, <1>3, <1>4, <2>1, <2>2 DEF NettingInv, NettingTypeOK
<1>5. CASE D # {}
  <2>1. contrib \in Weights BY <1>5 DEF NettingInv, NettingTypeOK, Weights
  <2>2. /\ \A s \in D : Share(qty, contrib, s) \in Nat
        /\ SumFunctionOnSet(h, D) = Abs(qty)
    BY <2>1, SharesAddUp
  <2>3. \A s \in D : h[s] \in Int /\ d[s] = Sign(qty) * h[s]
    <3>1. \A s \in D : h[s] = Share(qty, contrib, s) /\ d[s] = Sign(qty) * h[s]
      OBVIOUS
    <3> HIDE DEF h, d, D
    <3> QED BY <2>2, <3>1
  <2> HIDE DEF d, h, D
  <2>4. SumFunctionOnSet(d, D) = Sign(qty) * SumFunctionOnSet(h, D)
    BY <1>1, <1>3, <2>3, SumTimes
  <2>5. SumFunctionOnSet(d, D) = qty BY <1>1, <2>2, <2>4
  <2>6. \A s \in D : d[s] \in Int
    <3>1. \A a, b \in Int : a * b \in Int OBVIOUS
    <3> QED BY <1>1, <2>3, <3>1
  <2>7. /\ attributed' \in [Strategies -> Int] /\ Total(attributed) \in Int
        /\ Total(attributed') = Total(attributed) + qty
    BY <1>2, <1>3, <2>5, <2>6, Credit
  <2> QED BY <1>2, <1>3, <1>5, <2>7
<1> QED BY <1>4, <1>5

(* The invariant is inductive: seeding moves one entry, a transfer credits  *)
(* deltas that add up to zero, and a fill credits its shares.               *)
LEMMA InitNettingInv == Init => NettingInv
<1> SUFFICES ASSUME Init PROVE NettingInv OBVIOUS
<1>1. SumFunctionOnSet(attributed, Strategies) = 0
  BY NettingAssumption, SumZero DEF Init
<1>2. GlobalIsSumOfParts BY <1>1 DEF Init, GlobalIsSumOfParts, Total, SumFunction
<1> QED BY <1>2 DEF Init, NettingInv, NettingTypeOK

LEMMA NextNettingInv == NettingInv /\ [Next]_vars => NettingInv'
<1> SUFFICES ASSUME NettingInv, [Next]_vars PROVE NettingInv' OBVIOUS
<1>0. /\ attributed \in [Strategies -> Int] /\ global \in Int /\ unattributed \in Int
      /\ working \in [Sides -> Nat] /\ DOMAIN attributed = Strategies
      /\ DOMAIN target \subseteq Strategies /\ target \in [DOMAIN target -> Int]
      /\ DOMAIN contrib \subseteq Strategies /\ contrib \in [DOMAIN contrib -> Int \ {0}]
      /\ global = Total(attributed) + unattributed
      /\ Targets \subseteq Int /\ IsFiniteSet(Strategies)
  BY NettingAssumption DEF NettingInv, NettingTypeOK, GlobalIsSumOfParts
<1>1. ASSUME NEW s \in Strategies, NEW q \in Targets, SetTarget(s, q) PROVE NettingInv'
  <2>1. DOMAIN target' \subseteq Strategies /\ target' \in [DOMAIN target' -> Int]
    BY <1>0, <1>1 DEF SetTarget
  <2> QED BY <1>1, <2>1 DEF SetTarget, NettingInv, NettingTypeOK, GlobalIsSumOfParts
<1>2. ASSUME NEW s \in Strategies, NEW q \in Targets, Seed(s, q) PROVE NettingInv'
  <2>1. /\ attributed' = [attributed EXCEPT ![s] = q] /\ q \in Int
        /\ global' = global + q - attributed[s]
        /\ UNCHANGED <<target, contrib, working, unattributed>>
    BY <1>0, <1>2 DEF Seed
  <2>2. /\ attributed' \in [Strategies -> Int] /\ attributed'[s] = q /\ attributed[s] \in Int
        /\ \A r \in Strategies : attributed[r] \in Int /\ attributed'[r] \in Int
        /\ \A r \in Strategies \ {s} : attributed[r] = attributed'[r]
    BY <1>0, <2>1
  <2>3. SumFunctionOnSet(attributed', Strategies) =
          SumFunctionOnSet(attributed, Strategies) + attributed'[s] - attributed[s]
    BY <1>0, <2>2, SumChange
  <2>4. Total(attributed) = SumFunctionOnSet(attributed, Strategies)
        /\ Total(attributed') = SumFunctionOnSet(attributed', Strategies)
    BY <1>0, <2>2 DEF Total, SumFunction
  <2>5. Total(attributed) \in Int BY <1>0, <2>2, <2>4, SumInt
  <2>6. global' \in Int /\ global' = Total(attributed') + unattributed'
    BY <1>0, <2>1, <2>2, <2>3, <2>4, <2>5
  <2> QED BY <2>1, <2>2, <2>6 DEF NettingInv, NettingTypeOK, GlobalIsSumOfParts
<1>3. CASE InternalTransfer
  <2>1. /\ SumFunctionOnSet(Deltas, DOMAIN Deltas) = 0
        /\ UNCHANGED <<target, global, contrib, working, unattributed>>
        /\ attributed' = [s \in Strategies |->
             IF s \in DOMAIN Deltas THEN attributed[s] + Deltas[s] ELSE attributed[s]]
    BY <1>3 DEF InternalTransfer, Total, SumFunction
  <2>2. DOMAIN Deltas \in SUBSET Strategies /\ \A s \in DOMAIN Deltas : Deltas[s] \in Int
    BY DeltasTyped
  <2>3. /\ attributed' \in [Strategies -> Int] /\ Total(attributed) \in Int
        /\ Total(attributed') = Total(attributed) + 0
    BY <2>1, <2>2, Credit
  <2>4. global' = Total(attributed') + unattributed' BY <1>0, <2>1, <2>3
  <2> QED BY <2>1, <2>3, <2>4 DEF NettingInv, NettingTypeOK, GlobalIsSumOfParts
<1>4. CASE NetOrder
  <2>1. /\ contrib' = Deltas /\ Send(Total(Deltas))
        /\ UNCHANGED <<target, attributed, global, unattributed>>
    BY <1>4 DEF NetOrder
  <2>2. /\ Deltas \in [DOMAIN Deltas -> Int \ {0}] /\ DOMAIN Deltas \subseteq Strategies
        /\ IsFiniteSet(DOMAIN Deltas)
    BY DeltasTyped
  <2>3. Total(Deltas) \in Int
    <3>1. \A s \in DOMAIN Deltas : Deltas[s] \in Int BY <2>2
    <3> QED BY <2>2, <3>1, SumInt DEF Total, SumFunction
  <2>4. Abs(Total(Deltas)) \in Nat BY <2>3 DEF Abs
  <2>5. working' \in [Sides -> Nat] BY <1>0, <2>1, <2>4 DEF Send, Sides
  <2> QED BY <2>1, <2>2, <2>5 DEF NettingInv, NettingTypeOK, GlobalIsSumOfParts
<1>5. ASSUME NEW side \in Sides, NEW n \in 1 .. working[side], Cancelled(side, n)
      PROVE  NettingInv'
  <2>1. working' \in [Sides -> Nat] BY <1>0, <1>5 DEF Cancelled
  <2> QED BY <1>5, <2>1 DEF Cancelled, NettingInv, NettingTypeOK, GlobalIsSumOfParts
<1>6. ASSUME NEW side \in Sides, NEW n \in 1 .. working[side], Fill(side, n)
      PROVE  NettingInv'
  <2>1. AttributeFill(Signed(side, n)) /\ UNCHANGED <<target, contrib>>
    BY <1>6 DEF Fill
  <2>2. Signed(side, n) \in Int BY <1>0 DEF Signed
  <2>3. /\ attributed' \in [Strategies -> Int] /\ global' \in Int /\ unattributed' \in Int
        /\ global' = Total(attributed') + unattributed'
    BY <2>1, <2>2, FillIsCredited
  <2>4. working' \in [Sides -> Nat] BY <1>0, <1>6 DEF Fill
  <2> QED BY <2>1, <2>3, <2>4 DEF NettingInv, NettingTypeOK, GlobalIsSumOfParts
<1>7. CASE UNCHANGED vars
  BY <1>7 DEF vars, NettingInv, NettingTypeOK, GlobalIsSumOfParts
<1> QED BY <1>1, <1>2, <1>3, <1>4, <1>5, <1>6, <1>7 DEF Next, SomeFill, SomeCancelled

(* The invariant holds of every behaviour, whatever the targets, the seeds, *)
(* the sizes and the cancellation of the fills and the overlap of cycles.   *)
THEOREM NettingInvariance == Spec => []NettingInv
BY InitNettingInv, NextNettingInv, PTL DEF Spec

(* The books of the netting engine keep their types: every strategy has an  *)
(* integer position, and only strategies have targets and contributions.    *)
THEOREM NettingTypeCorrect == Spec => []NettingTypeOK
<1>1. NettingInv => NettingTypeOK BY DEF NettingInv
<1> QED BY <1>1, NettingInvariance, PTL

(* check_invariant(): the global position is the sum of the sub-positions,  *)
(* through partial fills, rounding, internal transfers, seeding and cycles  *)
(* run while orders are working, but for what filled without contributions. *)
THEOREM GlobalIsSum == Spec => []GlobalIsSumOfParts
<1>1. NettingInv => GlobalIsSumOfParts BY DEF NettingInv
<1> QED BY <1>1, NettingInvariance, PTL

(* attribute_fill(): the shares of any fill add up to it, each next to the  *)
(* exact pro-rata share and, unless the fill is larger than all the deltas  *)
(* behind the last net order, within the strategy's own.                    *)
THEOREM SharesProRata == Spec => []SharesAreProRata
<1>1. ASSUME NettingInv PROVE SharesAreProRata
  <2> SUFFICES ASSUME DOMAIN contrib # {}, NEW side \in Sides, NEW n \in 1 .. working[side]
               PROVE  /\ SumFunction([s \in DOMAIN contrib |-> Share(n, contrib, s)]) = n
                      /\ \A s \in DOMAIN contrib :
                           /\ Abs(Share(n, contrib, s) * Gross(contrib)
                                    - n * Abs(contrib[s])) < Gross(contrib)
                           /\ n <= Gross(contrib) => Share(n, contrib, s) <= Abs(contrib[s])
    BY DEF SharesAreProRata
  <2>1. contrib \in Weights BY <1>1 DEF NettingInv, NettingTypeOK, Weights
  <2>2. n \in Nat /\ n \in Int /\ Abs(n) = n BY <1>1 DEF NettingInv, NettingTypeOK, Abs
  <2>3. SumFunction([s \in DOMAIN contrib |-> Share(n, contrib, s)]) = n
    BY <2>1, <2>2, SharesAddUp DEF SumFunction
  <2> QED BY <2>1, <2>2, <2>3, SharesAreClose
<1> QED BY <1>1, NettingInvariance, PTL
=============================================================================
