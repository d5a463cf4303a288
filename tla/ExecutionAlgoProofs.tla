------------------------ MODULE ExecutionAlgoProofs -------------------------
(****************************************************************************)
(* The execution algorithms for any parent, schedule, deadline and rate,    *)
(* and any order of fills, ends and refusals: the books follow the orders,  *)
(* nothing exceeds the parent, what is done is reported, the deadline       *)
(* cancels what works, and the last slice sends the rest.                   *)
(****************************************************************************)
EXTENDS ExecutionAlgo, SumTheorems

-----------------------------------------------------------------------------
(* Books: the children are a finite table of what is left of each. *)

Left1 == Nat \ {0}
Tables == {c \in UNION {[D -> Left1] : D \in SUBSET Nat} : IsFiniteSet(DOMAIN c)}

Books == [qty : Nat, start : Nat, slices : Left1, filled : Nat, children : Tables,
          slicesDone : Nat, deadlineDone : BOOLEAN, done : BOOLEAN]

Kids(b) == DOMAIN b.children

(* What a table is. *)
LEMMA TableIs ==
  ASSUME NEW c
  PROVE  c \in Tables <=> /\ c = [i \in DOMAIN c |-> c[i]] /\ DOMAIN c \subseteq Nat
                          /\ IsFiniteSet(DOMAIN c) /\ \A i \in DOMAIN c : c[i] \in Left1
<1>1. ASSUME c \in Tables
      PROVE  /\ c = [i \in DOMAIN c |-> c[i]] /\ DOMAIN c \subseteq Nat
             /\ IsFiniteSet(DOMAIN c) /\ \A i \in DOMAIN c : c[i] \in Left1
  <2>1. PICK D \in SUBSET Nat : c \in [D -> Left1] BY <1>1 DEF Tables
  <2> QED BY <1>1, <2>1 DEF Tables
<1>2. ASSUME c = [i \in DOMAIN c |-> c[i]], DOMAIN c \subseteq Nat,
             IsFiniteSet(DOMAIN c), \A i \in DOMAIN c : c[i] \in Left1
      PROVE  c \in Tables
  <2>1. c \in [DOMAIN c -> Left1] BY <1>2
  <2> QED BY <1>2, <2>1 DEF Tables
<1> QED BY <1>1, <1>2

(* What a book is working is a number, zero only if it has no children. *)
LEMMA InflightIs ==
  ASSUME NEW b \in Books
  PROVE  /\ Inflight(b) \in Nat /\ IsFiniteSet(Kids(b)) /\ Kids(b) \subseteq Nat
         /\ \A i \in Kids(b) : b.children[i] \in Left1 /\ b.children[i] <= Inflight(b)
         /\ Inflight(b) = 0 <=> Kids(b) = {}
<1>1. b.children \in Tables BY DEF Books
<1>2. /\ IsFiniteSet(Kids(b)) /\ Kids(b) \subseteq Nat
      /\ \A i \in Kids(b) : b.children[i] \in Left1
  BY <1>1, TableIs DEF Kids
<1>3. Inflight(b) = SumFunctionOnSet(b.children, Kids(b))
  BY DEF Inflight, SumFunction, Kids
<1>4. Inflight(b) \in Nat /\ \A i \in Kids(b) : b.children[i] <= Inflight(b)
  BY <1>2, <1>3, SumNat DEF Left1
<1>5. Kids(b) = {} => Inflight(b) = 0 BY <1>3, SumEmpty
<1>6. Kids(b) # {} => Inflight(b) # 0 BY <1>2, <1>4 DEF Left1
<1> QED BY <1>2, <1>4, <1>5, <1>6

(* A book and another with one child more. *)
LEMMA ChildAdded ==
  ASSUME NEW b \in Books, NEW i \in Nat, i \notin Kids(b), NEW q \in Left1
  PROVE  LET c == WithChild(b, i, q)
         IN  /\ c \in Books /\ Kids(c) = Kids(b) \cup {i} /\ c.children[i] = q
             /\ \A j \in Kids(b) : c.children[j] = b.children[j]
             /\ Inflight(c) = Inflight(b) + q
             /\ c.qty = b.qty /\ c.slices = b.slices /\ c.filled = b.filled
             /\ c.slicesDone = b.slicesDone /\ c.deadlineDone = b.deadlineDone
             /\ c.done = b.done
<1> DEFINE c == WithChild(b, i, q)
           f == b.children
           g == [j \in DOMAIN f \cup {i} |-> IF j = i THEN q ELSE f[j]]
<1>1. f \in Tables BY DEF Books
<1>3. c = [b EXCEPT !.children = g] BY DEF WithChild
<1>4. IsFiniteSet(DOMAIN f) /\ DOMAIN f \subseteq Nat /\ \A j \in DOMAIN f : f[j] \in Left1
  BY <1>1, TableIs
<1>5. DOMAIN g = DOMAIN f \cup {i} /\ g = [j \in DOMAIN g |-> g[j]] OBVIOUS
<1>6. /\ g[i] = q /\ \A j \in DOMAIN f : g[j] = f[j] BY DEF Kids
<1>7. IsFiniteSet(DOMAIN g) BY <1>4, <1>5, FS_AddElement
<1> HIDE DEF g
<1>8. g \in Tables
  <2>1. DOMAIN g \subseteq Nat /\ \A j \in DOMAIN g : g[j] \in Left1 BY <1>4, <1>5, <1>6
  <2> QED BY <1>5, <1>7, <2>1, TableIs
<1>9. SumFunctionOnSet(g, DOMAIN g) = q + SumFunctionOnSet(f, DOMAIN f)
  <2> DEFINE D == DOMAIN f
  <2>1. i \notin D /\ DOMAIN g = D \cup {i} BY <1>5 DEF Kids
  <2>2. \A j \in D : g[j] \in Int BY <1>4, <1>6 DEF Left1
  <2>3. g[i] \in Int BY <1>6 DEF Left1
  <2>4. SumFunctionOnSet(g, D) = SumFunctionOnSet(f, D) BY <1>4, <1>6, SumSame
  <2>5. IsFiniteSet(D) BY <1>4
  <2> HIDE DEF D
  <2>6. SumFunctionOnSet(g, D \cup {i}) = g[i] + SumFunctionOnSet(g, D)
    BY <2>1, <2>2, <2>3, <2>5, SumAdd
  <2> QED BY <1>6, <2>1, <2>4, <2>6 DEF D
<1>10. /\ c \in Books /\ c.children = g
       /\ c.qty = b.qty /\ c.slices = b.slices /\ c.filled = b.filled
       /\ c.slicesDone = b.slicesDone /\ c.deadlineDone = b.deadlineDone
       /\ c.done = b.done
  BY <1>3, <1>8 DEF Books
<1>11. Inflight(c) = Inflight(b) + q
  <2>1. Inflight(c) = SumFunctionOnSet(g, DOMAIN g) /\ Inflight(b) = SumFunctionOnSet(f, DOMAIN f)
    BY <1>10 DEF Inflight, SumFunction
  <2>2. Inflight(b) \in Nat BY InflightIs
  <2> QED BY <1>9, <2>1, <2>2 DEF Left1
<1> HIDE DEF c
<1>12. Kids(c) = Kids(b) \cup {i} BY <1>5, <1>10 DEF Kids
<1>13. c.children[i] = q /\ \A j \in Kids(b) : c.children[j] = b.children[j]
  BY <1>6, <1>10 DEF Kids
<1> QED BY <1>10, <1>11, <1>12, <1>13 DEF c

(* A child that ends, if the book knows it. *)
LEMMA ChildRemoved ==
  ASSUME NEW b \in Books, NEW i
  PROVE  LET c == WithoutChild(b, i)
         IN  /\ c \in Books /\ Kids(c) = Kids(b) \ {i}
             /\ \A j \in Kids(c) : c.children[j] = b.children[j]
             /\ Inflight(c) = Inflight(b) - (IF i \in Kids(b) THEN b.children[i] ELSE 0)
             /\ c.qty = b.qty /\ c.slices = b.slices /\ c.filled = b.filled
             /\ c.slicesDone = b.slicesDone /\ c.deadlineDone = b.deadlineDone
             /\ c.done = b.done
<1> DEFINE c == WithoutChild(b, i)
           f == b.children
           D == DOMAIN f
           g == [j \in D \ {i} |-> f[j]]
<1>1. f \in Tables BY DEF Books
<1>2. c = [b EXCEPT !.children = g] BY DEF WithoutChild
<1>3. IsFiniteSet(D) /\ D \subseteq Nat /\ \A j \in D : f[j] \in Left1
  BY <1>1, TableIs
<1>4. DOMAIN g = D \ {i} /\ g = [j \in DOMAIN g |-> g[j]] /\ \A j \in DOMAIN g : g[j] = f[j]
  OBVIOUS
<1> HIDE DEF g
<1>5. IsFiniteSet(DOMAIN g) BY <1>3, <1>4, FS_Subset
<1>6. g \in Tables BY <1>3, <1>4, <1>5, TableIs
<1>7. /\ c \in Books /\ c.children = g
      /\ c.qty = b.qty /\ c.slices = b.slices /\ c.filled = b.filled
      /\ c.slicesDone = b.slicesDone /\ c.deadlineDone = b.deadlineDone
      /\ c.done = b.done
  BY <1>2, <1>6 DEF Books
<1>8. SumFunctionOnSet(g, DOMAIN g) = SumFunctionOnSet(f, D \ {i})
  <2>1. SumFunctionOnSet(g, DOMAIN g) = SumFunctionOnSet(f, DOMAIN g) BY <1>4, <1>5, SumSame
  <2> QED BY <1>4, <2>1
<1>9. Inflight(c) = SumFunctionOnSet(f, D \ {i}) /\ Inflight(b) = SumFunctionOnSet(f, D)
  BY <1>7, <1>8 DEF Inflight, SumFunction
<1>10. Inflight(b) \in Nat /\ Inflight(c) \in Nat BY <1>7, InflightIs
<1>11. CASE i \in D
  <2>1. SumFunctionOnSet(f, D) = f[i] + SumFunctionOnSet(f, D \ {i})
    <3>1. \A j \in D : f[j] \in Int BY <1>3 DEF Left1
    <3> QED BY <1>3, <1>11, <3>1, SumRemove
  <2>2. f[i] \in Nat BY <1>3, <1>11 DEF Left1
  <2> HIDE DEF c, f, D
  <2>3. Inflight(c) = Inflight(b) - f[i] BY <1>9, <1>10, <2>1, <2>2
  <2> QED BY <1>4, <1>7, <1>11, <2>3 DEF Kids, c, f, D
<1>12. CASE i \notin D
  <2>1. D \ {i} = D BY <1>12
  <2>2. Inflight(c) = Inflight(b) BY <1>9, <2>1
  <2>3. Inflight(c) = Inflight(b) - 0 BY <1>10, <2>2
  <2> QED BY <1>4, <1>7, <1>12, <2>3 DEF Kids
<1> QED BY <1>11, <1>12

(* A fill of a child the book knows, and of one it does not. *)
LEMMA ChildFilled ==
  ASSUME NEW b \in Books, NEW i, NEW q \in Left1,
         NEW rem \in Nat, i \in Kids(b) => b.children[i] = rem + q
  PROVE  LET c == Filled(b, i, q, rem)
         IN  /\ c \in Books
             /\ Kids(c) = IF rem = 0 THEN Kids(b) \ {i} ELSE Kids(b)
             /\ \A j \in Kids(c) : c.children[j] = IF j = i THEN rem ELSE b.children[j]
             /\ Inflight(c) = Inflight(b) - (IF i \in Kids(b) THEN q ELSE 0)
             /\ c.filled = b.filled + q /\ c.qty = b.qty /\ c.slices = b.slices
             /\ c.slicesDone = b.slicesDone /\ c.deadlineDone = b.deadlineDone
             /\ c.done <=> b.done \/ b.filled + q >= b.qty
<1> DEFINE d == b.done \/ b.filled + q >= b.qty
           paid == [b EXCEPT !.filled = @ + q, !.done = @ \/ b.filled + q >= b.qty]
           c == Filled(b, i, q, rem)
<1>0. d \in BOOLEAN /\ paid = [b EXCEPT !.filled = @ + q, !.done = d] OBVIOUS
<1>1. /\ paid \in Books /\ paid.children = b.children
      /\ paid.filled = b.filled + q /\ paid.qty = b.qty /\ paid.slices = b.slices
      /\ paid.slicesDone = b.slicesDone /\ paid.deadlineDone = b.deadlineDone
      /\ paid.done = d
  <2> DEFINE f == b.filled + q
  <2>1. f \in Nat BY DEF Books, Left1
  <2>2. paid = [b EXCEPT !.filled = f, !.done = d] BY <1>0
  <2> HIDE DEF paid, d, f
  <2>3. paid \in Books BY <1>0, <2>1, <2>2 DEF Books
  <2>4. /\ paid.children = b.children
        /\ paid.qty = b.qty /\ paid.slices = b.slices
        /\ paid.slicesDone = b.slicesDone /\ paid.deadlineDone = b.deadlineDone
    BY <2>2 DEF Books
  <2>5. paid.filled = f /\ paid.done = d BY <2>2 DEF Books
  <2> QED BY <2>3, <2>4, <2>5 DEF f
<1>2. c = IF i \notin Kids(b) THEN paid
          ELSE IF rem = 0 THEN WithoutChild(paid, i)
          ELSE [paid EXCEPT !.children[i] = rem]
  BY DEF Filled, Kids
<1> HIDE DEF paid, c, d
<1>3. Kids(paid) = Kids(b) /\ Inflight(paid) = Inflight(b) BY <1>1 DEF Kids, Inflight
<1>4. Inflight(b) \in Nat BY InflightIs
<1>5. CASE i \notin Kids(b)
  <2>1. Inflight(paid) = Inflight(b) - 0 BY <1>3, <1>4
  <2>2. Kids(b) \ {i} = Kids(b) BY <1>5
  <2>3. \A j \in Kids(b) : j # i BY <1>5
  <2> QED BY <1>1, <1>2, <1>3, <1>5, <2>1, <2>2, <2>3 DEF c, d
<1>6. CASE i \in Kids(b) /\ rem = 0
  <2>1. c = WithoutChild(paid, i) BY <1>2, <1>6
  <2>0. i \in Kids(paid) /\ paid \in Books BY <1>1, <1>3, <1>6
  <2>2. /\ c \in Books /\ Kids(c) = Kids(paid) \ {i}
        /\ \A j \in Kids(c) : c.children[j] = paid.children[j]
        /\ Inflight(c) = Inflight(paid) - paid.children[i]
        /\ c.qty = paid.qty /\ c.slices = paid.slices /\ c.filled = paid.filled
        /\ c.slicesDone = paid.slicesDone /\ c.deadlineDone = paid.deadlineDone
        /\ c.done = paid.done
    BY <2>0, <2>1, ChildRemoved
  <2>3. b.children[i] = q BY <1>6 DEF Left1
  <2> QED BY <1>1, <1>3, <1>6, <2>2, <2>3 DEF c, d
<1>7. CASE i \in Kids(b) /\ rem # 0
  <2> DEFINE f == paid.children
             D == DOMAIN f
             g == [f EXCEPT ![i] = rem]
  <2>1. c = [paid EXCEPT !.children[i] = rem] BY <1>2, <1>7
  <2>2. c = [paid EXCEPT !.children = g] BY <2>1
  <2>3. f \in Tables BY <1>1 DEF Books
  <2>4. IsFiniteSet(D) /\ D \subseteq Nat /\ \A j \in D : f[j] \in Left1
    BY <2>3, TableIs
  <2>5. f = [j \in D |-> f[j]] BY <2>3, TableIs
  <2>6. i \in D BY <1>3, <1>7 DEF Kids
  <2>7. /\ DOMAIN g = D /\ g = [j \in DOMAIN g |-> g[j]]
        /\ g[i] = rem /\ \A j \in D \ {i} : g[j] = f[j]
    BY <2>5, <2>6
  <2> HIDE DEF g
  <2>8. g \in Tables
    <3>1. \A j \in DOMAIN g : g[j] \in Left1 BY <1>7, <2>4, <2>7 DEF Left1
    <3> QED BY <2>4, <2>7, <3>1, TableIs
  <2>9. /\ c \in Books /\ c.children = g
        /\ c.qty = paid.qty /\ c.slices = paid.slices /\ c.filled = paid.filled
        /\ c.slicesDone = paid.slicesDone /\ c.deadlineDone = paid.deadlineDone
        /\ c.done = paid.done
    BY <1>1, <2>2, <2>8 DEF Books
  <2>10. /\ Inflight(c) = SumFunctionOnSet(g, D) /\ Inflight(paid) = SumFunctionOnSet(f, D)
    BY <2>7, <2>9 DEF Inflight, SumFunction
  <2>11. \A j \in D : f[j] \in Int /\ g[j] \in Int BY <1>7, <2>4, <2>7 DEF Left1
  <2> HIDE DEF f, D
  <2>12. SumFunctionOnSet(g, D) = SumFunctionOnSet(f, D) + g[i] - f[i]
    BY <2>4, <2>6, <2>7, <2>11, SumChange
  <2>13. f[i] = rem + q BY <1>1, <1>7 DEF f
  <2>14. Inflight(c) = Inflight(b) - q
    BY <1>3, <1>4, <2>7, <2>10, <2>12, <2>13 DEF Left1
  <2>15. Kids(c) = Kids(b) BY <1>3, <2>7, <2>9 DEF Kids, D, f
  <2>16. \A j \in Kids(c) : c.children[j] = IF j = i THEN rem ELSE b.children[j]
    BY <1>1, <1>3, <2>7, <2>9, <2>15 DEF Kids, D, f
  <2> QED BY <1>1, <1>7, <2>9, <2>14, <2>15, <2>16 DEF c, d
<1> QED BY <1>5, <1>6, <1>7

-----------------------------------------------------------------------------
(* The timer of a TWAP. *)

Room(b) == b.filled + Inflight(b) <= b.qty

(* The larger of zero and what is left of the parent. *)
LEMMA RemainingIs ==
  ASSUME NEW b \in Books
  PROVE  /\ Left(b) \in Int /\ Remaining(b) \in Nat
         /\ Left(b) = b.qty - (b.filled + Inflight(b))
         /\ Room(b) => Remaining(b) = Left(b)
         /\ Remaining(b) > 0 => Remaining(b) = Left(b)
<1>1. b.qty \in Nat /\ b.filled \in Nat /\ Inflight(b) \in Nat BY InflightIs DEF Books
<1> QED BY <1>1 DEF Left, Remaining, Room

(* Division with remainder. *)
LEMMA Division ==
  ASSUME NEW a \in Nat, NEW g \in Nat \ {0}
  PROVE  a \div g \in Nat /\ g * (a \div g) <= a
OBVIOUS

(* A quantity in equal parts, rounded up, is no more than the quantity. *)
LEMMA CeilingWithin ==
  ASSUME NEW rem \in Nat, NEW n \in Nat, n > 1
  PROVE  (rem + n - 1) \div n \in 0 .. rem
<1> DEFINE a == rem + n - 1
           d == a \div n
<1>1. a \in Nat /\ n \in Nat \ {0} OBVIOUS
<1>2. d \in Nat /\ n * d <= a BY <1>1, Division
<1>3. ASSUME d >= rem + 1 PROVE FALSE
  <2> HIDE DEF d
  <2>1. \A x, y \in Nat : x <= y => n * x <= n * y OBVIOUS
  <2>2. n * (rem + 1) <= n * d BY <1>2, <1>3, <2>1
  <2>3. n * (rem + 1) = n * rem + n OBVIOUS
  <2>4. n * rem >= rem
    <3>1. \A x, y \in Nat : x >= 1 => x * y >= y OBVIOUS
    <3> QED BY <3>1
  <2>5. n * rem \in Int /\ n * d \in Int BY <1>2
  <2> QED BY <1>2, <2>2, <2>3, <2>4, <2>5
<1> HIDE DEF d
<1>4. d \in 0 .. rem BY <1>2, <1>3
<1> QED BY <1>4 DEF d

(* A slice is never more than what is left, and the last one is all of it.  *)
LEMMA SliceWithin ==
  ASSUME NEW b \in Books, NEW k \in Nat, k < b.slices
  PROVE  /\ SliceQty(b, k) \in 0 .. Remaining(b)
         /\ k + 1 = b.slices => SliceQty(b, k) = Remaining(b)
<1> DEFINE n == b.slices - k
           rem == Remaining(b)
<1>1. n \in Nat /\ n >= 1 BY DEF Books, Left1
<1>2. rem \in Nat BY RemainingIs
<1>3. SliceQty(b, k) = IF n <= 1 THEN rem ELSE (rem + n - 1) \div n BY DEF SliceQty
<1>4. k + 1 = b.slices => n = 1 OBVIOUS
<1> HIDE DEF n, rem
<1>5. n > 1 => (rem + n - 1) \div n \in 0 .. rem BY <1>1, <1>2, CeilingWithin
<1>6. SliceQty(b, k) \in 0 .. rem BY <1>1, <1>2, <1>3, <1>5
<1>7. k + 1 = b.slices => SliceQty(b, k) = rem BY <1>3, <1>4
<1> QED BY <1>6, <1>7 DEF rem

(* The book c is b with further children, numbered from n + 1 to m. *)
Grows(b, c, n, m) ==
  /\ c \in Books /\ m \in Nat /\ m >= n
  /\ Kids(c) = Kids(b) \cup (n + 1 .. m)
  /\ \A i \in Kids(b) : c.children[i] = b.children[i]
  /\ c.qty = b.qty /\ c.slices = b.slices /\ c.filled = b.filled
  /\ c.slicesDone <= c.slices

(* A book between two calls, when n orders have been sent. *)
Older(b, n) ==
  b \in Books /\ n \in Nat /\ Kids(b) \subseteq 1 .. n /\ b.slicesDone <= b.slices

(* A turn of the loop in on_timer() before which slices of b were fired. *)
Worked(b, n, acc) ==
  /\ acc = [book |-> acc.book, next |-> acc.next]
  /\ acc.next \in Nat /\ acc.next > n /\ Grows(b, acc.book, n, acc.next - 1)
  /\ Room(acc.book)
  /\ acc.book.deadlineDone = b.deadlineDone /\ acc.book.done = b.done

(* Before the first turn. *)
LEMMA NothingWorked ==
  ASSUME NEW b, NEW n, Older(b, n), Room(b)
  PROVE  Worked(b, n, [book |-> b, next |-> n + 1])
<1> DEFINE acc == [book |-> b, next |-> n + 1]
<1>1. /\ acc.book = b /\ acc.next = n + 1
      /\ acc = [book |-> acc.book, next |-> acc.next]
  OBVIOUS
<1> HIDE DEF acc
<1>2. n + 1 .. n = {} /\ n \in Nat /\ (n + 1) - 1 = n BY DEF Older
<1>3. Grows(b, b, n, n) BY <1>2 DEF Grows, Older
<1>4. Worked(b, n, acc) BY <1>1, <1>2, <1>3 DEF Worked
<1> QED BY <1>4 DEF acc

(* One turn adds at most one child, of no more than what is left, and the   *)
(* last one leaves nothing if its submit succeeds.                          *)
LEMMA FireWorks ==
  ASSUME NEW b, NEW n, Older(b, n), NEW acc, Worked(b, n, acc),
         NEW k \in Nat, k < b.slices, NEW ok
  PROVE  /\ Worked(b, n, Fire(acc, k, ok)) /\ Fire(acc, k, ok).book.slicesDone = k + 1
         /\ k + 1 = b.slices /\ k \in ok => Left(Fire(acc, k, ok).book) = 0
<1> DEFINE a == acc.book
           i == acc.next
           c == [a EXCEPT !.slicesDone = k + 1]
           q == SliceQty(a, k)
           z == Fire(acc, k, ok)
<1>1. /\ a \in Books /\ a.slices = b.slices /\ a.qty = b.qty /\ a.filled = b.filled
      /\ i \in Nat /\ i > n /\ n \in Nat
      /\ Kids(a) = Kids(b) \cup (n + 1 .. i - 1)
      /\ \A j \in Kids(b) : a.children[j] = b.children[j]
      /\ Room(a) /\ a.deadlineDone = b.deadlineDone /\ a.done = b.done
      /\ Kids(b) \subseteq 1 .. n /\ b \in Books
  BY DEF Worked, Grows, Older
<1>2. /\ z = IF q > 0 /\ k \in ok THEN [book |-> WithChild(c, i, q), next |-> i + 1]
             ELSE [acc EXCEPT !.book = c]
  BY DEF Fire
<1>3. /\ c \in Books /\ c.children = a.children /\ c.slicesDone = k + 1
      /\ c.qty = a.qty /\ c.slices = a.slices /\ c.filled = a.filled
      /\ c.deadlineDone = a.deadlineDone /\ c.done = a.done
  <2> HIDE DEF a
  <2> QED BY <1>1 DEF Books
<1> HIDE DEF c, q, z, a, i
<1>4. /\ q \in 0 .. Remaining(a)
      /\ k + 1 = b.slices => q = Remaining(a)
  BY <1>1, SliceWithin DEF q
<1>5. /\ Remaining(a) \in Nat /\ Remaining(a) = a.qty - (a.filled + Inflight(a))
      /\ Left(a) = Remaining(a)
  BY <1>1, RemainingIs
<1>6. Kids(c) = Kids(a) /\ Inflight(c) = Inflight(a) BY <1>3 DEF Kids, Inflight
<1>7. /\ a.qty \in Nat /\ a.filled \in Nat /\ Inflight(a) \in Nat /\ b.slices \in Nat
  BY <1>1, InflightIs DEF Books, Left1
<1>8. CASE q > 0 /\ k \in ok
  <2> DEFINE d == WithChild(c, i, q)
  <2>1. q \in Left1 /\ i \notin Kids(c) BY <1>1, <1>4, <1>5, <1>6, <1>8 DEF Left1
  <2>2. /\ d \in Books /\ Kids(d) = Kids(c) \cup {i}
        /\ \A j \in Kids(c) : d.children[j] = c.children[j]
        /\ Inflight(d) = Inflight(c) + q
        /\ d.qty = c.qty /\ d.slices = c.slices /\ d.filled = c.filled
        /\ d.slicesDone = c.slicesDone /\ d.deadlineDone = c.deadlineDone
        /\ d.done = c.done
    BY <1>1, <1>3, <2>1, ChildAdded
  <2>3. z.book = d /\ z.next = i + 1 /\ z = [book |-> z.book, next |-> z.next]
    BY <1>2, <1>8
  <2> HIDE DEF d
  <2>4. Kids(d) = Kids(b) \cup (n + 1 .. i)
    <3>1. (n + 1 .. i - 1) \cup {i} = n + 1 .. i BY <1>1
    <3> QED BY <1>1, <1>6, <2>2, <3>1
  <2>5. \A j \in Kids(b) : d.children[j] = b.children[j] BY <1>1, <1>3, <1>6, <2>2
  <2>6. Grows(b, d, n, i) BY <1>1, <1>3, <1>7, <2>2, <2>4, <2>5 DEF Grows
  <2>7. Room(d) BY <1>3, <1>4, <1>5, <1>6, <1>7, <2>2 DEF Room
  <2>8. k + 1 = b.slices => Left(d) = 0
    BY <1>3, <1>4, <1>5, <1>6, <1>7, <2>2, RemainingIs
  <2>9. (i + 1) - 1 = i /\ i + 1 > n /\ i + 1 \in Nat BY <1>1
  <2>10. Worked(b, n, z) BY <1>1, <1>3, <2>2, <2>3, <2>6, <2>7, <2>9 DEF Worked
  <2> QED BY <1>3, <2>2, <2>3, <2>8, <2>10 DEF z
<1>9. CASE ~(q > 0 /\ k \in ok)
  <2>1. z.book = c /\ z.next = i /\ z = [book |-> z.book, next |-> z.next]
    <3>1. z = [acc EXCEPT !.book = c] BY <1>2, <1>9
    <3>2. acc = [book |-> a, next |-> i] BY DEF Worked, a, i
    <3>3. z = [book |-> c, next |-> i] BY <3>1, <3>2
    <3> QED BY <3>3
  <2>2. Grows(b, c, n, i - 1)
    <3>1. i - 1 \in Nat /\ i - 1 >= n BY <1>1
    <3> QED BY <1>1, <1>3, <1>6, <1>7, <3>1 DEF Grows
  <2>3. Room(c) BY <1>1, <1>3, <1>6 DEF Room
  <2>4. k + 1 = b.slices /\ k \in ok => Left(c) = 0
    <3>1. Left(c) = Left(a) BY <1>3, <1>6 DEF Left
    <3> QED BY <1>4, <1>5, <1>9, <3>1
  <2>5. Worked(b, n, z) BY <1>1, <1>3, <2>1, <2>2, <2>3 DEF Worked
  <2> QED BY <1>3, <2>1, <2>4, <2>5 DEF z
<1> QED BY <1>8, <1>9

(* The table of the loop up to slice h, entry by entry. *)
Entry(b, t, n, ok, f, k) ==
  IF k = b.slicesDone THEN [book |-> b, next |-> n]
  ELSE IF b.start + (k - 1) * Dur(b) <= t THEN Fire(f[k - 1], k - 1, ok)
  ELSE f[k - 1]

IsTable(b, t, n, ok, h, f) ==
  f = [k \in b.slicesDone .. h |-> Entry(b, t, n, ok, f, k)]

(* What the definition of the loop says of its result. *)
LEMMA FireIsTable ==
  ASSUME NEW b, NEW t, NEW n, NEW ok
  PROVE  LET f == CHOOSE f : IsTable(b, t, n, ok, b.slices, f)
             c == f[b.slices].book
         IN  FireSlices(b, t, n, ok) = [c EXCEPT !.done = c.filled >= c.qty]
BY Zenon DEF FireSlices, IsTable, Entry

(* There is such a table. *)
LEMMA TableExists ==
  ASSUME NEW b \in Books, b.slicesDone <= b.slices, NEW t, NEW n, NEW ok
  PROVE  \E f : IsTable(b, t, n, ok, b.slices, f)
<1> DEFINE lo == b.slicesDone
           hi == b.slices
           Good == {h \in Nat : \E f : IsTable(b, t, n, ok, lo + h, f)}
<1>1. lo \in Nat /\ hi \in Nat /\ lo <= hi BY DEF Books, Left1
<1>2. 0 \in Good
  <2> DEFINE e == [book |-> b, next |-> n]
             f == [k \in lo .. lo + 0 |-> e]
  <2>1. \A k \in lo .. lo + 0 : k = lo BY <1>1
  <2>2. \A k \in lo .. lo + 0 : Entry(b, t, n, ok, f, k) = e BY <2>1 DEF Entry
  <2> HIDE DEF e
  <2>3. f = [k \in lo .. lo + 0 |-> Entry(b, t, n, ok, f, k)] BY <2>2
  <2>4. IsTable(b, t, n, ok, lo + 0, f) BY <2>3 DEF IsTable
  <2> QED BY <2>4
<1>3. ASSUME NEW h \in Nat, h \in Good PROVE h + 1 \in Good
  <2>1. PICK f : IsTable(b, t, n, ok, lo + h, f) BY <1>3
  <2> DEFINE D == lo .. lo + h
             E == lo .. lo + (h + 1)
             g == [k \in E |-> IF k \in D THEN f[k] ELSE Entry(b, t, n, ok, f, k)]
  <2>2. D \subseteq E /\ \A k \in E : k \in D \/ k = lo + (h + 1) BY <1>1
  <2>3. \A k \in E : k # lo => k - 1 \in D BY <1>1
  <2>4. \A k \in D : f[k] = Entry(b, t, n, ok, f, k) BY <2>1 DEF IsTable
  <2>5. \A k \in E : g[k] = Entry(b, t, n, ok, f, k) BY <2>2, <2>4
  <2>6. \A k \in D : g[k] = f[k] BY <2>2
  <2>7. g = [k \in E |-> g[k]] OBVIOUS
  <2> HIDE DEF g, D
  <2>8. \A k \in E : Entry(b, t, n, ok, g, k) = Entry(b, t, n, ok, f, k)
    BY <2>3, <2>6 DEF Entry
  <2> HIDE DEF E
  <2>9. g = [k \in E |-> Entry(b, t, n, ok, g, k)] BY <2>5, <2>7, <2>8
  <2>10. IsTable(b, t, n, ok, lo + (h + 1), g) BY <2>9 DEF IsTable, E
  <2> QED BY <2>10
<1> HIDE DEF Good
<1>4. hi - lo \in Nat /\ lo + (hi - lo) = hi BY <1>1
<1>5. hi - lo \in Good BY <1>2, <1>3, <1>4, NumberInduction
<1> QED BY <1>4, <1>5 DEF Good

(* What the loop leaves: children of no more than what was left, and, if    *)
(* the last slice was due and no submit failed, nothing unsent.             *)
LEMMA FireSlicesGrows ==
  ASSUME NEW b, NEW n, Older(b, n), Room(b), NEW t, NEW ok
  PROVE  LET c == FireSlices(b, t, n + 1, ok)
         IN  /\ \E m \in Nat : Grows(b, c, n, m)
             /\ Room(c) /\ c.deadlineDone = b.deadlineDone
             /\ c.done <=> c.filled >= c.qty
             /\ b.slicesDone < b.slices /\ c.slicesDone = b.slices /\ 0 .. b.slices \subseteq ok
                  => Left(c) = 0
<1> DEFINE lo == b.slicesDone
           hi == b.slices
           f == CHOOSE f : IsTable(b, t, n + 1, ok, hi, f)
           Full(a, k) == /\ Worked(b, n, a) /\ a.book.slicesDone <= k
                         /\ lo < k /\ a.book.slicesDone = hi /\ 0 .. hi \subseteq ok
                              => Left(a.book) = 0
           Good == {h \in Nat : lo + h <= hi => Full(f[lo + h], lo + h)}
<1>1. lo \in Nat /\ hi \in Nat /\ lo <= hi /\ b \in Books BY DEF Older, Books, Left1
<1>2. IsTable(b, t, n + 1, ok, hi, f) BY <1>1, TableExists
<1> HIDE DEF f
<1>3. \A k \in lo .. hi : f[k] = Entry(b, t, n + 1, ok, f, k) BY <1>2 DEF IsTable
<1>4. 0 \in Good
  <2>1. f[lo] = [book |-> b, next |-> n + 1]
    <3>1. lo \in lo .. hi BY <1>1
    <3> QED BY <1>3, <3>1 DEF Entry
  <2>2. Full(f[lo], lo)
    <3>1. f[lo].book = b BY <2>1
    <3>2. Worked(b, n, f[lo]) BY <2>1, NothingWorked
    <3> QED BY <1>1, <3>1, <3>2
  <2>3. lo + 0 = lo BY <1>1
  <2> QED BY <2>2, <2>3
<1>5. ASSUME NEW h \in Nat, h \in Good PROVE h + 1 \in Good
  <2> DEFINE k == lo + (h + 1)
             a == f[k - 1]
  <2> SUFFICES ASSUME k <= hi PROVE Full(f[k], k) OBVIOUS
  <2>1. /\ k \in lo .. hi /\ k # lo /\ k - 1 \in Nat /\ k - 1 < hi /\ k - 1 = lo + h
        /\ k \in Nat /\ lo < k /\ (k - 1) + 1 = k
    BY <1>1
  <2> HIDE DEF k
  <2>2. Full(a, k - 1)
    <3>1. lo + h <= hi BY <1>1, <2>1
    <3>2. Full(f[lo + h], lo + h) BY <1>5, <3>1
    <3> HIDE DEF Full
    <3> QED BY <2>1, <3>2
  <2>3. f[k] = IF b.start + (k - 1) * Dur(b) <= t THEN Fire(a, k - 1, ok) ELSE a
    BY <1>3, <2>1 DEF Entry
  <2> HIDE DEF a
  <2>4. CASE f[k] = Fire(a, k - 1, ok)
    <3>1. /\ Worked(b, n, f[k]) /\ f[k].book.slicesDone = k
          /\ k = hi /\ k - 1 \in ok => Left(f[k].book) = 0
      BY <2>1, <2>2, <2>4, FireWorks
    <3>2. 0 .. hi \subseteq ok => k - 1 \in ok BY <1>1, <2>1
    <3> QED BY <2>1, <3>1, <3>2
  <2>5. CASE f[k] = a
    <3>1. a.book.slicesDone <= k - 1 /\ a.book.slicesDone \in Nat
      BY <2>2 DEF Worked, Grows, Books
    <3>2. a.book.slicesDone # hi BY <1>1, <2>1, <3>1
    <3> QED BY <2>1, <2>2, <2>5, <3>1, <3>2
  <2> QED BY <2>3, <2>4, <2>5
<1> HIDE DEF Good
<1>6. hi - lo \in Nat /\ lo + (hi - lo) = hi BY <1>1
<1>7. hi - lo \in Good BY <1>4, <1>5, <1>6, NumberInduction
<1> DEFINE w == f[hi].book
           c == FireSlices(b, t, n + 1, ok)
           d == w.filled >= w.qty
<1>8. Full(f[hi], hi) BY <1>1, <1>6, <1>7 DEF Good
<1>9. c = [w EXCEPT !.done = d] BY FireIsTable DEF f
<1> HIDE DEF c, d, w
<1>10. PICK m \in Nat : Grows(b, w, n, m)
  BY <1>8 DEF Worked, w, Grows
<1>11. d \in BOOLEAN BY DEF d
<1>12. /\ c \in Books /\ c.children = w.children /\ c.slicesDone = w.slicesDone
       /\ c.qty = w.qty /\ c.slices = w.slices /\ c.filled = w.filled
       /\ c.deadlineDone = w.deadlineDone /\ c.done = d
  BY <1>9, <1>10, <1>11 DEF Grows, Books
<1>13. Kids(c) = Kids(w) /\ Inflight(c) = Inflight(w) BY <1>12 DEF Kids, Inflight
<1>14. Grows(b, c, n, m) BY <1>10, <1>12, <1>13 DEF Grows
<1>15. Room(w) /\ w.deadlineDone = b.deadlineDone BY <1>8 DEF Worked, w
<1>16. Room(c) BY <1>12, <1>13, <1>15 DEF Room
<1>17. c.done <=> c.filled >= c.qty BY <1>12 DEF d
<1>18. ASSUME lo < hi, c.slicesDone = hi, 0 .. hi \subseteq ok PROVE Left(c) = 0
  <2>1. Left(w) = 0 BY <1>8, <1>12, <1>18 DEF w
  <2> QED BY <1>12, <1>13, <2>1 DEF Left
<1> QED BY <1>12, <1>14, <1>15, <1>16, <1>17, <1>18 DEF c

(* The crossing order at the deadline. *)
LEMMA CrossGrows ==
  ASSUME NEW b, NEW n, Older(b, n), NEW residual \in Int, NEW ok
  PROVE  LET c == Cross(b, residual, n + 1, ok)
         IN  /\ \E m \in Nat : Grows(b, c, n, m)
             /\ c.deadlineDone = TRUE /\ c.done = b.done /\ c.slicesDone = b.slicesDone
             /\ Room(b) /\ residual <= Left(b) => Room(c)
<1> DEFINE d == [b EXCEPT !.deadlineDone = TRUE]
           c == Cross(b, residual, n + 1, ok)
<1>1. b \in Books /\ n \in Nat /\ Kids(b) \subseteq 1 .. n /\ b.slicesDone <= b.slices
  BY DEF Older
<1>2. /\ d \in Books /\ d.children = b.children /\ d.slicesDone = b.slicesDone
      /\ d.qty = b.qty /\ d.slices = b.slices /\ d.filled = b.filled
      /\ d.deadlineDone = TRUE /\ d.done = b.done
  BY <1>1 DEF Books
<1>3. c = IF residual > 0 /\ 0 \in ok THEN WithChild(d, n + 1, residual) ELSE d
  BY DEF Cross
<1> HIDE DEF c, d
<1>4. Kids(d) = Kids(b) /\ Inflight(d) = Inflight(b) BY <1>2 DEF Kids, Inflight
<1>5. CASE residual > 0 /\ 0 \in ok
  <2>1. residual \in Left1 /\ n + 1 \notin Kids(d) /\ n + 1 \in Nat
    BY <1>1, <1>4, <1>5 DEF Left1
  <2>2. /\ c \in Books /\ Kids(c) = Kids(d) \cup {n + 1}
        /\ \A j \in Kids(d) : c.children[j] = d.children[j]
        /\ Inflight(c) = Inflight(d) + residual
        /\ c.qty = d.qty /\ c.slices = d.slices /\ c.filled = d.filled
        /\ c.slicesDone = d.slicesDone /\ c.deadlineDone = d.deadlineDone
        /\ c.done = d.done
    BY <1>2, <1>3, <1>5, <2>1, ChildAdded
  <2>3. Grows(b, c, n, n + 1)
    <3>1. n + 1 .. n + 1 = {n + 1} /\ n + 1 \in Nat /\ n + 1 >= n BY <1>1
    <3> QED BY <1>1, <1>2, <1>4, <2>2, <3>1 DEF Grows
  <2>4. Room(b) /\ residual <= Left(b) => Room(c)
    <3>1. /\ b.qty \in Nat /\ b.filled \in Nat /\ Inflight(b) \in Nat
      BY <1>1, InflightIs DEF Books
    <3> QED BY <1>2, <1>4, <2>2, <3>1 DEF Room, Left
  <2> QED BY <1>1, <1>2, <2>2, <2>3, <2>4 DEF c
<1>6. CASE ~(residual > 0 /\ 0 \in ok)
  <2>1. c = d BY <1>3, <1>6
  <2>2. Grows(b, c, n, n)
    <3>1. n + 1 .. n = {} /\ n >= n BY <1>1
    <3> QED BY <1>1, <1>2, <1>4, <2>1, <3>1 DEF Grows
  <2>3. Room(b) => Room(c) BY <1>2, <1>4, <2>1 DEF Room
  <2> QED BY <1>1, <1>2, <2>1, <2>2, <2>3 DEF c
<1> QED BY <1>5, <1>6

(* A TWAP's timer sends children of no more than what is left, is done only *)
(* with none working, and past the end sends at most the crossing order.    *)
LEMMA TimerGrows ==
  ASSUME NEW b, NEW n, Older(b, n), Room(b), NEW t \in Int, NEW ok
  PROVE  LET c == TwapTimer(b, t, n + 1, ok)
         IN  /\ \E m \in Nat : Grows(b, c, n, m)
             /\ Room(c)
             /\ t < End => c.deadlineDone = b.deadlineDone
             /\ b.done \/ (t >= End /\ b.deadlineDone) => Kids(c) = Kids(b)
             /\ c.done => b.done \/ Kids(c) = {}
             /\ ~(t < End) => c.slicesDone = b.slicesDone
<1> DEFINE c == TwapTimer(b, t, n + 1, ok)
<1>1. b \in Books /\ n \in Nat /\ Kids(b) \subseteq 1 .. n /\ b.slicesDone <= b.slices
  BY DEF Older
<1>2. End \in Nat BY AlgoAssumption DEF AlgoAssumption
<1>3. Grows(b, b, n, n)
  <2>1. n + 1 .. n = {} /\ n >= n BY <1>1
  <2> QED BY <1>1, <2>1 DEF Grows
<1>4. CASE b.done
  <2>1. c = b BY <1>4 DEF TwapTimer
  <2> HIDE DEF c
  <2> QED BY <1>1, <1>3, <1>4, <2>1 DEF c
<1>5. CASE ~b.done /\ t < End
  <2>1. c = FireSlices(b, t, n + 1, ok) BY <1>5 DEF TwapTimer
  <2> HIDE DEF c
  <2>2. /\ \E m \in Nat : Grows(b, c, n, m)
        /\ Room(c) /\ c.deadlineDone = b.deadlineDone
        /\ c.done <=> c.filled >= c.qty
    BY <2>1, FireSlicesGrows
  <2>3. c.done => Kids(c) = {}
    <3>1. c \in Books BY <2>2 DEF Grows
    <3>2. c.qty \in Nat /\ c.filled \in Nat /\ Inflight(c) \in Nat
      BY <3>1, InflightIs DEF Books
    <3>3. c.done => Inflight(c) = 0 BY <2>2, <3>2 DEF Room
    <3> QED BY <3>1, <3>3, InflightIs
  <2>4. ~(t >= End) BY <1>2, <1>5
  <2> QED BY <1>5, <2>2, <2>3, <2>4 DEF c
<1>6. CASE ~b.done /\ ~(t < End)
  <2> DEFINE w == IF b.deadlineDone THEN b ELSE Cross(b, Left(b), n + 1, ok)
             e == (Inflight(w) = 0)
  <2>1. c = [w EXCEPT !.done = e] BY <1>6 DEF TwapTimer
  <2>2. (\E m \in Nat : Grows(b, w, n, m)) /\ Room(w) /\ w.slicesDone = b.slicesDone
    <3>1. CASE b.deadlineDone BY <1>1, <1>3, <3>1
    <3>2. CASE ~b.deadlineDone
      <4>1. Left(b) \in Int /\ Left(b) <= Left(b) BY <1>1, RemainingIs
      <4>2. w = Cross(b, Left(b), n + 1, ok) BY <3>2
      <4> HIDE DEF w
      <4> QED BY <4>1, <4>2, CrossGrows
    <3> QED BY <3>1, <3>2
  <2>3. b.deadlineDone => w = b OBVIOUS
  <2> HIDE DEF c, w, e
  <2>4. PICK m \in Nat : Grows(b, w, n, m) BY <2>2
  <2>5. e \in BOOLEAN /\ w \in Books BY <2>4 DEF e, Grows
  <2>6. /\ c \in Books /\ c.children = w.children /\ c.slicesDone = w.slicesDone
        /\ c.qty = w.qty /\ c.slices = w.slices /\ c.filled = w.filled
        /\ c.deadlineDone = w.deadlineDone /\ c.done = e
    BY <2>1, <2>5 DEF Books
  <2>7. Kids(c) = Kids(w) /\ Inflight(c) = Inflight(w) BY <2>6 DEF Kids, Inflight
  <2>8. Grows(b, c, n, m) BY <2>4, <2>6, <2>7 DEF Grows
  <2>9. Room(c) BY <2>2, <2>6, <2>7 DEF Room
  <2>10. c.done => Kids(c) = {} BY <2>5, <2>6, <2>7, InflightIs DEF e
  <2>11. c.slicesDone = b.slicesDone BY <2>2, <2>6
  <2> QED BY <1>6, <2>3, <2>7, <2>8, <2>9, <2>10, <2>11 DEF c
<1> QED BY <1>4, <1>5, <1>6

-----------------------------------------------------------------------------
(* The inductive invariant. *)

OrderType == [rem : Left1, ioc : BOOLEAN, cancel : {"none", "sent", "failed"}]

Typed ==
  /\ kind \in Kinds /\ now \in Int /\ now <= End
  /\ algo \in Books /\ held \in Books
  /\ degraded \in BOOLEAN /\ incomplete \in BOOLEAN
  /\ market \in Nat /\ sent \in Nat /\ executed \in Nat
  /\ open \in [DOMAIN open -> OrderType]

(* What never changes, and how the kinds of parent differ. *)
Settings ==
  /\ algo.qty = Qty /\ algo.slices = Slices
  /\ algo.slicesDone <= algo.slices /\ held.slicesDone <= held.slices
  /\ kind = "twap" => ~degraded
  /\ ~degraded => Kids(held) = {}
  /\ algo.deadlineDone => now = End

(* The open orders are the children of the two books. *)
Agree ==
  /\ Kids(algo) \cap Kids(held) = {}
  /\ DOMAIN open = Kids(algo) \cup Kids(held) /\ DOMAIN open \subseteq 1 .. sent
  /\ \A i \in Kids(algo) : algo.children[i] = open[i].rem
  /\ \A i \in Kids(held) : held.children[i] = open[i].rem
  /\ algo.filled = executed

(* What a POV hands to the TWAP it degrades to it does not work itself. *)
Bounds ==
  /\ Room(held)
  /\ kind = "twap" \/ (~degraded /\ ~algo.deadlineDone) => Room(algo)
  /\ degraded => algo.filled + Inflight(algo) + (held.qty - held.filled) <= Qty

Reported ==
  /\ ~degraded => (incomplete <=> (algo.done /\ algo.filled < Qty))
  /\ ~degraded /\ algo.done /\ algo.filled < Qty => DOMAIN open = {}
  /\ kind = "twap" /\ algo.done => DOMAIN open = {}

IndInv == Typed /\ Settings /\ Agree /\ Bounds /\ Reported /\ DeadlineCancels

-----------------------------------------------------------------------------
(* The order path after a call. *)

Safe(o) == o.ioc \/ o.cancel # "none"

(* A cancel that goes out, or fails. *)
Marked(o, out) ==
  [o EXCEPT !.cancel = IF out THEN "sent" ELSE IF @ = "none" THEN "failed" ELSE @]

(* It is an order still, of the same quantity, and safe. *)
LEMMA MarkedIsSafe ==
  ASSUME NEW o \in OrderType, NEW out
  PROVE  Marked(o, out) \in OrderType /\ Marked(o, out).rem = o.rem /\ Safe(Marked(o, out))
<1> DEFINE w == IF out THEN "sent" ELSE IF o.cancel = "none" THEN "failed" ELSE o.cancel
<1>1. Marked(o, out) = [o EXCEPT !.cancel = w] BY DEF Marked
<1>2. w \in {"none", "sent", "failed"} /\ w # "none" BY DEF OrderType
<1> HIDE DEF w
<1> QED BY <1>1, <1>2 DEF OrderType, Safe

(* The open orders after a call that left the books a and h, which have     *)
(* further children numbered from sent + 1 to m.                            *)
LEMMA OrdersFollow ==
  ASSUME Typed, Agree, NEW a \in Books, NEW h \in Books, NEW m \in Nat, m >= sent,
         Kids(a) \cap Kids(h) = {},
         Kids(a) \cup Kids(h) = DOMAIN open \cup (sent + 1 .. m),
         Kids(algo) \subseteq Kids(a), Kids(held) \subseteq Kids(h),
         \A i \in Kids(algo) : a.children[i] = algo.children[i],
         \A i \in Kids(held) : h.children[i] = held.children[i],
         NEW cancelled, NEW refused, OrdersFrom(a, h, cancelled, refused)
  PROVE  /\ sent' = m /\ open' \in [DOMAIN open' -> OrderType]
         /\ DOMAIN open' = Kids(a) \cup Kids(h) /\ DOMAIN open' \subseteq 1 .. sent'
         /\ \A i \in Kids(a) : a.children[i] = open'[i].rem
         /\ \A i \in Kids(h) : h.children[i] = open'[i].rem
         /\ \A i \in DOMAIN open' \ DOMAIN open : now' >= End => Safe(open'[i])
         /\ \A i \in DOMAIN open : i \in cancelled \/ Safe(open[i]) => Safe(open'[i])
<1> DEFINE kids == Both(a, h)
           D == DOMAIN open
           N == sent + 1 .. m
           P == D \cup N
           Next1(i) == IF i \notin D THEN [rem |-> kids[i], ioc |-> now' >= End, cancel |-> "none"]
                       ELSE IF i \in cancelled THEN Marked(open[i], i \notin refused) ELSE open[i]
<1>1. /\ DOMAIN kids = P /\ P = Kids(a) \cup Kids(h)
      /\ \A i \in Kids(a) : kids[i] = a.children[i]
      /\ \A i \in Kids(h) : kids[i] = h.children[i]
  BY DEF Both, Kids
<1>2. sent' = sent + Cardinality(DOMAIN kids \ D)
  BY DEF OrdersFrom
<1>3. open' = [i \in P |-> Next1(i)]
  <2>1. D \cup DOMAIN kids = P BY <1>1
  <2>2. open' = [i \in D \cup DOMAIN kids |-> Next1(i)] BY DEF OrdersFrom, Marked
  <2> HIDE DEF Next1
  <2> QED BY <2>1, <2>2
<1>4. sent \in Nat /\ D \subseteq 1 .. sent /\ D = Kids(algo) \cup Kids(held) BY DEF Typed, Agree
<1>5. sent' = m
  <2>1. P \ D = N BY <1>4
  <2>2. Cardinality(N) = m - sent
    <3>1. sent + 1 \in Int /\ m \in Int BY <1>4
    <3>2. Cardinality(N) = IF sent + 1 > m THEN 0 ELSE m - (sent + 1) + 1
      BY <3>1, FS_Interval
    <3> QED BY <1>4, <3>2
  <2>3. DOMAIN kids \ D = N BY <1>1, <2>1
  <2>4. sent' = sent + Cardinality(N) BY <1>2, <2>3
  <2> HIDE DEF N
  <2> QED BY <1>4, <2>2, <2>4
<1>6. \A i \in D : open[i] \in OrderType /\ kids[i] = open[i].rem
  <2>1. \A i \in D : open[i] \in OrderType BY DEF Typed
  <2>2. \A i \in Kids(algo) : kids[i] = open[i].rem BY <1>1 DEF Agree
  <2>3. \A i \in Kids(held) : kids[i] = open[i].rem BY <1>1 DEF Agree
  <2> QED BY <1>4, <2>1, <2>2, <2>3
<1>7. \A i \in P : kids[i] \in Left1
  <2>1. \A i \in Kids(a) : a.children[i] \in Left1 BY InflightIs
  <2>2. \A i \in Kids(h) : h.children[i] \in Left1 BY InflightIs
  <2> HIDE DEF kids, P
  <2> QED BY <1>1, <2>1, <2>2
<1> HIDE DEF kids, P
<1>8. ASSUME NEW i \in P
      PROVE  /\ Next1(i) \in OrderType /\ Next1(i).rem = kids[i]
             /\ i \notin D /\ now' >= End => Safe(Next1(i))
             /\ i \in D /\ (i \in cancelled \/ Safe(open[i])) => Safe(Next1(i))
  <2>1. CASE i \notin D
    <3> DEFINE e == (now' >= End)
    <3>1. Next1(i) = [rem |-> kids[i], ioc |-> e, cancel |-> "none"] /\ e \in BOOLEAN
      BY <2>1
    <3> HIDE DEF e, Next1
    <3>2. /\ Next1(i) \in OrderType /\ Next1(i).rem = kids[i] /\ Next1(i).ioc = e
      BY <1>7, <3>1 DEF OrderType
    <3>3. e => Safe(Next1(i)) BY <3>2 DEF Safe
    <3> QED BY <2>1, <3>2, <3>3 DEF e
  <2>2. CASE i \in D /\ i \in cancelled
    <3>1. Next1(i) = Marked(open[i], i \notin refused) BY <2>2
    <3> HIDE DEF Next1
    <3> QED BY <1>6, <2>2, <3>1, MarkedIsSafe
  <2>3. CASE i \in D /\ i \notin cancelled
    <3>1. Next1(i) = open[i] BY <2>3
    <3> HIDE DEF Next1
    <3> QED BY <1>6, <2>3, <3>1
  <2> QED BY <2>1, <2>2, <2>3
<1> HIDE DEF Next1
<1>9. DOMAIN open' = P /\ \A i \in P : open'[i] = Next1(i) BY <1>3
<1>10. open' = [i \in DOMAIN open' |-> open'[i]] BY <1>3
<1>11. open' \in [DOMAIN open' -> OrderType] BY <1>8, <1>9, <1>10
<1>12. P \subseteq 1 .. m BY <1>4 DEF P
<1>13. D \subseteq P BY DEF P
<1>14. /\ \A i \in Kids(a) : a.children[i] = open'[i].rem
       /\ \A i \in Kids(h) : h.children[i] = open'[i].rem
  BY <1>1, <1>8, <1>9
<1>15. \A i \in P \ D : now' >= End => Safe(open'[i]) BY <1>8, <1>9
<1>16. \A i \in D : i \in cancelled \/ Safe(open[i]) => Safe(open'[i])
  BY <1>8, <1>9, <1>13
<1> QED BY <1>1, <1>5, <1>9, <1>11, <1>12, <1>14, <1>15, <1>16

-----------------------------------------------------------------------------
(* Each action keeps the invariant. *)

(* The books between two calls. *)
LEMMA BooksAreOlder ==
  ASSUME IndInv
  PROVE  /\ Older(algo, sent) /\ Older(held, sent) /\ Room(held)
         /\ algo.qty \in Nat /\ algo.filled \in Nat /\ Inflight(algo) \in Nat
         /\ held.qty \in Nat /\ held.filled \in Nat /\ Inflight(held) \in Nat
         /\ Qty \in Nat \ {0} /\ End \in Nat \ {0}
<1>1. algo \in Books /\ held \in Books /\ sent \in Nat BY DEF IndInv, Typed
<1>2. /\ Kids(algo) \subseteq 1 .. sent /\ Kids(held) \subseteq 1 .. sent
      /\ algo.slicesDone <= algo.slices /\ held.slicesDone <= held.slices
  BY DEF IndInv, Agree, Settings
<1>3. /\ algo.qty \in Nat /\ algo.filled \in Nat /\ Inflight(algo) \in Nat
      /\ held.qty \in Nat /\ held.filled \in Nat /\ Inflight(held) \in Nat
  BY <1>1, InflightIs DEF Books
<1>4. Qty \in Nat \ {0} /\ End \in Nat \ {0} BY AlgoAssumption DEF AlgoAssumption
<1> QED BY <1>1, <1>2, <1>3, <1>4 DEF Older, IndInv, Bounds

(* on_timer() of a TWAP. *)
LEMMA TwapOnTimerKeepsInv ==
  ASSUME IndInv, NEW t \in 0 .. End, NEW ok, TwapOnTimer(t, ok)
  PROVE  IndInv'
<1>1. /\ kind = "twap" /\ ~algo.done /\ now' = t /\ (t > now \/ t = End)
      /\ algo' = TwapTimer(algo, t, sent + 1, ok)
      /\ incomplete' = (algo'.done /\ algo'.filled < Qty)
      /\ kind' = kind /\ held' = held /\ degraded' = degraded /\ market' = market
      /\ executed' = executed
  BY DEF TwapOnTimer, At
<1>2. /\ ~degraded /\ Kids(held) = {} /\ Room(algo) /\ algo.qty = Qty
      /\ algo.slices = Slices
  BY <1>1 DEF IndInv, Settings, Bounds
<1>3. t \in Int /\ End \in Int /\ t <= End
  BY AlgoAssumption DEF AlgoAssumption
<1>4. /\ \E m \in Nat : Grows(algo, algo', sent, m)
      /\ Room(algo')
      /\ t < End => algo'.deadlineDone = algo.deadlineDone
      /\ algo.done \/ (t >= End /\ algo.deadlineDone) => Kids(algo') = Kids(algo)
      /\ algo'.done => algo.done \/ Kids(algo') = {}
  BY <1>1, <1>2, <1>3, BooksAreOlder, TimerGrows
<1>5. PICK m \in Nat : Grows(algo, algo', sent, m) BY <1>4
<1>6. PICK refused : OrdersFrom(algo', held, Overdue(algo, t), refused)
  BY DEF TwapOnTimer
<1>7. /\ sent' = m /\ open' \in [DOMAIN open' -> OrderType]
      /\ DOMAIN open' = Kids(algo') /\ DOMAIN open' \subseteq 1 .. sent'
      /\ \A i \in Kids(algo') : algo'.children[i] = open'[i].rem
      /\ \A i \in DOMAIN open' \ DOMAIN open : now' >= End => Safe(open'[i])
      /\ \A i \in DOMAIN open : i \in Overdue(algo, t) \/ Safe(open[i]) => Safe(open'[i])
  <2>1. /\ algo' \in Books /\ held \in Books /\ m >= sent
        /\ Kids(algo') = Kids(algo) \cup (sent + 1 .. m)
        /\ \A i \in Kids(algo) : algo'.children[i] = algo.children[i]
    BY <1>5 DEF Grows, IndInv, Typed
  <2>2. DOMAIN open = Kids(algo) BY <1>2 DEF IndInv, Agree
  <2>3. /\ Typed /\ Agree /\ Kids(algo') \cap Kids(held) = {}
        /\ Kids(algo') \cup Kids(held) = DOMAIN open \cup (sent + 1 .. m)
        /\ Kids(algo) \subseteq Kids(algo') /\ Kids(held) \subseteq Kids(held)
        /\ \A i \in Kids(held) : held.children[i] = held.children[i]
    BY <1>2, <2>1, <2>2 DEF IndInv
  <2>4. DOMAIN open' = Kids(algo') \cup Kids(held)
    BY <1>6, <2>1, <2>3, OrdersFollow
  <2>5. /\ sent' = m /\ open' \in [DOMAIN open' -> OrderType]
        /\ DOMAIN open' \subseteq 1 .. sent'
        /\ \A i \in Kids(algo') : algo'.children[i] = open'[i].rem
        /\ \A i \in DOMAIN open' \ DOMAIN open : now' >= End => Safe(open'[i])
        /\ \A i \in DOMAIN open : i \in Overdue(algo, t) \/ Safe(open[i]) => Safe(open'[i])
    BY <1>6, <2>1, <2>3, OrdersFollow
  <2> QED BY <1>2, <2>4, <2>5
<1>8. Typed'
  <2>1. algo' \in Books BY <1>5 DEF Grows
  <2>2. kind \in Kinds /\ held \in Books /\ degraded \in BOOLEAN /\ market \in Nat
        /\ executed \in Nat
    BY DEF IndInv, Typed
  <2>3. incomplete' \in BOOLEAN BY <1>1
  <2> QED BY <1>1, <1>3, <1>7, <2>1, <2>2, <2>3 DEF Typed
<1>9. Settings'
  <2>1. algo'.qty = Qty /\ algo'.slices = Slices /\ algo'.slicesDone <= algo'.slices
    BY <1>2, <1>5 DEF Grows
  <2>2. algo'.deadlineDone => now' = End
    BY <1>1, <1>3, <1>4 DEF IndInv, Settings, Typed
  <2>3. held'.slicesDone <= held'.slices BY <1>1 DEF IndInv, Settings
  <2> QED BY <1>1, <1>2, <2>1, <2>2, <2>3 DEF Settings
<1>10. Agree'
  <2>1. algo'.filled = executed' BY <1>1, <1>5 DEF Grows, IndInv, Agree
  <2> QED BY <1>1, <1>2, <1>7, <2>1 DEF Agree
<1>11. Bounds'
  BY <1>1, <1>2, <1>4 DEF IndInv, Bounds
<1>12. Reported'
  BY <1>1, <1>2, <1>4, <1>7 DEF Reported
<1>13. DeadlineCancels'
  <2>1. SUFFICES ASSUME algo'.deadlineDone, NEW i \in DOMAIN open' PROVE Safe(open'[i])
    BY DEF DeadlineCancels, AllCancelled, Safe
  <2>2. now' = End /\ t = End BY <1>1, <1>9, <2>1 DEF Settings
  <2>3. now' >= End BY <1>3, <2>2
  <2>4. CASE i \notin DOMAIN open BY <1>7, <2>3, <2>4
  <2>5. CASE i \in DOMAIN open
    <3>1. CASE algo.deadlineDone
      <4>1. Safe(open[i])
        BY <1>2, <2>5, <3>1 DEF IndInv, DeadlineCancels, AllCancelled, Safe
      <4> QED BY <1>7, <2>5, <4>1
    <3>2. CASE ~algo.deadlineDone
      <4>1. i \in Kids(algo) BY <1>2, <2>5 DEF IndInv, Agree
      <4>2. i \in Overdue(algo, t) BY <1>1, <1>3, <2>2, <3>2, <4>1 DEF Overdue, Kids
      <4> QED BY <1>7, <2>5, <4>2
    <3> QED BY <3>1, <3>2
  <2> QED BY <2>4, <2>5
<1> QED BY <1>8, <1>9, <1>10, <1>11, <1>12, <1>13 DEF IndInv

(* A book just made. *)
LEMMA NewBook ==
  ASSUME NEW q \in Nat, NEW s \in Nat, NEW k \in Nat \ {0}, NEW b, b = Book(q, s, k)
  PROVE  /\ b \in Books /\ Kids(b) = {} /\ Inflight(b) = 0
         /\ b.qty = q /\ b.slices = k /\ b.filled = 0 /\ b.slicesDone = 0
         /\ ~b.deadlineDone /\ ~b.done
<1>1. DOMAIN NoOrders = {} /\ NoOrders = [i \in DOMAIN NoOrders |-> NoOrders[i]] BY DEF NoOrders
<1>2. NoOrders \in Tables BY <1>1, FS_EmptySet, TableIs
<1>3. /\ b.children = NoOrders /\ b.qty = q /\ b.slices = k /\ b.filled = 0
      /\ b.slicesDone = 0 /\ ~b.deadlineDone /\ ~b.done
  BY DEF Book
<1>4. b \in Books BY <1>2 DEF Book, Books, Left1
<1>5. Kids(b) = {} BY <1>1, <1>3 DEF Kids
<1>6. Inflight(b) = 0 BY <1>4, <1>5, InflightIs
<1> QED BY <1>3, <1>4, <1>5, <1>6

(* A book whose parent is marked done, or not. *)
LEMMA MarkedDone ==
  ASSUME NEW a \in Books, NEW e \in BOOLEAN
  PROVE  LET c == [a EXCEPT !.done = e]
         IN  /\ c \in Books /\ Kids(c) = Kids(a) /\ Inflight(c) = Inflight(a)
             /\ c.children = a.children /\ c.qty = a.qty /\ c.slices = a.slices
             /\ c.filled = a.filled /\ c.slicesDone = a.slicesDone
             /\ c.deadlineDone = a.deadlineDone /\ c.done = e
<1> DEFINE c == [a EXCEPT !.done = e]
<1>1. /\ c \in Books
      /\ c.children = a.children /\ c.qty = a.qty /\ c.slices = a.slices
      /\ c.filled = a.filled /\ c.slicesDone = a.slicesDone
      /\ c.deadlineDone = a.deadlineDone /\ c.done = e
  BY DEF Books
<1> HIDE DEF c
<1>2. Kids(c) = Kids(a) /\ Inflight(c) = Inflight(a) BY <1>1 DEF Kids, Inflight
<1> QED BY <1>1, <1>2 DEF c

(* A timer of a POV whose TWAP works: the open orders after a call in which *)
(* only the TWAP's book grew.                                               *)
LEMMA HeldGrows ==
  ASSUME IndInv, NEW m \in Nat, Grows(held, held', sent, m), Room(held'),
         algo' \in Books, algo'.children = algo.children, algo'.qty = algo.qty,
         algo'.slices = algo.slices, algo'.filled = algo.filled,
         algo'.slicesDone = algo.slicesDone,
         algo'.deadlineDone => now' = End,
         kind' = kind, kind # "twap", degraded' = degraded, degraded,
         market' = market, executed' = executed,
         now' \in Int, now' <= End, incomplete' \in BOOLEAN,
         NEW cancelled, NEW refused, OrdersFrom(algo', held', cancelled, refused)
  PROVE  IndInv'
<1>1. Typed /\ Settings /\ Agree /\ Bounds BY DEF IndInv
<1>2. Kids(algo') = Kids(algo) /\ Inflight(algo') = Inflight(algo) BY DEF Kids, Inflight
<1>3. /\ held' \in Books /\ m >= sent
      /\ Kids(held') = Kids(held) \cup (sent + 1 .. m)
      /\ \A i \in Kids(held) : held'.children[i] = held.children[i]
      /\ held'.qty = held.qty /\ held'.slices = held.slices /\ held'.filled = held.filled
      /\ held'.slicesDone <= held'.slices
  BY DEF Grows
<1>4. /\ DOMAIN open = Kids(algo) \cup Kids(held) /\ Kids(algo) \cap Kids(held) = {}
      /\ DOMAIN open \subseteq 1 .. sent /\ sent \in Nat
  BY <1>1 DEF Agree, Typed
<1>5. Kids(algo') \cap Kids(held') = {}
  <2>1. \A i \in Kids(algo) : i \notin sent + 1 .. m BY <1>4
  <2> QED BY <1>2, <1>3, <1>4, <2>1
<1>6. /\ Kids(algo') \cup Kids(held') = DOMAIN open \cup (sent + 1 .. m)
      /\ Kids(algo) \subseteq Kids(algo') /\ Kids(held) \subseteq Kids(held')
      /\ \A i \in Kids(algo) : algo'.children[i] = algo.children[i]
  BY <1>2, <1>3, <1>4
<1>7. /\ sent' = m /\ open' \in [DOMAIN open' -> OrderType]
      /\ DOMAIN open' = Kids(algo') \cup Kids(held') /\ DOMAIN open' \subseteq 1 .. sent'
      /\ \A i \in Kids(algo') : algo'.children[i] = open'[i].rem
      /\ \A i \in Kids(held') : held'.children[i] = open'[i].rem
  BY <1>1, <1>3, <1>5, <1>6, OrdersFollow
<1>8. Typed' BY <1>1, <1>3, <1>7 DEF Typed
<1>9. Settings' BY <1>1, <1>3 DEF Settings
<1>10. Agree' BY <1>1, <1>5, <1>7 DEF Agree
<1>11. Bounds' BY <1>1, <1>2, <1>3 DEF Bounds
<1>12. Reported' /\ DeadlineCancels' BY DEF Reported, DeadlineCancels
<1> QED BY <1>8, <1>9, <1>10, <1>11, <1>12 DEF IndInv

(* on_timer() of a POV at the deadline, with a TWAP that works. *)
LEMMA HeldDeadlineKeepsInv ==
  ASSUME IndInv, NEW ok, PovDeadline(ok), degraded
  PROVE  IndInv'
<1> DEFINE theirs == IF ~algo.deadlineDone THEN Overdue(held, End) ELSE {}
           a == [algo EXCEPT !.deadlineDone = TRUE]
           e == (Inflight(a) + Inflight(held') = 0)
           mine == IF ~algo.deadlineDone /\ ~degraded THEN DOMAIN algo.children ELSE {}
<1>1. /\ kind = "pov" /\ now' = End
      /\ held' = IF ~algo.deadlineDone THEN TwapTimer(held, End, sent + 1, ok) ELSE held
      /\ algo' = [a EXCEPT !.done = e] /\ incomplete' = (algo'.done /\ a.filled < Qty)
      /\ kind' = kind /\ degraded' = degraded /\ market' = market /\ executed' = executed
      /\ \E refused : OrdersFrom(algo', held', mine \cup theirs, refused)
  BY DEF PovDeadline, At, Settled, HeldTimer
<1>2. PICK refused : OrdersFrom(algo', held', mine \cup theirs, refused) BY <1>1
<1>3. algo \in Books /\ End \in Int BY AlgoAssumption DEF AlgoAssumption, IndInv, Typed
<1>4. /\ a \in Books /\ a.children = algo.children /\ a.qty = algo.qty /\ a.slices = algo.slices
      /\ a.filled = algo.filled /\ a.slicesDone = algo.slicesDone
  BY <1>3 DEF Books
<1>5. e \in BOOLEAN OBVIOUS
<1> HIDE DEF a, e, theirs, mine
<1>6. /\ algo' \in Books /\ algo'.children = algo.children /\ algo'.qty = algo.qty
      /\ algo'.slices = algo.slices /\ algo'.filled = algo.filled
      /\ algo'.slicesDone = algo.slicesDone
  BY <1>1, <1>4, <1>5, MarkedDone
<1>7. (\E m \in Nat : Grows(held, held', sent, m)) /\ Room(held')
  <2>1. Older(held, sent) /\ Room(held) BY BooksAreOlder
  <2>2. CASE ~algo.deadlineDone BY <1>1, <1>3, <2>1, <2>2, TimerGrows
  <2>3. CASE algo.deadlineDone
    <3>1. held' = held /\ sent \in Nat /\ sent + 1 .. sent = {} /\ sent >= sent
      BY <1>1, <2>1, <2>3 DEF Older
    <3>2. Grows(held, held', sent, sent) BY <2>1, <3>1 DEF Grows, Older
    <3> QED BY <2>1, <3>1, <3>2
  <2> QED BY <2>2, <2>3
<1>8. PICK m \in Nat : Grows(held, held', sent, m) BY <1>7
<1>9. incomplete' \in BOOLEAN /\ now' \in Int /\ now' <= End BY <1>1, <1>3
<1> QED BY <1>1, <1>2, <1>6, <1>7, <1>8, <1>9, HeldGrows

(* on_timer() of a POV whose TWAP works, before the deadline. *)
LEMMA DegradedTimerKeepsInv ==
  ASSUME IndInv, NEW t \in 0 .. End, NEW ok, DegradedTimer(t, ok)
  PROVE  IndInv'
<1>1. /\ kind = "pov" /\ now' = t /\ t < End /\ (t > now \/ t = End) /\ degraded
      /\ held' = TwapTimer(held, t, sent + 1, ok)
      /\ algo' = [algo EXCEPT !.done = held'.done]
      /\ kind' = kind /\ degraded' = degraded /\ market' = market /\ executed' = executed
      /\ incomplete' = incomplete
      /\ OrdersFrom(algo', held', {}, {})
  BY DEF DegradedTimer, At, HeldTimer
<1>2. /\ t \in Int /\ End \in Int /\ now \in Int /\ algo \in Books /\ incomplete \in BOOLEAN
  BY AlgoAssumption DEF AlgoAssumption, IndInv, Typed
<1>3. (\E m \in Nat : Grows(held, held', sent, m)) /\ Room(held')
  <2>1. Older(held, sent) /\ Room(held) BY BooksAreOlder
  <2> QED BY <1>1, <1>2, <2>1, TimerGrows
<1>4. PICK m \in Nat : Grows(held, held', sent, m) BY <1>3
<1>5. held'.done \in BOOLEAN BY <1>4 DEF Grows, Books
<1>6. /\ algo' \in Books /\ algo'.children = algo.children /\ algo'.qty = algo.qty
      /\ algo'.slices = algo.slices /\ algo'.filled = algo.filled
      /\ algo'.slicesDone = algo.slicesDone /\ algo'.deadlineDone = algo.deadlineDone
  BY <1>1, <1>2, <1>5, MarkedDone
<1>7. ~algo.deadlineDone BY <1>1, <1>2 DEF IndInv, Settings
<1>8. /\ incomplete' \in BOOLEAN /\ now' \in Int /\ now' <= End
      /\ algo'.deadlineDone => now' = End
  BY <1>1, <1>2, <1>6, <1>7
<1> QED BY <1>1, <1>3, <1>4, <1>6, <1>8, HeldGrows

(* A timer of a parent without a TWAP of its own: the open orders after a   *)
(* call in which only its own book grew.                                    *)
LEMMA OwnGrows ==
  ASSUME IndInv, ~degraded, NEW m \in Nat, Grows(algo, algo', sent, m),
         Kids(held') = {}, held' \in Books, held'.children = held.children,
         NEW cancelled, NEW refused, OrdersFrom(algo', held', cancelled, refused),
         executed' = executed
  PROVE  /\ sent' = m /\ open' \in [DOMAIN open' -> OrderType]
         /\ DOMAIN open' = Kids(algo') /\ Agree'
         /\ now' >= End /\ (algo.deadlineDone \/ Kids(algo) \subseteq cancelled)
              => \A i \in DOMAIN open' : Safe(open'[i])
         /\ algo.deadlineDone /\ m = sent => \A i \in DOMAIN open' : Safe(open'[i])
<1>1. Typed /\ Agree /\ Kids(held) = {} BY DEF IndInv, Settings
<1>2. /\ algo' \in Books /\ m >= sent
      /\ Kids(algo') = Kids(algo) \cup (sent + 1 .. m)
      /\ \A i \in Kids(algo) : algo'.children[i] = algo.children[i]
      /\ algo'.filled = algo.filled
  BY DEF Grows
<1>3. DOMAIN open = Kids(algo) BY <1>1 DEF Agree
<1>4. /\ Kids(algo') \cap Kids(held') = {}
      /\ Kids(algo') \cup Kids(held') = DOMAIN open \cup (sent + 1 .. m)
      /\ Kids(algo) \subseteq Kids(algo') /\ Kids(held) \subseteq Kids(held')
      /\ \A i \in Kids(held) : held'.children[i] = held.children[i]
  BY <1>1, <1>2, <1>3
<1>5. /\ sent' = m /\ open' \in [DOMAIN open' -> OrderType]
      /\ DOMAIN open' = Kids(algo') \cup Kids(held') /\ DOMAIN open' \subseteq 1 .. sent'
      /\ \A i \in Kids(algo') : algo'.children[i] = open'[i].rem
      /\ \A i \in Kids(held') : held'.children[i] = open'[i].rem
      /\ \A i \in DOMAIN open' \ DOMAIN open : now' >= End => Safe(open'[i])
      /\ \A i \in DOMAIN open : i \in cancelled \/ Safe(open[i]) => Safe(open'[i])
  BY <1>1, <1>2, <1>4, OrdersFollow
<1>6. DOMAIN open' = Kids(algo') BY <1>5
<1>7. Agree' BY <1>1, <1>2, <1>4, <1>5 DEF Agree
<1>8. algo.deadlineDone => \A i \in DOMAIN open : Safe(open[i])
  BY DEF IndInv, DeadlineCancels, AllCancelled, Safe
<1>9. now' >= End /\ (algo.deadlineDone \/ Kids(algo) \subseteq cancelled)
        => \A i \in DOMAIN open' : Safe(open'[i])
  BY <1>3, <1>5, <1>8
<1>10. m = sent => DOMAIN open' = DOMAIN open
  <2>1. sent \in Nat BY <1>1 DEF Typed
  <2>2. m = sent => sent + 1 .. m = {} BY <2>1
  <2> QED BY <1>2, <1>3, <1>6, <2>2
<1> QED BY <1>5, <1>6, <1>7, <1>8, <1>9, <1>10

(* on_timer() of a POV at the deadline, without a TWAP. *)
LEMMA OwnDeadlineKeepsInv ==
  ASSUME IndInv, NEW ok, PovDeadline(ok), ~degraded
  PROVE  IndInv'
<1> DEFINE theirs == IF ~algo.deadlineDone /\ degraded THEN Overdue(held, End) ELSE {}
           a == IF ~algo.deadlineDone THEN Cross(algo, Qty - algo.filled, sent + 1, ok)
                ELSE [algo EXCEPT !.deadlineDone = TRUE]
           e == (Inflight(a) + Inflight(held') = 0)
           mine == IF ~algo.deadlineDone THEN DOMAIN algo.children ELSE {}
<1>1. /\ kind = "pov" /\ now' = End /\ held' = held
      /\ algo' = [a EXCEPT !.done = e] /\ incomplete' = (algo'.done /\ a.filled < Qty)
      /\ kind' = kind /\ degraded' = degraded /\ market' = market /\ executed' = executed
      /\ \E refused : OrdersFrom(algo', held', mine \cup theirs, refused)
  BY DEF PovDeadline, At, Settled
<1>2. PICK refused : OrdersFrom(algo', held', mine \cup theirs, refused) BY <1>1
<1>3. /\ algo \in Books /\ held \in Books /\ End \in Int /\ Qty \in Int /\ algo.filled \in Int
      /\ Older(algo, sent) /\ Kids(held) = {} /\ sent \in Nat
      /\ algo.qty = Qty /\ algo.slices = Slices
  BY BooksAreOlder DEF IndInv, Typed, Settings
<1>4. (\E m \in Nat : Grows(algo, a, sent, m)) /\ a.deadlineDone = TRUE
  <2>1. CASE ~algo.deadlineDone
    <3>1. a = Cross(algo, Qty - algo.filled, sent + 1, ok) /\ Qty - algo.filled \in Int
      BY <1>3, <2>1
    <3> HIDE DEF a
    <3> QED BY <1>3, <3>1, CrossGrows
  <2>2. CASE algo.deadlineDone
    <3>1. a = [algo EXCEPT !.deadlineDone = TRUE] BY <2>2
    <3> HIDE DEF a
    <3>2. /\ a \in Books /\ a.children = algo.children /\ a.qty = algo.qty
          /\ a.slices = algo.slices /\ a.filled = algo.filled
          /\ a.slicesDone = algo.slicesDone /\ a.deadlineDone = TRUE
      BY <1>3, <3>1 DEF Books
    <3>3. sent + 1 .. sent = {} /\ sent >= sent BY <1>3
    <3>4. Kids(a) = Kids(algo) BY <3>2 DEF Kids
    <3>5. Grows(algo, a, sent, sent) BY <1>3, <3>2, <3>3, <3>4 DEF Grows, Older
    <3> QED BY <1>3, <3>2, <3>5
  <2> QED BY <2>1, <2>2
<1> HIDE DEF a
<1>5. PICK m \in Nat : Grows(algo, a, sent, m) BY <1>4
<1>6. a \in Books /\ e \in BOOLEAN BY <1>5 DEF Grows
<1>7. e => Inflight(a) = 0
  <2>1. Inflight(held') = 0 BY <1>1, <1>3, InflightIs
  <2>2. Inflight(a) \in Nat BY <1>6, InflightIs
  <2> QED BY <2>1, <2>2
<1> HIDE DEF e, mine, theirs
<1>8. /\ algo' \in Books /\ Kids(algo') = Kids(a) /\ Inflight(algo') = Inflight(a)
      /\ algo'.children = a.children /\ algo'.qty = a.qty /\ algo'.slices = a.slices
      /\ algo'.filled = a.filled /\ algo'.slicesDone = a.slicesDone
      /\ algo'.deadlineDone = TRUE /\ algo'.done = e
  BY <1>1, <1>4, <1>6, MarkedDone
<1>9. Grows(algo, algo', sent, m) BY <1>5, <1>8 DEF Grows
<1>10. /\ sent' = m /\ open' \in [DOMAIN open' -> OrderType]
       /\ DOMAIN open' = Kids(algo') /\ Agree'
       /\ now' >= End /\ (algo.deadlineDone \/ Kids(algo) \subseteq mine \cup theirs)
            => \A i \in DOMAIN open' : Safe(open'[i])
  BY <1>1, <1>2, <1>3, <1>9, OwnGrows
<1>11. Typed'
  BY <1>1, <1>3, <1>5, <1>8, <1>10 DEF Typed, IndInv
<1>12. Settings'
  BY <1>1, <1>3, <1>9 DEF Settings, IndInv, Grows
<1>13. Bounds' BY <1>1, <1>8 DEF Bounds, IndInv
<1>14. Reported'
  <2>1. algo'.done => DOMAIN open' = {}
    <3>1. algo'.done => Inflight(algo') = 0 BY <1>7, <1>8
    <3> QED BY <1>8, <1>10, <3>1, InflightIs
  <2> QED BY <1>1, <1>8, <2>1 DEF Reported
<1>15. DeadlineCancels'
  <2>1. now' >= End BY <1>1, <1>3
  <2>2. algo.deadlineDone \/ Kids(algo) \subseteq mine \cup theirs BY DEF mine, Kids
  <2>3. \A i \in DOMAIN open' : Safe(open'[i]) BY <1>10, <2>1, <2>2
  <2> QED BY <2>3 DEF DeadlineCancels, AllCancelled, Safe
<1> QED BY <1>10, <1>11, <1>12, <1>13, <1>14, <1>15 DEF IndInv

(* What a POV without a TWAP satisfies before the deadline. *)
LEMMA PovBeforeTheEnd ==
  ASSUME IndInv, NEW t \in 0 .. End, NEW vol \in Volumes, NEW ok, PovTimer(t, vol, ok)
  PROVE  /\ kind = "pov" /\ now' = t /\ t \in Nat /\ End \in Int /\ t <= End
         /\ ~algo.done /\ ~algo.deadlineDone /\ Room(algo) /\ ~degraded
         /\ market' \in Nat /\ Share(vol) \in Nat /\ degraded' \in BOOLEAN
         /\ kind' = kind /\ incomplete' = incomplete /\ executed' = executed
         /\ OrdersFrom(algo', held', {}, {})
<1>1. /\ kind = "pov" /\ now' = t /\ t < End /\ (t > now \/ t = End) /\ ~algo.done
      /\ ~degraded /\ market' = market + vol
      /\ degraded' = (~Idle(vol) /\ Behind(vol))
      /\ kind' = kind /\ incomplete' = incomplete /\ executed' = executed
      /\ OrdersFrom(algo', held', {}, {})
  BY DEF PovTimer, At
<1>2. /\ t \in Nat /\ End \in Int /\ t <= End /\ now \in Int /\ market \in Nat
      /\ vol \in Nat /\ RatePercent \in Nat
  BY AlgoAssumption DEF AlgoAssumption, IndInv, Typed
<1>3. ~algo.deadlineDone BY <1>1, <1>2 DEF IndInv, Settings
<1>4. Room(algo) BY <1>1, <1>3 DEF IndInv, Bounds
<1>5. Share(vol) \in Nat
  <2>1. \A x, y \in Nat : x * y \in Nat OBVIOUS
  <2>2. RatePercent * vol \in Nat BY <1>2, <2>1
  <2> QED BY <2>2, Division DEF Share
<1>6. market' \in Nat BY <1>1, <1>2
<1>7. degraded' \in BOOLEAN BY <1>1
<1> QED BY <1>1, <1>2, <1>3, <1>4, <1>5, <1>6, <1>7

(* on_timer() of a POV that stays one. *)
LEMMA OwnPovTimerKeepsInv ==
  ASSUME IndInv, NEW t \in 0 .. End, NEW vol \in Volumes, NEW ok,
         PovTimer(t, vol, ok), ~degraded'
  PROVE  IndInv'
<1> DEFINE child == Min({Share(vol), Remaining(algo)})
<1>1. /\ kind = "pov" /\ now' = t /\ t \in Nat /\ End \in Int /\ t <= End
      /\ ~algo.done /\ ~algo.deadlineDone /\ Room(algo) /\ ~degraded
      /\ market' \in Nat /\ Share(vol) \in Nat /\ degraded' \in BOOLEAN
      /\ kind' = kind /\ incomplete' = incomplete /\ executed' = executed
      /\ OrdersFrom(algo', held', {}, {})
  BY PovBeforeTheEnd
<1>2. /\ held' = held
      /\ algo' = algo \/ (child > 0 /\ algo' = WithChild(algo, sent + 1, child))
  <2>1. /\ held' = held
        /\ algo' = IF Idle(vol) \/ degraded' \/ child <= 0 \/ 0 \notin ok THEN algo
                   ELSE WithChild(algo, sent + 1, child)
    BY DEF PovTimer
  <2>2. child \in Int
    <3>1. Share(vol) \in Int /\ Remaining(algo) \in Int
      BY <1>1, RemainingIs DEF IndInv, Typed
    <3>2. child \in {Share(vol), Remaining(algo)} BY <3>1, MinOfTwo
    <3> HIDE DEF child
    <3> QED BY <3>1, <3>2
  <2> HIDE DEF child
  <2> QED BY <2>1, <2>2
<1>3. /\ algo \in Books /\ held \in Books /\ Older(algo, sent) /\ Kids(held) = {}
      /\ sent \in Nat /\ algo.qty = Qty /\ algo.slices = Slices
      /\ algo.qty \in Nat /\ algo.filled \in Nat /\ Inflight(algo) \in Nat
  BY <1>1, BooksAreOlder DEF IndInv, Typed, Settings
<1>4. /\ child \in Int /\ child <= Remaining(algo) /\ Remaining(algo) = Left(algo)
      /\ Left(algo) = algo.qty - (algo.filled + Inflight(algo))
  <2>1. Share(vol) \in Int /\ Remaining(algo) \in Int BY <1>1, <1>3, RemainingIs
  <2>2. child \in {Share(vol), Remaining(algo)} /\ child <= Remaining(algo)
    BY <2>1, MinOfTwo
  <2> HIDE DEF child
  <2> QED BY <1>1, <1>3, <2>1, <2>2, RemainingIs
<1> HIDE DEF child
<1>5. /\ \E m \in Nat : Grows(algo, algo', sent, m)
      /\ Room(algo') /\ algo'.done = algo.done /\ algo'.deadlineDone = algo.deadlineDone
  <2>1. CASE algo' = algo
    <3>1. sent + 1 .. sent = {} /\ sent >= sent BY <1>3
    <3>2. Grows(algo, algo', sent, sent) BY <1>3, <2>1, <3>1 DEF Grows, Older
    <3> QED BY <1>1, <1>3, <2>1, <3>2
  <2>2. CASE child > 0 /\ algo' = WithChild(algo, sent + 1, child)
    <3>1. child \in Left1 /\ sent + 1 \in Nat /\ sent + 1 \notin Kids(algo)
      BY <1>3, <1>4, <2>2 DEF Left1, Older
    <3>2. /\ algo' \in Books /\ Kids(algo') = Kids(algo) \cup {sent + 1}
          /\ \A j \in Kids(algo) : algo'.children[j] = algo.children[j]
          /\ Inflight(algo') = Inflight(algo) + child
          /\ algo'.qty = algo.qty /\ algo'.slices = algo.slices
          /\ algo'.filled = algo.filled
          /\ algo'.slicesDone = algo.slicesDone
          /\ algo'.deadlineDone = algo.deadlineDone /\ algo'.done = algo.done
      BY <1>3, <2>2, <3>1, ChildAdded
    <3>3. sent + 1 .. sent + 1 = {sent + 1} /\ sent + 1 >= sent BY <1>3
    <3>4. Grows(algo, algo', sent, sent + 1)
      BY <1>3, <3>1, <3>2, <3>3 DEF Grows, Older
    <3>5. Room(algo') BY <1>3, <1>4, <3>2 DEF Room
    <3> QED BY <3>1, <3>2, <3>4, <3>5
  <2> QED BY <1>2, <2>1, <2>2
<1>6. PICK m \in Nat : Grows(algo, algo', sent, m) BY <1>5
<1>7. /\ sent' = m /\ open' \in [DOMAIN open' -> OrderType]
      /\ DOMAIN open' = Kids(algo') /\ Agree'
  BY <1>1, <1>2, <1>3, <1>6, OwnGrows
<1>8. Typed'
  BY <1>1, <1>2, <1>3, <1>6, <1>7 DEF Typed, IndInv, Grows
<1>9. Settings'
  BY <1>1, <1>2, <1>3, <1>5, <1>6 DEF Settings, IndInv, Grows
<1>10. Bounds' BY <1>1, <1>2, <1>5 DEF Bounds, IndInv
<1>11. Reported' BY <1>1, <1>5 DEF Reported, IndInv
<1>12. DeadlineCancels' BY <1>1, <1>5 DEF DeadlineCancels
<1> QED BY <1>7, <1>8, <1>9, <1>10, <1>11, <1>12 DEF IndInv

(* on_timer() of a POV that falls behind and hands over to a TWAP. *)
LEMMA DegradingKeepsInv ==
  ASSUME IndInv, NEW t \in 0 .. End, NEW vol \in Volumes, NEW ok,
         PovTimer(t, vol, ok), degraded'
  PROVE  IndInv'
<1> DEFINE b == Book(Remaining(algo), t, ResidualSlices)
<1>1. /\ kind = "pov" /\ now' = t /\ t \in Nat /\ End \in Int /\ t <= End
      /\ ~algo.done /\ ~algo.deadlineDone /\ Room(algo) /\ ~degraded
      /\ market' \in Nat /\ degraded' \in BOOLEAN
      /\ kind' = kind /\ incomplete' = incomplete /\ executed' = executed
      /\ OrdersFrom(algo', held', {}, {})
  BY PovBeforeTheEnd
<1>2. algo' = algo /\ held' = TwapTimer(b, t, sent + 1, ok) BY DEF PovTimer, HeldTimer
<1>3. /\ algo \in Books /\ held \in Books /\ Kids(held) = {} /\ incomplete \in BOOLEAN
      /\ sent \in Nat /\ algo.qty = Qty /\ algo.slices = Slices
      /\ algo.qty \in Nat /\ algo.filled \in Nat /\ Inflight(algo) \in Nat
      /\ kind \in Kinds /\ executed \in Nat
  BY <1>1, BooksAreOlder DEF IndInv, Typed, Settings
<1>4. /\ Remaining(algo) \in Nat
      /\ Remaining(algo) = algo.qty - (algo.filled + Inflight(algo))
  BY <1>1, <1>3, RemainingIs
<1>5. /\ b \in Books /\ Kids(b) = {} /\ Inflight(b) = 0
      /\ b.qty = Remaining(algo) /\ b.slices = ResidualSlices /\ b.filled = 0
      /\ b.slicesDone = 0
  <2>1. ResidualSlices \in Nat \ {0} BY AlgoAssumption DEF AlgoAssumption
  <2>2. Remaining(algo) \in Nat /\ t \in Nat BY <1>1, <1>4
  <2>3. b = Book(Remaining(algo), t, ResidualSlices) OBVIOUS
  <2> HIDE DEF b
  <2> QED BY <2>1, <2>2, <2>3, NewBook
<1> HIDE DEF b
<1>6. Older(b, sent) /\ Room(b)
  <2>1. b.slices \in Nat BY <1>5 DEF Books, Left1
  <2> QED BY <1>3, <1>4, <1>5, <2>1 DEF Older, Room
<1>7. (\E m \in Nat : Grows(b, held', sent, m)) /\ Room(held')
  <2>1. t \in Int BY <1>1
  <2> QED BY <1>2, <1>6, <2>1, TimerGrows
<1>8. PICK m \in Nat : Grows(b, held', sent, m) BY <1>7
<1>9. /\ held' \in Books /\ m >= sent /\ Kids(held') = sent + 1 .. m
      /\ held'.qty = Remaining(algo) /\ held'.filled = 0
      /\ held'.slicesDone <= held'.slices
  BY <1>5, <1>8 DEF Grows
<1>10. Typed /\ Agree /\ DOMAIN open = Kids(algo) /\ DOMAIN open \subseteq 1 .. sent
  BY <1>3 DEF IndInv, Agree
<1>11. /\ Kids(algo') \cap Kids(held') = {}
       /\ Kids(algo') \cup Kids(held') = DOMAIN open \cup (sent + 1 .. m)
       /\ Kids(algo) \subseteq Kids(algo') /\ Kids(held) \subseteq Kids(held')
       /\ \A i \in Kids(algo) : algo'.children[i] = algo.children[i]
       /\ \A i \in Kids(held) : held'.children[i] = held.children[i]
  <2>1. \A i \in Kids(algo) : i \notin sent + 1 .. m BY <1>3, <1>10
  <2> QED BY <1>2, <1>3, <1>9, <1>10, <2>1
<1>12. /\ sent' = m /\ open' \in [DOMAIN open' -> OrderType]
       /\ DOMAIN open' = Kids(algo') \cup Kids(held') /\ DOMAIN open' \subseteq 1 .. sent'
       /\ \A i \in Kids(algo') : algo'.children[i] = open'[i].rem
       /\ \A i \in Kids(held') : held'.children[i] = open'[i].rem
  <2>1. algo' \in Books BY <1>2, <1>3
  <2> QED BY <1>1, <1>9, <1>10, <1>11, <2>1, OrdersFollow
<1>13. Typed' BY <1>1, <1>2, <1>3, <1>9, <1>12 DEF Typed
<1>14. Settings'
  BY <1>1, <1>2, <1>3, <1>9 DEF Settings, IndInv
<1>15. Agree' BY <1>1, <1>2, <1>11, <1>12 DEF Agree, IndInv
<1>16. Bounds'
  <2>1. Qty \in Int BY <1>3
  <2> QED BY <1>1, <1>2, <1>3, <1>4, <1>7, <1>9, <2>1 DEF Bounds
<1>17. Reported' /\ DeadlineCancels' BY <1>1 DEF Reported, DeadlineCancels
<1> QED BY <1>13, <1>14, <1>15, <1>16, <1>17 DEF IndInv

-----------------------------------------------------------------------------
(* The events of the children. *)

(* What an event of a child finds: it is the child of exactly one book, and *)
(* only a POV with a TWAP may have given it to the TWAP.                    *)
LEMMA ChildIsKnown ==
  ASSUME IndInv, NEW i \in DOMAIN open
  PROVE  /\ open[i] \in OrderType /\ algo \in Books /\ held \in Books
         /\ i \in Kids(algo) => i \notin Kids(held) /\ algo.children[i] = open[i].rem
         /\ i \notin Kids(algo) =>
              degraded /\ i \in Kids(held) /\ held.children[i] = open[i].rem
<1> QED BY DEF IndInv, Typed, Agree, Settings

(* The open orders after a fill: the quantity goes off one of them. *)
LEMMA OpenAfterFill ==
  ASSUME Typed, NEW i \in DOMAIN open, NEW rem \in Nat,
         open' = IF rem = 0 THEN [j \in DOMAIN open \ {i} |-> open[j]]
                 ELSE [open EXCEPT ![i].rem = rem]
  PROVE  /\ open' \in [DOMAIN open' -> OrderType]
         /\ DOMAIN open' = IF rem = 0 THEN DOMAIN open \ {i} ELSE DOMAIN open
         /\ \A j \in DOMAIN open' : /\ open'[j].rem = IF j = i THEN rem ELSE open[j].rem
                                    /\ Safe(open[j]) => Safe(open'[j])
<1> DEFINE D == DOMAIN open
           r == [open[i] EXCEPT !.rem = rem]
<1>1. open = [j \in D |-> open[j]] /\ \A j \in D : open[j] \in OrderType BY DEF Typed
<1>2. CASE rem = 0
  <2>1. open' = [j \in D \ {i} |-> open[j]] BY <1>2
  <2> QED BY <1>1, <1>2, <2>1
<1>3. CASE rem # 0
  <2>1. r \in OrderType /\ r.rem = rem /\ r.ioc = open[i].ioc /\ r.cancel = open[i].cancel
    BY <1>1, <1>3 DEF OrderType, Left1
  <2>2. open' = [open EXCEPT ![i] = r] BY <1>3
  <2> HIDE DEF r
  <2>3. /\ DOMAIN open' = D /\ open' = [j \in D |-> open'[j]]
        /\ \A j \in D : open'[j] = IF j = i THEN r ELSE open[j]
    BY <1>1, <2>2
  <2>4. \A j \in D : open'[j] \in OrderType BY <1>1, <2>1, <2>3
  <2>5. open' \in [DOMAIN open' -> OrderType] BY <2>3, <2>4
  <2>6. \A j \in D : /\ open'[j].rem = IF j = i THEN rem ELSE open[j].rem
                     /\ Safe(open[j]) => Safe(open'[j])
    BY <2>1, <2>3 DEF Safe
  <2> QED BY <1>3, <2>3, <2>5, <2>6
<1> QED BY <1>2, <1>3

(* A fill of a child, which reaches the book that sent it. *)
LEMMA FillKeepsInv ==
  ASSUME IndInv, NEW i \in DOMAIN open, NEW q \in 1 .. Qty, ChildFills(i, q)
  PROVE  IndInv'
<1> DEFINE rem == open[i].rem - q
<1>1. /\ q <= open[i].rem /\ executed' = executed + q
      /\ open' = IF rem = 0 THEN [j \in DOMAIN open \ {i} |-> open[j]]
                 ELSE [open EXCEPT ![i].rem = rem]
      /\ algo' = Filled(algo, i, q, rem)
      /\ held' = IF degraded /\ i \notin DOMAIN algo.children
                   THEN Filled(held, i, q, rem) ELSE held
      /\ kind' = kind /\ now' = now /\ degraded' = degraded /\ market' = market
      /\ incomplete' = incomplete /\ sent' = sent
  BY DEF ChildFills, OnFill
<1>2. /\ open[i] \in OrderType /\ algo \in Books /\ held \in Books
      /\ i \in Kids(algo) => i \notin Kids(held) /\ algo.children[i] = open[i].rem
      /\ i \notin Kids(algo) =>
           degraded /\ i \in Kids(held) /\ held.children[i] = open[i].rem
  BY ChildIsKnown
<1>3. /\ rem \in Nat /\ q \in Left1 /\ q \in Nat /\ open[i].rem = rem + q /\ q >= 1
  <2>1. open[i].rem \in Nat BY <1>2 DEF OrderType, Left1
  <2>2. q \in Nat /\ q >= 1 BY AlgoAssumption DEF AlgoAssumption
  <2> QED BY <1>1, <2>1, <2>2 DEF Left1
<1> HIDE DEF rem
<1>4. /\ open' \in [DOMAIN open' -> OrderType]
      /\ DOMAIN open' = IF rem = 0 THEN DOMAIN open \ {i} ELSE DOMAIN open
      /\ \A j \in DOMAIN open' : /\ open'[j].rem = IF j = i THEN rem ELSE open[j].rem
                                 /\ Safe(open[j]) => Safe(open'[j])
  BY <1>1, <1>3, OpenAfterFill DEF IndInv
<1>5. /\ algo' \in Books
      /\ Kids(algo') = IF rem = 0 THEN Kids(algo) \ {i} ELSE Kids(algo)
      /\ \A j \in Kids(algo') : algo'.children[j] = IF j = i THEN rem ELSE algo.children[j]
      /\ Inflight(algo') = Inflight(algo) - (IF i \in Kids(algo) THEN q ELSE 0)
      /\ algo'.filled = algo.filled + q /\ algo'.qty = algo.qty /\ algo'.slices = algo.slices
      /\ algo'.slicesDone = algo.slicesDone /\ algo'.deadlineDone = algo.deadlineDone
      /\ algo'.done <=> algo.done \/ algo.filled + q >= algo.qty
  <2>1. i \in Kids(algo) => algo.children[i] = rem + q BY <1>2, <1>3
  <2> QED BY <1>1, <1>2, <1>3, <2>1, ChildFilled
<1>6. /\ held' \in Books
      /\ Kids(held') = IF rem = 0 THEN Kids(held) \ {i} ELSE Kids(held)
      /\ \A j \in Kids(held') : held'.children[j] = IF j = i THEN rem ELSE held.children[j]
      /\ held'.qty = held.qty /\ held'.slices = held.slices
      /\ held'.slicesDone = held.slicesDone
      /\ i \in Kids(algo) => held' = held
      /\ i \notin Kids(algo) => /\ held'.filled = held.filled + q
                                /\ Inflight(held') = Inflight(held) - q
  <2>1. CASE i \in Kids(algo)
    <3>1. held' = held BY <1>1, <2>1 DEF Kids
    <3>2. i \notin Kids(held) BY <1>2, <2>1
    <3> QED BY <1>2, <2>1, <3>1, <3>2
  <2>2. CASE i \notin Kids(algo)
    <3>1. held' = Filled(held, i, q, rem) BY <1>1, <1>2, <2>2 DEF Kids
    <3>2. i \in Kids(held) /\ held.children[i] = rem + q BY <1>2, <1>3, <2>2
    <3> QED BY <1>2, <1>3, <2>2, <3>1, <3>2, ChildFilled
  <2> QED BY <2>1, <2>2
<1>7. /\ Typed /\ Settings /\ Agree /\ Bounds /\ Reported /\ DeadlineCancels
      /\ algo.qty = Qty /\ algo.qty \in Nat /\ algo.filled \in Nat /\ Inflight(algo) \in Nat
      /\ held.qty \in Nat /\ held.filled \in Nat /\ Inflight(held) \in Nat
      /\ i \in DOMAIN open
  BY BooksAreOlder DEF IndInv, Settings
<1>8. Typed'
  <2>1. executed + q \in Nat BY <1>3, <1>7 DEF Typed
  <2> QED BY <1>1, <1>4, <1>5, <1>6, <1>7, <2>1 DEF Typed
<1>9. Settings'
  <2>1. ~degraded => Kids(held') = {} BY <1>6, <1>7 DEF Settings
  <2> QED BY <1>1, <1>5, <1>6, <1>7, <2>1 DEF Settings
<1>10. Agree'
  <2>1. Kids(algo') \cap Kids(held') = {} BY <1>5, <1>6, <1>7 DEF Agree
  <2>2. DOMAIN open' = Kids(algo') \cup Kids(held') BY <1>4, <1>5, <1>6, <1>7 DEF Agree
  <2>3. DOMAIN open' \subseteq 1 .. sent' BY <1>1, <1>4, <1>7 DEF Agree
  <2>4. \A j \in Kids(algo') : algo'.children[j] = open'[j].rem
    BY <1>4, <1>5, <1>7, <2>2 DEF Agree
  <2>5. \A j \in Kids(held') : held'.children[j] = open'[j].rem
    BY <1>4, <1>6, <1>7, <2>2 DEF Agree
  <2>6. algo'.filled = executed' BY <1>1, <1>5, <1>7 DEF Agree
  <2> QED BY <2>1, <2>2, <2>3, <2>4, <2>5, <2>6 DEF Agree
<1>11. Bounds'
  <2>1. CASE i \in Kids(algo)
    <3>1. Inflight(algo') = Inflight(algo) - q /\ held' = held BY <1>5, <1>6, <2>1
    <3> QED BY <1>1, <1>3, <1>5, <1>7, <3>1 DEF Bounds, Room
  <2>2. CASE i \notin Kids(algo)
    <3>1. /\ Inflight(algo') = Inflight(algo) /\ degraded /\ kind # "twap"
          /\ held'.filled = held.filled + q /\ Inflight(held') = Inflight(held) - q
      BY <1>2, <1>5, <1>6, <1>7, <2>2 DEF Settings
    <3> QED BY <1>1, <1>3, <1>5, <1>6, <1>7, <3>1 DEF Bounds, Room
  <2> QED BY <2>1, <2>2
<1>12. Reported'
  <2>1. CASE degraded BY <1>1, <1>7, <2>1 DEF Reported, Settings
  <2>2. CASE ~degraded
    <3>1. ~incomplete /\ ~(algo.done /\ algo.filled < Qty) BY <1>7, <2>2 DEF Reported
    <3>2. ~(algo'.done /\ algo'.filled < Qty) BY <1>3, <1>5, <1>7, <3>1
    <3>3. kind = "twap" /\ algo'.done => DOMAIN open' = {}
      <4>1. SUFFICES ASSUME kind = "twap", algo'.done PROVE DOMAIN open' = {} OBVIOUS
      <4>2. Room(algo') BY <1>1, <1>11, <4>1 DEF Bounds
      <4>3. Inflight(algo') \in Nat BY <1>5, InflightIs
      <4>4. algo'.filled >= algo'.qty BY <1>3, <1>5, <1>7, <3>2, <4>1
      <4>5. Inflight(algo') = 0 BY <1>3, <1>5, <1>7, <4>2, <4>3, <4>4 DEF Room
      <4>6. Kids(algo') = {} /\ Kids(held') = {}
        BY <1>1, <1>5, <1>9, <2>2, <4>5, InflightIs DEF Settings
      <4> QED BY <1>10, <4>6 DEF Agree
    <3> QED BY <1>1, <3>1, <3>2, <3>3 DEF Reported
  <2> QED BY <2>1, <2>2
<1>13. DeadlineCancels'
  <2>1. DOMAIN open' \subseteq DOMAIN open BY <1>4
  <2> QED BY <1>1, <1>4, <1>5, <1>7, <2>1 DEF DeadlineCancels, AllCancelled, Safe
<1> QED BY <1>8, <1>9, <1>10, <1>11, <1>12, <1>13 DEF IndInv

(* A child that ends: the book that sent it forgets it. *)
LEMMA EndKeepsInv ==
  ASSUME IndInv, NEW i \in DOMAIN open, ChildEnds(i)
  PROVE  IndInv'
<1>1. /\ open' = [j \in DOMAIN open \ {i} |-> open[j]]
      /\ algo' = WithoutChild(algo, i)
      /\ held' = IF degraded /\ i \notin DOMAIN algo.children
                   THEN WithoutChild(held, i) ELSE held
      /\ kind' = kind /\ now' = now /\ degraded' = degraded /\ market' = market
      /\ incomplete' = incomplete /\ sent' = sent /\ executed' = executed
  BY DEF ChildEnds, OnEnd
<1>2. /\ open[i] \in OrderType /\ algo \in Books /\ held \in Books
      /\ i \in Kids(algo) => i \notin Kids(held) /\ algo.children[i] = open[i].rem
      /\ i \notin Kids(algo) =>
           degraded /\ i \in Kids(held) /\ held.children[i] = open[i].rem
  BY ChildIsKnown
<1>3. /\ Typed /\ Settings /\ Agree /\ Bounds /\ Reported /\ DeadlineCancels
      /\ algo.qty = Qty /\ algo.qty \in Nat /\ algo.filled \in Nat /\ Inflight(algo) \in Nat
      /\ held.qty \in Nat /\ held.filled \in Nat /\ Inflight(held) \in Nat
  BY BooksAreOlder DEF IndInv, Settings
<1>4. /\ open' \in [DOMAIN open' -> OrderType] /\ DOMAIN open' = DOMAIN open \ {i}
      /\ \A j \in DOMAIN open' : open'[j] = open[j]
  BY <1>1, <1>3 DEF Typed
<1>5. /\ algo' \in Books /\ Kids(algo') = Kids(algo) \ {i}
      /\ \A j \in Kids(algo') : algo'.children[j] = algo.children[j]
      /\ Inflight(algo') <= Inflight(algo) /\ Inflight(algo') \in Nat
      /\ algo'.qty = algo.qty /\ algo'.slices = algo.slices /\ algo'.filled = algo.filled
      /\ algo'.slicesDone = algo.slicesDone /\ algo'.deadlineDone = algo.deadlineDone
      /\ algo'.done = algo.done
  <2>1. /\ algo' \in Books /\ Kids(algo') = Kids(algo) \ {i}
        /\ \A j \in Kids(algo') : algo'.children[j] = algo.children[j]
        /\ Inflight(algo') = Inflight(algo) - (IF i \in Kids(algo) THEN algo.children[i] ELSE 0)
        /\ algo'.qty = algo.qty /\ algo'.slices = algo.slices /\ algo'.filled = algo.filled
        /\ algo'.slicesDone = algo.slicesDone /\ algo'.deadlineDone = algo.deadlineDone
        /\ algo'.done = algo.done
    BY <1>1, <1>2, ChildRemoved
  <2>2. i \in Kids(algo) => algo.children[i] \in Nat BY <1>2, InflightIs DEF Left1
  <2>3. Inflight(algo') <= Inflight(algo) BY <1>3, <2>1, <2>2
  <2>4. Inflight(algo') \in Nat BY <2>1, InflightIs
  <2> QED BY <2>1, <2>3, <2>4
<1>6. /\ held' \in Books /\ Kids(held') = Kids(held) \ {i}
      /\ \A j \in Kids(held') : held'.children[j] = held.children[j]
      /\ Inflight(held') <= Inflight(held) /\ Inflight(held') \in Nat
      /\ held'.qty = held.qty /\ held'.slices = held.slices /\ held'.filled = held.filled
      /\ held'.slicesDone = held.slicesDone
  <2>1. CASE i \in Kids(algo)
    <3>1. held' = held BY <1>1, <2>1 DEF Kids
    <3>2. Kids(held) = Kids(held) \ {i} BY <1>2, <2>1
    <3> QED BY <1>2, <1>3, <3>1, <3>2
  <2>2. CASE i \notin Kids(algo)
    <3>1. held' = WithoutChild(held, i) /\ i \in Kids(held) BY <1>1, <1>2, <2>2 DEF Kids
    <3>2. /\ held' \in Books /\ Kids(held') = Kids(held) \ {i}
          /\ \A j \in Kids(held') : held'.children[j] = held.children[j]
          /\ Inflight(held') = Inflight(held) - (IF i \in Kids(held) THEN held.children[i] ELSE 0)
          /\ held'.qty = held.qty /\ held'.slices = held.slices /\ held'.filled = held.filled
          /\ held'.slicesDone = held.slicesDone
      BY <1>2, <3>1, ChildRemoved
    <3>3. held.children[i] \in Nat BY <1>2, <3>1, InflightIs DEF Left1
    <3>4. Inflight(held') <= Inflight(held) BY <1>3, <3>1, <3>2, <3>3
    <3>5. Inflight(held') \in Nat BY <3>2, InflightIs
    <3> QED BY <3>2, <3>4, <3>5
  <2> QED BY <2>1, <2>2
<1>7. Typed' BY <1>1, <1>3, <1>4, <1>5, <1>6 DEF Typed
<1>8. Settings' BY <1>1, <1>3, <1>5, <1>6 DEF Settings
<1>9. Agree'
  <2>1. Kids(algo') \cap Kids(held') = {} BY <1>3, <1>5, <1>6 DEF Agree
  <2>2. DOMAIN open' = Kids(algo') \cup Kids(held') BY <1>3, <1>4, <1>5, <1>6 DEF Agree
  <2>3. DOMAIN open' \subseteq 1 .. sent' BY <1>1, <1>3, <1>4 DEF Agree
  <2>4. \A j \in Kids(algo') : algo'.children[j] = open'[j].rem
    BY <1>3, <1>4, <1>5, <2>2 DEF Agree
  <2>5. \A j \in Kids(held') : held'.children[j] = open'[j].rem
    BY <1>3, <1>4, <1>6, <2>2 DEF Agree
  <2> QED BY <1>1, <1>3, <1>5, <2>1, <2>2, <2>3, <2>4, <2>5 DEF Agree
<1>10. Bounds'
  <2>1. Qty \in Nat BY <1>3
  <2> QED BY <1>1, <1>3, <1>5, <1>6, <2>1 DEF Bounds, Room
<1>11. Reported' BY <1>1, <1>3, <1>4, <1>5 DEF Reported
<1>12. DeadlineCancels' BY <1>1, <1>3, <1>4, <1>5 DEF DeadlineCancels, AllCancelled
<1> QED BY <1>7, <1>8, <1>9, <1>10, <1>11, <1>12 DEF IndInv

(* A call that changes nothing but the cancels of open orders. *)
LEMMA CancelsKeepInv ==
  ASSUME IndInv, kind' = kind, now' = now, algo' = algo, held' = held,
         degraded' = degraded, market' = market, incomplete' = incomplete,
         sent' = sent, executed' = executed,
         open' \in [DOMAIN open' -> OrderType], DOMAIN open' = DOMAIN open,
         \A j \in DOMAIN open : /\ open'[j].rem = open[j].rem
                                /\ Safe(open[j]) => Safe(open'[j])
  PROVE  IndInv'
<1>1. Typed' BY DEF IndInv, Typed
<1>2. Settings' BY DEF IndInv, Settings
<1>3. Agree' BY DEF IndInv, Agree
<1>4. Bounds' BY DEF IndInv, Bounds
<1>5. Reported' BY DEF IndInv, Reported
<1>6. DeadlineCancels' BY DEF IndInv, DeadlineCancels, AllCancelled, Safe
<1> QED BY <1>1, <1>2, <1>3, <1>4, <1>5, <1>6 DEF IndInv

(* The venue refuses a cancel. *)
LEMMA CancelRejectedKeepsInv ==
  ASSUME IndInv, NEW i \in DOMAIN open, CancelRejected(i)
  PROVE  IndInv'
<1> DEFINE r == [open[i] EXCEPT !.cancel = "failed"]
<1>1. /\ open' = [open EXCEPT ![i] = r]
      /\ kind' = kind /\ now' = now /\ algo' = algo /\ held' = held
      /\ degraded' = degraded /\ market' = market /\ incomplete' = incomplete
      /\ sent' = sent /\ executed' = executed
  BY DEF CancelRejected
<1>2. open = [j \in DOMAIN open |-> open[j]] /\ \A j \in DOMAIN open : open[j] \in OrderType
  BY DEF IndInv, Typed
<1>3. r \in OrderType /\ r.rem = open[i].rem /\ Safe(r) BY <1>2 DEF OrderType, Safe
<1> HIDE DEF r
<1>4. /\ DOMAIN open' = DOMAIN open /\ open' = [j \in DOMAIN open |-> open'[j]]
      /\ \A j \in DOMAIN open : open'[j] = IF j = i THEN r ELSE open[j]
  BY <1>1, <1>2
<1>5. open' \in [DOMAIN open' -> OrderType]
  <2>1. \A j \in DOMAIN open : open'[j] \in OrderType BY <1>2, <1>3, <1>4
  <2> QED BY <1>4, <2>1
<1>6. \A j \in DOMAIN open : open'[j].rem = open[j].rem /\ (Safe(open[j]) => Safe(open'[j]))
  BY <1>3, <1>4
<1> QED BY <1>1, <1>4, <1>5, <1>6, CancelsKeepInv

(* A fill of another order: no event of it reaches the algorithm, if it has *)
(* an index of its own.                                                     *)
LEMMA ForeignFillKeepsInv ==
  ASSUME WorkerIndex # Untagged, IndInv, NEW q \in 1 .. MaxForeign, ForeignFill(q)
  PROVE  IndInv'
<1>1. UNCHANGED <<kind, now, algo, held, degraded, market, incomplete, sent, open, executed>>
  BY DEF ForeignFill
<1> QED BY <1>1, CancelsKeepInv DEF IndInv, Typed

(* cancel() from outside. *)
LEMMA CancelKeepsInv ==
  ASSUME IndInv, Cancel
  PROVE  IndInv'
<1> DEFINE all == DOMAIN algo.children \cup DOMAIN held.children
<1>1. /\ \E refused : OrdersFrom(algo, held, all, refused)
      /\ kind' = kind /\ now' = now /\ algo' = algo /\ held' = held
      /\ degraded' = degraded /\ market' = market /\ incomplete' = incomplete
      /\ executed' = executed
  BY DEF Cancel
<1>2. PICK refused : OrdersFrom(algo, held, all, refused) BY <1>1
<1> HIDE DEF all
<1>3. /\ Typed /\ Agree /\ algo \in Books /\ held \in Books /\ sent \in Nat /\ sent >= sent
      /\ Kids(algo) \cap Kids(held) = {} /\ DOMAIN open = Kids(algo) \cup Kids(held)
      /\ sent + 1 .. sent = {}
  BY DEF IndInv, Typed, Agree
<1>4. Kids(algo) \cup Kids(held) = DOMAIN open \cup (sent + 1 .. sent) BY <1>3
<1>5. /\ sent' = sent /\ open' \in [DOMAIN open' -> OrderType]
      /\ DOMAIN open' = Kids(algo) \cup Kids(held)
      /\ \A i \in Kids(algo) : algo.children[i] = open'[i].rem
      /\ \A i \in Kids(held) : held.children[i] = open'[i].rem
      /\ \A i \in DOMAIN open : i \in all \/ Safe(open[i]) => Safe(open'[i])
  BY <1>2, <1>3, <1>4, OrdersFollow
<1>6. \A j \in DOMAIN open : open'[j].rem = open[j].rem /\ (Safe(open[j]) => Safe(open'[j]))
  BY <1>3, <1>5 DEF Agree
<1> QED BY <1>1, <1>3, <1>5, <1>6, CancelsKeepInv

-----------------------------------------------------------------------------
(* The initial state has the invariant. *)
LEMMA InitHasInv == Init => IndInv
<1> SUFFICES ASSUME Init PROVE IndInv OBVIOUS
<1>1. /\ Qty \in Nat \ {0} /\ End \in Nat \ {0} /\ Slices \in Nat \ {0}
      /\ ResidualSlices \in Nat \ {0}
  BY AlgoAssumption DEF AlgoAssumption
<1>2. /\ kind \in Kinds /\ now = -1 /\ algo = Book(Qty, 0, Slices)
      /\ held = Book(0, 0, ResidualSlices) /\ degraded = FALSE /\ market = 0
      /\ incomplete = FALSE /\ sent = 0 /\ open = NoOrders /\ executed = 0
  BY DEF Init
<1>3. /\ algo \in Books /\ Kids(algo) = {} /\ Inflight(algo) = 0
      /\ algo.qty = Qty /\ algo.slices = Slices /\ algo.filled = 0 /\ algo.slicesDone = 0
      /\ ~algo.deadlineDone /\ ~algo.done
  BY <1>1, <1>2, NewBook
<1>4. /\ held \in Books /\ Kids(held) = {} /\ Inflight(held) = 0
      /\ held.qty = 0 /\ held.slices = ResidualSlices /\ held.filled = 0
      /\ held.slicesDone = 0
  BY <1>1, <1>2, NewBook
<1>5. DOMAIN open = {} /\ open \in [DOMAIN open -> OrderType] BY <1>2 DEF NoOrders
<1>6. now \in Int /\ now <= End BY <1>1, <1>2
<1>7. Typed BY <1>2, <1>3, <1>4, <1>5, <1>6 DEF Typed
<1>8. Settings BY <1>1, <1>2, <1>3, <1>4 DEF Settings
<1>9. Agree BY <1>2, <1>3, <1>4, <1>5 DEF Agree
<1>10. Bounds BY <1>1, <1>2, <1>3, <1>4 DEF Bounds, Room
<1>11. Reported BY <1>2, <1>3 DEF Reported
<1>12. DeadlineCancels BY <1>3 DEF DeadlineCancels
<1> QED BY <1>7, <1>8, <1>9, <1>10, <1>11, <1>12 DEF IndInv

(* The fills the dispatcher forwards are of orders that carry the           *)
(* algorithm's own index (AlgoDispatcher::route).                           *)
OwnIndex == WorkerIndex # Untagged

(* Every step keeps the invariant. *)
LEMMA NextKeepsInv ==
  ASSUME OwnIndex, IndInv, [Next]_vars
  PROVE  IndInv'
<1>1. ASSUME NEW t \in 0 .. End, NEW ok, TwapOnTimer(t, ok) PROVE IndInv'
  BY <1>1, TwapOnTimerKeepsInv
<1>2. ASSUME NEW ok, PovDeadline(ok) PROVE IndInv'
  BY <1>2, HeldDeadlineKeepsInv, OwnDeadlineKeepsInv
<1>3. ASSUME NEW t \in 0 .. End, NEW ok, DegradedTimer(t, ok) PROVE IndInv'
  BY <1>3, DegradedTimerKeepsInv
<1>4. ASSUME NEW t \in 0 .. End, NEW vol \in Volumes, NEW ok, PovTimer(t, vol, ok)
      PROVE  IndInv'
  BY <1>4, OwnPovTimerKeepsInv, DegradingKeepsInv
<1>5. ASSUME NEW t \in 0 .. End, TimerAt(t) PROVE IndInv'
  BY <1>1, <1>2, <1>3, <1>4, <1>5 DEF TimerAt
<1>6. ASSUME NEW i \in DOMAIN open, NEW q \in 1 .. Qty, ChildFills(i, q) PROVE IndInv'
  BY <1>6, FillKeepsInv
<1>7. ASSUME NEW i \in DOMAIN open, ChildEnds(i) PROVE IndInv'
  BY <1>7, EndKeepsInv
<1>8. ASSUME NEW i \in DOMAIN open, CancelRejected(i) PROVE IndInv'
  BY <1>8, CancelRejectedKeepsInv
<1>9. ASSUME NEW q \in 1 .. MaxForeign, ForeignFill(q) PROVE IndInv'
  BY <1>9, ForeignFillKeepsInv DEF OwnIndex
<1>10. CASE Cancel BY <1>10, CancelKeepsInv
<1>11. CASE UNCHANGED vars BY <1>11, CancelsKeepInv DEF vars, IndInv, Typed
<1> QED BY <1>5, <1>6, <1>7, <1>8, <1>9, <1>10, <1>11 DEF Next

(* The invariant holds through every timer, fill, end, refusal and cancel,  *)
(* for every parent, schedule, rate and market.                             *)
THEOREM AlgoInvariance == ASSUME OwnIndex PROVE Spec => []IndInv
<1>1. Init => IndInv BY InitHasInv
<1>2. IndInv /\ [Next]_vars => IndInv' BY NextKeepsInv
<1> QED BY <1>1, <1>2, PTL DEF Spec

(* Each event of a child reaches the book that sent it: the children of the *)
(* two books are the open orders, with what is left of each, and what the   *)
(* algorithm counts as done is what its children filled (on_fill, on_reject *)
(* and on_cancel of PovAlgo).                                               *)
THEOREM EventsReachTheirBook == ASSUME OwnIndex PROVE Spec => []BooksFollowOrders
<1>1. ASSUME IndInv PROVE BooksFollowOrders
  <2>1. /\ Kids(algo) \cap Kids(held) = {} /\ DOMAIN open = Kids(algo) \cup Kids(held)
        /\ \A i \in Kids(algo) : algo.children[i] = open[i].rem
        /\ \A i \in Kids(held) : held.children[i] = open[i].rem
        /\ algo.filled = executed
    BY <1>1 DEF IndInv, Agree
  <2>2. Both(algo, held) = [i \in DOMAIN open |-> open[i].rem] BY <2>1 DEF Both, Kids
  <2> QED BY <2>1, <2>2 DEF BooksFollowOrders, Kids
<1> QED BY <1>1, AlgoInvariance, PTL

(* Rounded slices, shares of the volume, the TWAP of a degraded POV and the *)
(* crossing order of a TWAP never ask for more than the parent has left     *)
(* (remaining_quantity).                                                    *)
THEOREM ParentIsNotExceeded == ASSUME OwnIndex PROVE Spec => []WithinParent
<1>1. ASSUME IndInv PROVE WithinParent
  <2>1. /\ algo.filled \in Nat /\ Inflight(algo) \in Nat /\ Qty \in Nat
        /\ held.qty \in Nat /\ held.filled \in Nat /\ Inflight(held) \in Nat
        /\ Bounds /\ Settings /\ algo.qty = Qty /\ held \in Books
    BY <1>1, BooksAreOlder DEF IndInv, Settings, Typed
  <2>2. held.filled + Inflight(held) <= held.qty BY <2>1 DEF Bounds, Room
  <2>3. ASSUME kind = "twap" \/ degraded \/ ~algo.deadlineDone
        PROVE  algo.filled + Inflight(algo) + Inflight(held) <= Qty
    <3>1. CASE degraded BY <2>1, <2>2, <3>1 DEF Bounds
    <3>2. CASE ~degraded
      <4>1. Inflight(held) = 0 BY <2>1, <3>2, InflightIs DEF Settings
      <4> QED BY <2>1, <2>3, <3>2, <4>1 DEF Bounds, Room
    <3> QED BY <3>1, <3>2
  <2> QED BY <2>2, <2>3 DEF WithinParent
<1> QED BY <1>1, AlgoInvariance, PTL

(* A parent marked done is filled or reported incomplete, and a TWAP leaves *)
(* no child working (on_timer of both, on_fill of AlgoBase).                *)
THEOREM DoneMeansReported == ASSUME OwnIndex PROVE Spec => []DoneIsReported
<1>1. IndInv => DoneIsReported BY DEF IndInv, Reported, DoneIsReported
<1> QED BY <1>1, AlgoInvariance, PTL

(* The deadline cancels every child that works then, and only the crossing  *)
(* order is sent after it (deadline_cross).                                 *)
THEOREM DeadlineLeavesNoChild == ASSUME OwnIndex PROVE Spec => []DeadlineCancels
<1>1. IndInv => DeadlineCancels BY DEF IndInv
<1> QED BY <1>1, AlgoInvariance, PTL

(* The last slice of a TWAP is all that earlier slices, rounded, refused or *)
(* ended unfilled, left of the parent (on_timer of TwapAlgo).               *)
THEOREM LastSliceLeavesNothing == ASSUME OwnIndex PROVE Spec => LastSliceSendsTheRest
<1>1. ASSUME IndInv, NEW t \in 0 .. End, TwapOnTimer(t, EverySlice),
             algo.slicesDone < Slices, algo'.slicesDone = Slices
      PROVE  algo'.filled + Inflight(algo') = Qty
  <2>1. /\ kind = "twap" /\ ~algo.done /\ algo' = TwapTimer(algo, t, sent + 1, EverySlice)
    BY <1>1 DEF TwapOnTimer
  <2>2. /\ Room(algo) /\ algo.qty = Qty /\ algo.slices = Slices
        /\ Older(algo, sent) /\ Qty \in Nat /\ End \in Int /\ t \in Int
        /\ algo.slicesDone \in Nat
    <3>1. algo.slicesDone \in Nat BY <1>1 DEF IndInv, Typed, Books
    <3> QED BY <1>1, <2>1, <3>1, BooksAreOlder DEF IndInv, Bounds, Settings
  <2>3. Slices \in Nat /\ ResidualSlices \in Nat BY AlgoAssumption DEF AlgoAssumption
  <2>4. t < End
    <3>1. SUFFICES ASSUME ~(t < End) PROVE FALSE OBVIOUS
    <3>2. algo'.slicesDone = algo.slicesDone BY <2>1, <2>2, <3>1, TimerGrows
    <3> QED BY <1>1, <2>2, <2>3, <3>2
  <2>5. 0 .. algo.slices \subseteq EverySlice
    <3> DEFINE m == Max({Slices, ResidualSlices})
    <3>0. Slices \in Int /\ ResidualSlices \in Int BY <2>3
    <3>1. m \in Int /\ m >= Slices
      <4> HIDE DEF m
      <4>1. m = Max({Slices, ResidualSlices}) BY DEF m
      <4> QED BY <3>0, <4>1, MaxOfTwo
    <3> HIDE DEF m
    <3>2. 0 .. Slices \subseteq 0 .. m BY <2>3, <3>1
    <3> QED BY <2>2, <3>2 DEF EverySlice, m
  <2>6. algo' = FireSlices(algo, t, sent + 1, EverySlice) BY <2>1, <2>4 DEF TwapTimer
  <2>7. /\ \E m \in Nat : Grows(algo, algo', sent, m)
        /\ Left(algo') = 0
    <3>1. algo.slicesDone < algo.slices /\ algo'.slicesDone = algo.slices BY <1>1, <2>2
    <3> QED BY <2>2, <2>5, <2>6, <3>1, FireSlicesGrows
  <2>8. algo' \in Books /\ algo'.qty = Qty BY <2>2, <2>7 DEF Grows
  <2>9. algo'.filled \in Nat /\ Inflight(algo') \in Nat BY <2>8, InflightIs DEF Books
  <2> QED BY <2>2, <2>7, <2>8, <2>9 DEF Left
<1>2. IndInv /\ [Next]_vars =>
        [\A t \in 0 .. End :
           TwapOnTimer(t, EverySlice) /\ algo.slicesDone < Slices /\ algo'.slicesDone = Slices
             => algo'.filled + Inflight(algo') = Qty]_vars
  BY <1>1
<1> QED BY <1>2, AlgoInvariance, PTL DEF Spec, LastSliceSendsTheRest
=============================================================================
