------------------------- MODULE OrderManagerProofs --------------------------
(****************************************************************************)
(* OrderManager for every pool capacity, grace window, set of venues,       *)
(* requests and trades, and under every event a venue could send, as long   *)
(* as no slot is recycled often enough for its generation to wrap (NoWrap). *)
(* First the inductive invariant: what acquire() and release() do to a      *)
(* well-formed pool, what the handlers' parts do to the bookkeeping, and    *)
(* that Init establishes and every action keeps it.  Then what follows: the *)
(* safety and action properties the manager's run checks, the pending       *)
(* quantity as a sum over the open orders, and the refinement of the order  *)
(* ledger.                                                                  *)
(****************************************************************************)
EXTENDS OrderManager, SequenceTheorems, SumTheorems

(* The pool, of any capacity. *)

(* The slots are finite, Capacity many, so every set of allocated slots has *)
(* a cardinality for inUse to count (the vectors of the constructor).       *)
LEMMA SlotsFinite == /\ IsFiniteSet(Slots) /\ Cardinality(Slots) = Capacity
                     /\ \A S \in SUBSET Slots : /\ IsFiniteSet(S)
                                                /\ Cardinality(S) \in 0 .. Capacity
<1>1. Capacity \in Nat BY PoolAssumption
<1>2. IsFiniteSet(0 .. Capacity - 1)
      /\ Cardinality(0 .. Capacity - 1) = Capacity
  BY <1>1, FS_Interval
<1>3. ASSUME NEW S \in SUBSET Slots
      PROVE  IsFiniteSet(S) /\ Cardinality(S) \in 0 .. Capacity
  <2>1. /\ IsFiniteSet(S) /\ Cardinality(S) \in Nat
        /\ Cardinality(S) <= Cardinality(Slots)
    BY <1>2, FS_Subset, FS_CardinalityType DEF Slots
  <2> QED BY <1>1, <1>2, <2>1 DEF Slots
<1> QED BY <1>2, <1>3 DEF Slots

(* The empty pool the constructor builds is well formed. *)
LEMMA EmptyPoolWellFormed == EmptyPool \in PoolType /\ WellFormed(EmptyPool)
<1>1. Capacity \in Nat \ {0} /\ GenMod \in Nat \ {0} BY PoolAssumption
<1>2. EmptyPool.freeList \in Seq(Slots)
      /\ DOMAIN EmptyPool.freeList = 1 .. Capacity
  BY <1>1 DEF EmptyPool, Slots
<1>3. EmptyPool \in PoolType
  BY <1>1, <1>2 DEF EmptyPool, PoolType, Generations
<1>4. ASSUME NEW s \in Slots
      PROVE  \E k \in 1 .. Capacity : EmptyPool.freeList[k] = s
  <2>1. Capacity - s \in 1 .. Capacity BY <1>1 DEF Slots
  <2>2. EmptyPool.freeList[Capacity - s] = s BY <1>1, <2>1 DEF Slots, EmptyPool
  <2> QED BY <2>1, <2>2
<1>5. \A j, k \in 1 .. Capacity : EmptyPool.freeList[j] = EmptyPool.freeList[k] => j = k
  BY <1>1 DEF EmptyPool
<1>6. EmptyPool.inUse = Cardinality(EmptyPool.allocated)
  BY FS_EmptySet DEF EmptyPool
<1>7. EmptyPool.allocated = {} BY DEF EmptyPool
<1> QED BY <1>2, <1>3, <1>4, <1>5, <1>6, <1>7 DEF WellFormed

(* A pool that is not full has a free slot to hand out. *)
LEMMA FreeSlot ==
  ASSUME NEW p \in PoolType, WellFormed(p), p.inUse < Capacity
  PROVE  /\ Len(p.freeList) \in Nat \ {0}
         /\ NextSlot(p) \in Slots /\ NextSlot(p) \notin p.allocated
<1>1. p.freeList \in Seq(Slots) /\ p.allocated \in SUBSET Slots BY DEF PoolType
<1>2. p.allocated # Slots BY SlotsFinite DEF WellFormed
<1>3. PICK s \in Slots : s \notin p.allocated BY <1>1, <1>2
<1>4. PICK k \in DOMAIN p.freeList : p.freeList[k] = s BY <1>3 DEF WellFormed
<1>5. Len(p.freeList) \in Nat \ {0} BY <1>1, <1>4
<1>6. Len(p.freeList) \in DOMAIN p.freeList BY <1>1, <1>5
<1> QED BY <1>1, <1>5, <1>6 DEF NextSlot, WellFormed

(* acquire() takes the slot it returns off the free list and nothing else:  *)
(* the pool stays well formed and every generation stays what it was.       *)
LEMMA AcquireKeepsWellFormed ==
  ASSUME NEW p \in PoolType, WellFormed(p), p.inUse < Capacity
  PROVE  /\ Acquire(p) \in PoolType /\ WellFormed(Acquire(p))
         /\ Acquire(p).allocated = p.allocated \cup {NextSlot(p)}
         /\ Acquire(p).generation = p.generation
<1> DEFINE s == NextSlot(p)
           q == Acquire(p)
           f == p.freeList
           n == Len(f)
<1>1. /\ n \in Nat \ {0} /\ s \in Slots /\ s \notin p.allocated BY FreeSlot
<1>2. /\ p.generation \in [Slots -> Generations] /\ p.allocated \in SUBSET Slots
      /\ p.inUse \in 0 .. Capacity /\ f \in Seq(Slots)
  BY DEF PoolType
<1>3. /\ q.allocated = p.allocated \cup {s}
      /\ q.generation = p.generation
      /\ q.inUse = p.inUse + 1 /\ q.freeList = SubSeq(f, 1, n - 1)
      /\ q = [generation |-> p.generation, allocated |-> p.allocated \cup {s},
              inUse |-> p.inUse + 1, freeList |-> SubSeq(f, 1, n - 1)]
  BY DEF Acquire, PoolType
<1>4. /\ q.freeList \in Seq(Slots) /\ DOMAIN q.freeList = 1 .. n - 1
      /\ \A k \in 1 .. n - 1 : q.freeList[k] = f[k]
  BY <1>1, <1>2, <1>3
<1>5. Capacity \in Nat BY PoolAssumption
<1>6. p.inUse + 1 \in 0 .. Capacity BY <1>2, <1>5
<1>7. q \in PoolType BY <1>1, <1>2, <1>3, <1>4, <1>6 DEF PoolType
<1>8. f[n] = s /\ DOMAIN f = 1 .. n BY <1>1, <1>2 DEF NextSlot
<1>9. \A k \in DOMAIN q.freeList : q.freeList[k] \notin q.allocated
  <2>1. \A k \in 1 .. n - 1 : f[k] \notin p.allocated /\ f[k] # f[n]
    BY <1>1, <1>8 DEF WellFormed
  <2> QED BY <1>3, <1>4, <1>8, <2>1
<1>10. ASSUME NEW t \in Slots \ q.allocated
       PROVE  \E k \in DOMAIN q.freeList : q.freeList[k] = t
  <2>1. PICK k \in DOMAIN f : f[k] = t BY <1>3 DEF WellFormed
  <2>2. k # n BY <1>3, <1>8, <2>1
  <2>3. k \in 1 .. n - 1 BY <1>1, <1>8, <2>1, <2>2
  <2> QED BY <1>4, <2>1, <2>3
<1>11. \A j, k \in DOMAIN q.freeList : q.freeList[j] = q.freeList[k] => j = k
  BY <1>1, <1>4, <1>8 DEF WellFormed
<1>12. q.inUse = Cardinality(q.allocated)
  <2>1. IsFiniteSet(p.allocated) BY <1>2, SlotsFinite
  <2>2. Cardinality(p.allocated \cup {s}) = Cardinality(p.allocated) + 1
    BY <1>1, <2>1, FS_AddElement
  <2> QED BY <1>3, <2>2 DEF WellFormed
<1> QED BY <1>3, <1>7, <1>9, <1>10, <1>11, <1>12 DEF WellFormed

(* release() of an allocated slot returns it to the free list once and moves *)
(* only that slot's generation: the pool stays well formed.                 *)
LEMMA ReleaseKeepsWellFormed ==
  ASSUME NEW p \in PoolType, WellFormed(p), NEW s \in p.allocated
  PROVE  /\ Release(p, s) \in PoolType /\ WellFormed(Release(p, s))
         /\ Release(p, s).allocated = p.allocated \ {s}
         /\ Release(p, s).generation =
              [p.generation EXCEPT ![s] = (@ + 1) % GenMod]
<1> DEFINE q == Release(p, s)
           f == p.freeList
           n == Len(f)
           g == [p.generation EXCEPT ![s] = (@ + 1) % GenMod]
<1>1. /\ p.generation \in [Slots -> Generations] /\ p.allocated \in SUBSET Slots
      /\ p.inUse \in 0 .. Capacity /\ f \in Seq(Slots) /\ s \in Slots
      /\ n \in Nat /\ DOMAIN f = 1 .. n
  BY DEF PoolType
<1>2. Capacity \in Nat /\ GenMod \in Nat \ {0} BY PoolAssumption
<1>3. q = [generation |-> g, allocated |-> p.allocated \ {s},
           inUse |-> p.inUse - 1, freeList |-> Append(f, s)]
  BY DEF Release, PoolType
<1>4. g \in [Slots -> Generations]
  BY <1>1, <1>2 DEF Generations
<1>5. IsFiniteSet(p.allocated) BY <1>1, SlotsFinite
<1>6. Cardinality(p.allocated \ {s}) = Cardinality(p.allocated) - 1
  BY <1>5, FS_RemoveElement
<1>7. Cardinality(p.allocated \ {s}) \in 0 .. Capacity BY <1>1, SlotsFinite
<1>8. q.inUse = Cardinality(q.allocated) /\ q.inUse \in 0 .. Capacity
  BY <1>3, <1>6, <1>7 DEF WellFormed
<1>9. /\ Append(f, s) \in Seq(Slots) /\ DOMAIN Append(f, s) = 1 .. n + 1
      /\ \A k \in 1 .. n : Append(f, s)[k] = f[k]
      /\ Append(f, s)[n + 1] = s
  BY <1>1
<1>10. q \in PoolType BY <1>1, <1>3, <1>4, <1>8, <1>9 DEF PoolType
<1>11. \A k \in 1 .. n : f[k] # s BY <1>1 DEF WellFormed
<1>12. \A k \in 1 .. n + 1 : Append(f, s)[k] \notin p.allocated \ {s}
  BY <1>1, <1>9 DEF WellFormed
<1>13. ASSUME NEW t \in Slots \ (p.allocated \ {s})
       PROVE  \E k \in 1 .. n + 1 : Append(f, s)[k] = t
  <2>1. CASE t = s BY <1>1, <1>9, <2>1
  <2>2. CASE t # s
    <3>1. PICK k \in 1 .. n : f[k] = t BY <1>1, <2>2 DEF WellFormed
    <3> QED BY <1>1, <1>9, <3>1
  <2> QED BY <2>1, <2>2
<1>14. \A j, k \in 1 .. n + 1 : Append(f, s)[j] = Append(f, s)[k] => j = k
  BY <1>1, <1>9, <1>11 DEF WellFormed
<1> QED BY <1>3, <1>8, <1>9, <1>10, <1>12, <1>13, <1>14 DEF WellFormed

-----------------------------------------------------------------------------
(* The bookkeeping of the manager. *)

NoWrap == MaxReuse + 1 < GenMod

(* The bookkeeping of one state, as a predicate of its parts: "p" the pool, *)
(* "os" the orders, "lv" the live index, "out" the retired ids, and "mid"   *)
(* the ids a handler has made terminal but not retired yet.                 *)
Owns(p, os, id) == IsCurrent(p, id) /\ os[id.slot].id = id

Indexed(p, os, lv, out, mid) ==
  /\ \A s \in p.allocated :
       /\ os[s].id.slot = s /\ IsCurrent(p, os[s].id)
       /\ IF IsTerminal(os[s]) THEN os[s].id \in out \cup mid
                               ELSE os[s].id \in lv
  /\ \A id \in lv : Owns(p, os, id) /\ ~IsTerminal(os[id.slot])
  /\ \A id \in out \cup mid : Owns(p, os, id) /\ IsTerminal(os[id.slot])
  /\ out \cap mid = {}

Distinct(fifo) == \A j, k \in DOMAIN fifo : fifo[j] = fifo[k] => j = k
FifoOK(fifo) == Distinct(fifo) /\ Len(fifo) <= Grace

(* An id a venue can quote names an earlier generation of its slot, or the  *)
(* order that owns it now.                                                  *)
IssuedOK(p, os) == \A id \in issued :
  id.gen < p.generation[id.slot] \/ Owns(p, os, id)

GenerationsOK(p) ==
  \A s \in Slots : /\ p.generation[s] <= MaxReuse + 1
                   /\ s \in p.allocated => p.generation[s] <= MaxReuse

Elements(fifo) == {fifo[k] : k \in DOMAIN fifo}

IndInv ==
  /\ TypeOK
  /\ WellFormed(pool)
  /\ Indexed(pool, orders, live, RetiredIds, {})
  /\ FifoOK(retired)
  /\ IssuedOK(pool, orders)
  /\ GenerationsOK(pool)
  /\ FillWithinOrder
  /\ BenignRejectsAreRaces
  /\ \A t \in trades : t[1] \in live

-----------------------------------------------------------------------------
(* The retired FIFO as a queue without repetition. *)

(* push_back() on the FIFO adds one element. *)
LEMMA AppendElements ==
  ASSUME NEW S, NEW q \in Seq(S), NEW x \in S, Distinct(q), x \notin Elements(q)
  PROVE  /\ Append(q, x) \in Seq(S) /\ Append(q, x) # <<>>
         /\ Elements(Append(q, x)) = Elements(q) \cup {x}
         /\ Distinct(Append(q, x)) /\ Len(Append(q, x)) = Len(q) + 1
<1> DEFINE r == Append(q, x)
<1>1. /\ r \in Seq(S) /\ r # <<>> /\ Len(r) = Len(q) + 1
      /\ \A k \in 1 .. Len(q) : r[k] = q[k]
      /\ r[Len(q) + 1] = x
  BY AppendProperties
<1>2. /\ Len(q) \in Nat /\ DOMAIN q = 1 .. Len(q)
      /\ DOMAIN r = 1 .. Len(q) + 1
  BY <1>1
<1>3. Elements(r) = Elements(q) \cup {x}
  BY <1>1, <1>2 DEF Elements
<1>4. \A k \in 1 .. Len(q) : q[k] # x BY <1>2 DEF Elements
<1>5. Distinct(r)
  BY <1>1, <1>2, <1>4 DEF Distinct
<1> QED BY <1>1, <1>3, <1>5

(* pop_front() on the FIFO removes its head, and nothing else. *)
LEMMA TailElements ==
  ASSUME NEW S, NEW q \in Seq(S), q # <<>>, Distinct(q)
  PROVE  /\ Tail(q) \in Seq(S) /\ Head(q) \in Elements(q)
         /\ Elements(Tail(q)) = Elements(q) \ {Head(q)}
         /\ Distinct(Tail(q)) /\ Len(Tail(q)) = Len(q) - 1
<1> DEFINE r == Tail(q)
<1>1. /\ r \in Seq(S) /\ Len(r) = Len(q) - 1
      /\ \A k \in 1 .. Len(r) : r[k] = q[k + 1]
  BY HeadTailProperties
<1>2. /\ Len(q) \in Nat \ {0} /\ DOMAIN q = 1 .. Len(q)
      /\ DOMAIN r = 1 .. Len(q) - 1 /\ Head(q) = q[1]
  BY <1>1
<1>3. ASSUME NEW y PROVE y \in Elements(r) <=> y \in Elements(q) \ {Head(q)}
  <2>1. ASSUME y \in Elements(r) PROVE y \in Elements(q) \ {Head(q)}
    <3>1. PICK k \in 1 .. Len(q) - 1 : y = r[k] BY <1>2, <2>1 DEF Elements
    <3>2. y = q[k + 1] /\ k + 1 \in 1 .. Len(q) /\ k + 1 # 1
      BY <1>1, <1>2, <3>1
    <3> QED BY <1>2, <3>2 DEF Elements, Distinct
  <2>2. ASSUME y \in Elements(q) \ {Head(q)} PROVE y \in Elements(r)
    <3>1. PICK k \in 1 .. Len(q) : y = q[k] BY <1>2, <2>2 DEF Elements
    <3>2. k # 1 BY <1>2, <2>2, <3>1
    <3>3. k - 1 \in 1 .. Len(q) - 1 /\ r[k - 1] = q[k]
      BY <1>1, <1>2, <3>1, <3>2
    <3> QED BY <1>2, <3>1, <3>3 DEF Elements
  <2> QED BY <2>1, <2>2
<1>4. Distinct(r)
  <2> SUFFICES ASSUME NEW j \in 1 .. Len(q) - 1, NEW k \in 1 .. Len(q) - 1,
                      r[j] = r[k]
               PROVE  j = k
    BY <1>2 DEF Distinct
  <2>1. q[j + 1] = q[k + 1] /\ j + 1 \in DOMAIN q /\ k + 1 \in DOMAIN q
    BY <1>1, <1>2
  <2> QED BY <1>2, <2>1 DEF Distinct
<1>5. Head(q) \in Elements(q) BY <1>2 DEF Elements
<1> QED BY <1>1, <1>3, <1>4, <1>5

-----------------------------------------------------------------------------
(* retire(): a terminal order moves from the handler into the FIFO, and the *)
(* oldest one beyond the grace window gives its slot back.                  *)
LEMMA RetireKeepsBooks ==
  ASSUME NoWrap, ManagerAssumption, retired \in Seq(Ids), FifoOK(retired),
         NEW p \in PoolType, WellFormed(p), GenerationsOK(p),
         NEW os \in [Slots -> OrderType], NEW id \in Ids,
         NEW ex, ex \subseteq RetiredIds \cup {id},
         Indexed(p, os, live \ {id}, RetiredIds, {id}),
         IssuedOK(p, os), issued \subseteq Ids, live \subseteq Ids,
         Retire(id, p, ex)
  PROVE  /\ pool' \in PoolType /\ WellFormed(pool') /\ GenerationsOK(pool')
         /\ pool'.allocated \subseteq p.allocated
         /\ live' = live \ {id} /\ trades' = {t \in trades : t[1] # id}
         /\ retired' \in Seq(Ids) /\ FifoOK(retired')
         /\ Indexed(pool', os, live', Elements(retired'), {})
         /\ IssuedOK(pool', os)
         /\ expectedFalse' \subseteq ex /\ expectedFalse' \subseteq Elements(retired')
<1> DEFINE q == Append(retired, id)
           old == Head(q)
           out == Elements(q)
<1>1. /\ RetiredIds = Elements(retired) /\ Distinct(retired)
      /\ Len(retired) <= Grace /\ id \notin Elements(retired)
  BY DEF RetiredIds, Elements, Distinct, FifoOK, Indexed
<1>2. /\ q \in Seq(Ids) /\ q # <<>> /\ Len(q) = Len(retired) + 1
      /\ out = RetiredIds \cup {id} /\ Distinct(q)
  BY <1>1, AppendElements
<1>3. /\ Tail(q) \in Seq(Ids) /\ old \in out /\ Elements(Tail(q)) = out \ {old}
      /\ Distinct(Tail(q)) /\ Len(Tail(q)) = Len(q) - 1
  BY <1>2, TailElements
<1>4. /\ \A x \in out : Owns(p, os, x) /\ IsTerminal(os[x.slot])
      /\ \A x \in live \ {id} : Owns(p, os, x) /\ ~IsTerminal(os[x.slot])
      /\ \A s \in p.allocated :
           /\ os[s].id.slot = s /\ IsCurrent(p, os[s].id)
           /\ IF IsTerminal(os[s]) THEN os[s].id \in out
                                   ELSE os[s].id \in live \ {id}
  BY <1>2 DEF Indexed
<1>5. /\ live' = live \ {id} /\ trades' = {t \in trades : t[1] # id}
  BY DEF Retire
<1>6. CASE ~(Len(q) > Grace)
  <2>1. pool' = p /\ retired' = q /\ expectedFalse' = ex
    BY <1>6 DEF Retire
  <2>2. FifoOK(retired')
    BY <1>2, <1>6, <2>1 DEF FifoOK, Distinct, ManagerAssumption
  <2>3. Indexed(pool', os, live', Elements(retired'), {})
    BY <1>4, <1>5, <2>1 DEF Indexed
  <2> QED BY <1>2, <1>5, <2>1, <2>2, <2>3
<1>7. CASE Len(q) > Grace
  <2>1. old.slot \in p.allocated /\ os[old.slot].id = old /\ IsCurrent(p, old)
        /\ IsTerminal(os[old.slot])
    BY <1>3, <1>4 DEF Owns, IsCurrent
  <2>2. pool' = Release(p, old.slot) /\ retired' = Tail(q)
        /\ expectedFalse' = ex \ {old}
    BY <1>7, <2>1 DEF Retire
  <2>3. /\ pool' \in PoolType /\ WellFormed(pool')
        /\ pool'.allocated = p.allocated \ {old.slot}
        /\ pool'.generation =
             [p.generation EXCEPT ![old.slot] = (@ + 1) % GenMod]
    BY <2>1, <2>2, ReleaseKeepsWellFormed
  <2>4. /\ p.generation \in [Slots -> Generations] /\ p.allocated \subseteq Slots
        /\ MaxReuse \in Nat /\ GenMod \in Nat \ {0}
    BY PoolAssumption DEF PoolType, ManagerAssumption
  <2>5. (p.generation[old.slot] + 1) % GenMod = p.generation[old.slot] + 1
    <3> DEFINE g == p.generation[old.slot]
    <3>1. g \in Nat /\ g <= MaxReuse
      BY <2>1, <2>4 DEF GenerationsOK, Generations
    <3>2. MaxReuse \in Nat /\ GenMod \in Nat \ {0} /\ MaxReuse + 1 < GenMod
      BY <2>4 DEF NoWrap
    <3>3. \A n \in Nat : n <= MaxReuse => (n + 1) % GenMod = n + 1
      BY <3>2
    <3> QED BY <3>1, <3>3
  <2>6. /\ pool'.generation[old.slot] = p.generation[old.slot] + 1
        /\ \A s \in Slots \ {old.slot} : pool'.generation[s] = p.generation[s]
    BY <2>1, <2>3, <2>4, <2>5
  <2>7. GenerationsOK(pool')
    <3> SUFFICES ASSUME NEW s \in Slots
                 PROVE  /\ pool'.generation[s] <= MaxReuse + 1
                        /\ s \in pool'.allocated => pool'.generation[s] <= MaxReuse
      BY DEF GenerationsOK
    <3>1. CASE s = old.slot
      <4>1. p.generation[old.slot] \in Nat /\ p.generation[old.slot] <= MaxReuse
        BY <2>1, <2>4 DEF GenerationsOK, Generations
      <4>2. MaxReuse \in Nat BY ManagerAssumption DEF ManagerAssumption
      <4>3. pool'.generation[s] <= MaxReuse + 1 BY <2>6, <3>1, <4>1, <4>2
      <4>4. s \notin pool'.allocated BY <2>3, <3>1
      <4> QED BY <4>3, <4>4
    <3>2. CASE s # old.slot
      BY <2>3, <2>6, <3>2 DEF GenerationsOK
    <3> QED BY <3>1, <3>2
  <2>8. FifoOK(retired')
    <3>1. Distinct(retired') BY <1>3, <2>2
    <3>2. Len(retired) \in Nat /\ retired' = Tail(q) BY <2>2
    <3>3. Len(retired') = Len(retired) BY <1>2, <1>3, <3>2
    <3> QED BY <1>1, <3>1, <3>3 DEF FifoOK
  <2>9. \A x : Owns(p, os, x) /\ x.slot # old.slot => Owns(pool', os, x)
    BY <2>3, <2>4, <2>6 DEF Owns, IsCurrent
  <2>10. Indexed(pool', os, live', Elements(retired'), {})
    <3>1. \A x \in live' : Owns(pool', os, x) /\ ~IsTerminal(os[x.slot])
      BY <1>4, <1>5, <2>1, <2>9
    <3>2. \A x \in out \ {old} : Owns(pool', os, x) /\ IsTerminal(os[x.slot])
      BY <1>4, <2>1, <2>9 DEF Owns
    <3>3. ASSUME NEW s \in pool'.allocated
          PROVE  /\ os[s].id.slot = s /\ IsCurrent(pool', os[s].id)
                 /\ IF IsTerminal(os[s]) THEN os[s].id \in out \ {old}
                                         ELSE os[s].id \in live'
      <4>1. s \in p.allocated /\ s # old.slot /\ s \in Slots BY <2>3, <2>4
      <4> QED BY <1>4, <1>5, <2>3, <2>6, <4>1 DEF IsCurrent
    <3> QED BY <1>3, <2>2, <3>1, <3>2, <3>3 DEF Indexed
  <2>11. IssuedOK(pool', os)
    <3> SUFFICES ASSUME NEW x \in issued
                 PROVE  x.gen < pool'.generation[x.slot] \/ Owns(pool', os, x)
      BY DEF IssuedOK
    <3>1. x.slot \in Slots /\ x.gen \in Nat BY <2>4 DEF Ids, Generations
    <3>2. x.gen <= p.generation[x.slot]
      BY <2>4, <3>1 DEF IssuedOK, Owns, IsCurrent, Generations
    <3>3. CASE x.slot = old.slot
      BY <2>4, <2>6, <3>1, <3>2, <3>3 DEF Generations
    <3>4. CASE x.slot # old.slot
      BY <2>6, <2>9, <3>1, <3>4 DEF IssuedOK
    <3> QED BY <3>3, <3>4
  <2> QED BY <1>2, <1>3, <1>5, <2>2, <2>3, <2>7, <2>8, <2>10, <2>11
<1> QED BY <1>6, <1>7

-----------------------------------------------------------------------------
(* Three shapes of step.  Every handler either leaves the orders alone,     *)
(* reworks open orders, or opens or finishes one.                           *)

(* An event that passes validation names the live order its id was given to. *)
LEMMA OpenIsLive ==
  ASSUME IndInv, NEW id \in issued, Open(id)
  PROVE  /\ id \in live /\ id \in Ids /\ id.slot \in Slots
         /\ id.slot \in pool.allocated /\ OrderOf(id) \in OrderType
         /\ OrderOf(id).id = id /\ ~IsTerminal(OrderOf(id))
         /\ OrderOf(id).filled < OrderOf(id).size
<1>1. /\ id \in Ids /\ id.slot \in Slots /\ id.gen \in Nat
      /\ pool.generation \in [Slots -> Generations]
  BY PoolAssumption DEF IndInv, TypeOK, Ids, PoolType, Generations
<1>2. /\ pool.generation[id.slot] = id.gen /\ id.slot \in pool.allocated
      /\ ~IsTerminal(OrderOf(id))
  BY DEF Open, Known, IsCurrent
<1>3. OrderOf(id).id = id
  BY <1>1, <1>2 DEF IndInv, IssuedOK, Owns, OrderOf
<1>4. id \in live
  BY <1>2, <1>3 DEF IndInv, Indexed, OrderOf
<1>5. OrderOf(id) \in OrderType BY <1>1 DEF IndInv, TypeOK, OrderOf
<1>6. OrderOf(id).filled < OrderOf(id).size
  BY <1>2, <1>5 DEF IndInv, FillWithinOrder, OrderOf, OrderType, IsTerminal, Terminal
<1> QED BY <1>1, <1>2, <1>3, <1>4, <1>5, <1>6

(* A handler that touches neither the orders nor their indexes. *)
LEMMA FrameKeepsInv ==
  ASSUME IndInv, UNCHANGED <<index, orders, ids>>, TypeOK'
  PROVE  IndInv'
<1>1. UNCHANGED <<pool, live, retired, expectedFalse, trades, orders, issued>>
  BY DEF index, ids
<1>2. UNCHANGED RetiredIds BY <1>1 DEF RetiredIds
<1> QED BY <1>1, <1>2 DEF IndInv, Indexed, IssuedOK, FillWithinOrder, BenignRejectsAreRaces, OrderOf

(* An open order changes, keeps its id and stays open. *)
Reworked(o, r) ==
  /\ r.id = o.id /\ r.size = o.size /\ ~IsTerminal(o) /\ ~IsTerminal(r)
  /\ 0 <= r.filled /\ r.filled < r.size

(* A handler that reworks open orders in place: cancel(), on_confirm(), a   *)
(* partial fill, a cancel-reject, the ack timer.                            *)
LEMMA ReworkKeepsInv ==
  ASSUME IndInv, TypeOK', UNCHANGED <<pool, live, retired, ids>>,
         expectedFalse' \subseteq expectedFalse,
         \A s \in Slots : \/ orders'[s] = orders[s]
                          \/ s \in pool.allocated /\ Reworked(orders[s], orders'[s]),
         \A t \in trades' : t[1] \in live
  PROVE  IndInv'
<1>1. UNCHANGED <<pool, live, retired, issued, RetiredIds>>
  BY DEF ids, RetiredIds
<1>2. pool.allocated \subseteq Slots /\ issued \subseteq Ids
      /\ \A id \in Ids : id.slot \in Slots
  BY DEF IndInv, TypeOK, PoolType, Ids
<1>3. /\ \A s \in Slots : orders'[s].id = orders[s].id
      /\ \A s \in Slots : IsTerminal(orders'[s]) <=> IsTerminal(orders[s])
      /\ \A s \in Slots : IsTerminal(orders[s]) => orders'[s] = orders[s]
  BY DEF Reworked
<1>4. Indexed(pool', orders', live', RetiredIds', {})
  BY <1>1, <1>2, <1>3 DEF IndInv, Indexed, Owns, IsCurrent
<1>5. IssuedOK(pool', orders')
  BY <1>1, <1>2, <1>3 DEF IndInv, IssuedOK, Owns, IsCurrent
<1>6. FillWithinOrder'
  <2> SUFFICES ASSUME NEW s \in pool.allocated
               PROVE  /\ 0 <= orders'[s].filled
                      /\ orders'[s].filled <= orders'[s].size
                      /\ orders'[s].filled = orders'[s].size <=> orders'[s].status = "Filled"
    BY <1>1 DEF FillWithinOrder
  <2>1. s \in Slots /\ orders'[s] \in OrderType BY <1>2 DEF TypeOK
  <2>2. CASE orders'[s] = orders[s]
    BY <2>2 DEF IndInv, FillWithinOrder
  <2>3. CASE Reworked(orders[s], orders'[s])
    BY <2>1, <2>3 DEF Reworked, IsTerminal, Terminal, OrderType
  <2> QED BY <2>1, <2>2, <2>3
<1>7. BenignRejectsAreRaces'
  BY <1>1, <1>2, <1>3 DEF IndInv, BenignRejectsAreRaces, OrderOf, Indexed, Owns, IsCurrent
<1>8. WellFormed(pool') /\ FifoOK(retired') /\ GenerationsOK(pool')
  BY <1>1 DEF IndInv
<1>9. \A t \in trades' : t[1] \in live' BY <1>1
<1> QED BY <1>1, <1>4, <1>5, <1>6, <1>7, <1>8, <1>9 DEF IndInv, IssuedOK

(* A handler that makes an open order terminal and retires it: a final      *)
(* fill, a place reject, a cancel-ack, an unsolicited cancel.               *)
LEMMA FinishKeepsInv ==
  ASSUME NoWrap, IndInv, TypeOK', UNCHANGED ids,
         NEW id \in issued, Open(id), NEW o \in OrderType, NEW ex,
         Update(id, o), o.id = id, o.size = OrderOf(id).size,
         IsTerminal(o), 0 <= o.filled, o.filled <= o.size,
         o.filled = o.size <=> o.status = "Filled",
         ex \subseteq expectedFalse \cup {id},
         id \in ex => o.status = "Filled" /\ o.pendingCancel,
         Retire(id, pool, ex)
  PROVE  IndInv'
<1>1. /\ id \in live /\ id \in Ids /\ id.slot \in Slots
      /\ id.slot \in pool.allocated /\ OrderOf(id).id = id
      /\ ~IsTerminal(OrderOf(id))
  BY OpenIsLive
<1>2. /\ orders' \in [Slots -> OrderType] /\ orders \in [Slots -> OrderType]
      /\ pool \in PoolType /\ pool.allocated \subseteq Slots
      /\ live \subseteq Ids /\ issued \subseteq Ids /\ retired \in Seq(Ids)
      /\ \A x \in Ids : x.slot \in Slots
      /\ issued' = issued
  BY DEF IndInv, TypeOK, PoolType, Ids, ids
<1>3. /\ orders'[id.slot] = o
      /\ \A s \in Slots : s # id.slot => orders'[s] = orders[s]
  BY <1>1, <1>2 DEF Update
<1>4. \A s \in Slots : orders'[s].id = orders[s].id
  BY <1>1, <1>3 DEF OrderOf
<1>5. /\ \A s \in pool.allocated : orders[s].id.slot = s /\ IsCurrent(pool, orders[s].id)
      /\ \A x \in live \cup RetiredIds : Owns(pool, orders, x)
      /\ \A x \in live : ~IsTerminal(orders[x.slot])
      /\ \A x \in RetiredIds : IsTerminal(orders[x.slot])
      /\ \A s \in pool.allocated : IF IsTerminal(orders[s])
           THEN orders[s].id \in RetiredIds ELSE orders[s].id \in live
  BY DEF IndInv, Indexed
<1>6. \A x \in (live \cup RetiredIds) \ {id} : x.slot # id.slot /\ x.slot \in Slots
  BY <1>1, <1>2, <1>5 DEF Owns, OrderOf, IsCurrent
<1>7. id \notin RetiredIds BY <1>1, <1>5 DEF OrderOf
<1>8. Indexed(pool, orders', live \ {id}, RetiredIds, {id})
  <2>1. \A x \in live \cup RetiredIds : Owns(pool, orders', x)
    BY <1>2, <1>4, <1>5 DEF Owns, IsCurrent
  <2>2. \A x \in live \ {id} : ~IsTerminal(orders'[x.slot])
    BY <1>3, <1>5, <1>6
  <2>3. \A x \in RetiredIds \cup {id} : IsTerminal(orders'[x.slot])
    BY <1>3, <1>5, <1>6, <1>7
  <2>4. ASSUME NEW s \in pool.allocated
        PROVE  /\ orders'[s].id.slot = s /\ IsCurrent(pool, orders'[s].id)
               /\ IF IsTerminal(orders'[s]) THEN orders'[s].id \in RetiredIds \cup {id}
                                            ELSE orders'[s].id \in live \ {id}
    <3>1. s \in Slots BY <1>2
    <3>2. CASE s = id.slot BY <1>1, <1>3, <1>4, <1>5, <3>1, <3>2
    <3>3. CASE s # id.slot BY <1>3, <1>5, <3>1, <3>3
    <3> QED BY <3>2, <3>3
  <2> QED BY <1>1, <1>7, <2>1, <2>2, <2>3, <2>4 DEF Indexed
<1>9. IssuedOK(pool, orders')
  BY <1>2, <1>4 DEF IndInv, IssuedOK, Owns
<1>10. ex \subseteq RetiredIds \cup {id}
  BY DEF IndInv, BenignRejectsAreRaces
<1>11. /\ pool' \in PoolType /\ WellFormed(pool') /\ GenerationsOK(pool')
       /\ pool'.allocated \subseteq pool.allocated
       /\ live' = live \ {id} /\ trades' = {t \in trades : t[1] # id}
       /\ retired' \in Seq(Ids) /\ FifoOK(retired')
       /\ Indexed(pool', orders', live', Elements(retired'), {})
       /\ IssuedOK(pool', orders')
       /\ expectedFalse' \subseteq ex /\ expectedFalse' \subseteq Elements(retired')
  BY <1>1, <1>2, <1>8, <1>9, <1>10, RetireKeepsBooks, ManagerAssumption DEF IndInv
<1>12. Elements(retired') = RetiredIds' BY DEF Elements, RetiredIds
<1>13. FillWithinOrder'
  <2> SUFFICES ASSUME NEW s \in pool.allocated
               PROVE  /\ 0 <= orders'[s].filled
                      /\ orders'[s].filled <= orders'[s].size
                      /\ orders'[s].filled = orders'[s].size <=> orders'[s].status = "Filled"
    BY <1>11 DEF FillWithinOrder
  <2>1. CASE s = id.slot BY <1>3, <2>1
  <2>2. CASE s # id.slot BY <1>2, <1>3, <2>2 DEF IndInv, FillWithinOrder
  <2> QED BY <2>1, <2>2
<1>14. BenignRejectsAreRaces'
  <2> SUFFICES ASSUME NEW x \in expectedFalse'
               PROVE  /\ x \in RetiredIds' /\ orders'[x.slot].status = "Filled"
                      /\ orders'[x.slot].pendingCancel
    BY DEF BenignRejectsAreRaces, OrderOf
  <2>1. x \in RetiredIds' BY <1>11, <1>12
  <2>2. CASE x = id BY <1>3, <1>11, <2>1, <2>2
  <2>3. CASE x # id
    <3>1. x \in expectedFalse /\ x \in RetiredIds
      BY <1>11, <2>3 DEF IndInv, BenignRejectsAreRaces
    <3>2. orders'[x.slot] = orders[x.slot] BY <1>3, <1>6, <2>3, <3>1
    <3> QED BY <2>1, <3>1, <3>2 DEF IndInv, BenignRejectsAreRaces, OrderOf
  <2> QED BY <2>2, <2>3
<1>16. \A t \in trades' : t[1] \in live' BY <1>11 DEF IndInv
<1> QED BY <1>2, <1>11, <1>12, <1>13, <1>14, <1>16 DEF IndInv, IssuedOK

(* submit() after acquire(): the new order owns a slot nothing refers to.   *)
LEMMA AcquireKeepsBooks ==
  ASSUME ManagerAssumption, IndInv, NEW v \in Venues, NEW req \in Requests,
         CanSubmit, WithinBounds(v), NEW st \in {"Sent", "Rejected"},
         Update(NewId(v), NewOrder(NewId(v), req, st))
  PROVE  LET id == NewId(v)
             p  == Acquire(pool)
         IN /\ p \in PoolType /\ WellFormed(p) /\ GenerationsOK(p)
            /\ p.allocated = pool.allocated \cup {id.slot}
            /\ id \in Ids /\ id \notin live /\ id \notin RetiredIds
            /\ id.slot \in Slots /\ id.slot \notin pool.allocated
            /\ orders' \in [Slots -> OrderType]
            /\ orders'[id.slot] = NewOrder(id, req, st)
            /\ \A s \in Slots \ {id.slot} : orders'[s] = orders[s]
            /\ st = "Sent" => Indexed(p, orders', live \cup {id}, RetiredIds, {})
            /\ st = "Rejected" => Indexed(p, orders', live \ {id}, RetiredIds, {id})
            /\ IssuedOK(p, orders') /\ Owns(p, orders', id)
            /\ \A x \in live \cup RetiredIds : x.slot \in Slots \ {id.slot}
            /\ \A s \in p.allocated :
                 /\ 0 <= orders'[s].filled /\ orders'[s].filled <= orders'[s].size
                 /\ orders'[s].filled = orders'[s].size <=> orders'[s].status = "Filled"
<1> DEFINE id == NewId(v)
           p  == Acquire(pool)
           o  == NewOrder(id, req, st)
           sl == NextSlot(pool)
<1>1. /\ pool \in PoolType /\ WellFormed(pool) /\ pool.inUse < Capacity
      /\ orders \in [Slots -> OrderType]
      /\ pool.generation \in [Slots -> Generations] /\ pool.allocated \subseteq Slots
      /\ live \subseteq Ids /\ issued \subseteq Ids
      /\ \A x \in Ids : x.slot \in Slots
  BY DEF IndInv, TypeOK, CanSubmit, PoolType, Ids
<1>2. /\ sl \in Slots /\ sl \notin pool.allocated BY <1>1, FreeSlot
<1>3. /\ p \in PoolType /\ WellFormed(p)
      /\ p.allocated = pool.allocated \cup {sl} /\ p.generation = pool.generation
  BY <1>1, AcquireKeepsWellFormed
<1>4. id.slot = sl /\ id.gen = pool.generation[sl] /\ id \in Ids
  <2>1. venueSeq[v] \in Nat BY DEF IndInv, TypeOK
  <2>2. (venueSeq[v] + 1) % SeqMod \in 0 .. SeqMod - 1
    BY <2>1 DEF ManagerAssumption
  <2> QED BY <1>1, <1>2, <2>2 DEF NewId, Ids
<1>5. /\ req.inst \in Instruments /\ req.side \in Sides /\ req.size \in Nat \ {0}
  BY DEF ManagerAssumption, Sides
<1>6. /\ o \in OrderType /\ o.id = id /\ o.size = req.size /\ o.filled = 0 /\ o.status = st
  BY <1>4, <1>5 DEF NewOrder, OrderType, Statuses, Terminal
<1>7. /\ orders' \in [Slots -> OrderType] /\ orders'[sl] = o
      /\ \A s \in Slots \ {sl} : orders'[s] = orders[s]
  BY <1>1, <1>2, <1>4, <1>6 DEF Update
<1>8. GenerationsOK(p)
  BY <1>1, <1>2, <1>3 DEF GenerationsOK, IndInv, WithinBounds
<1>9. /\ \A s \in pool.allocated : orders[s].id.slot = s /\ IsCurrent(pool, orders[s].id)
      /\ \A x \in live \cup RetiredIds : Owns(pool, orders, x)
      /\ \A x \in live : ~IsTerminal(orders[x.slot])
      /\ \A x \in RetiredIds : IsTerminal(orders[x.slot])
      /\ \A s \in pool.allocated : IF IsTerminal(orders[s])
           THEN orders[s].id \in RetiredIds ELSE orders[s].id \in live
  BY DEF IndInv, Indexed
<1>10. \A x \in live \cup RetiredIds : x.slot \in Slots \ {sl} /\ x # id
  BY <1>1, <1>2, <1>4, <1>9 DEF Owns, IsCurrent
<1>11. Owns(p, orders', id)
  BY <1>3, <1>4, <1>6, <1>7 DEF Owns, IsCurrent
<1>12. \A x \in live \cup RetiredIds : Owns(p, orders', x)
  BY <1>3, <1>7, <1>9, <1>10 DEF Owns, IsCurrent
<1>13. IsTerminal(orders'[sl]) <=> st = "Rejected"
  BY <1>6, <1>7 DEF IsTerminal, Terminal
<1>14. \A x \in live \cup RetiredIds : orders'[x.slot] = orders[x.slot]
  BY <1>7, <1>10
<1>15. \A s \in pool.allocated : orders'[s] = orders[s] /\ IsCurrent(p, orders'[s].id)
                                /\ orders'[s].id.slot = s
  BY <1>1, <1>2, <1>3, <1>7, <1>9 DEF IsCurrent
<1>16. st = "Sent" => Indexed(p, orders', live \cup {id}, RetiredIds, {})
  BY <1>3, <1>4, <1>6, <1>7, <1>9, <1>11, <1>12, <1>13, <1>14, <1>15 DEF Indexed, Owns
<1>17. st = "Rejected" => Indexed(p, orders', live \ {id}, RetiredIds, {id})
  BY <1>3, <1>4, <1>6, <1>7, <1>9, <1>10, <1>11, <1>12, <1>13, <1>14, <1>15 DEF Indexed, Owns
<1>18. IssuedOK(p, orders')
  <2> SUFFICES ASSUME NEW x \in issued
               PROVE  x.gen < p.generation[x.slot] \/ Owns(p, orders', x)
    BY DEF IssuedOK
  <2>1. x.slot \in Slots BY <1>1
  <2>2. CASE x.gen < pool.generation[x.slot] BY <1>3, <2>2
  <2>3. CASE Owns(pool, orders, x)
    BY <1>2, <1>3, <1>7, <2>1, <2>3 DEF Owns, IsCurrent
  <2> QED BY <2>2, <2>3 DEF IndInv, IssuedOK
<1>19. ASSUME NEW s \in p.allocated
       PROVE  /\ 0 <= orders'[s].filled /\ orders'[s].filled <= orders'[s].size
              /\ orders'[s].filled = orders'[s].size <=> orders'[s].status = "Filled"
  <2>1. CASE s = sl BY <1>5, <1>6, <1>7, <2>1
  <2>2. CASE s # sl BY <1>1, <1>3, <1>7, <2>2 DEF IndInv, FillWithinOrder
  <2> QED BY <2>1, <2>2
<1> QED BY <1>2, <1>3, <1>4, <1>7, <1>8, <1>10, <1>11, <1>16, <1>17, <1>18, <1>19

-----------------------------------------------------------------------------
(* The actions, one lemma for each group of handlers. *)

(* The constructor's state satisfies the inductive invariant. *)
LEMMA InitIndInv == Init => IndInv
<1> SUFFICES ASSUME Init PROVE IndInv OBVIOUS
<1>1. EmptyPool \in PoolType /\ WellFormed(EmptyPool) BY EmptyPoolWellFormed
<1>2. /\ Capacity \in Nat \ {0} /\ GenMod \in Nat \ {0} /\ SeqMod \in Nat \ {0}
      /\ MaxReuse \in Nat /\ Grace \in Nat /\ UnknownFillThreshold \in Nat
      /\ Instruments # {}
  BY PoolAssumption, ManagerAssumption DEF ManagerAssumption
<1>3. BlankOrder \in OrderType
  BY <1>2 DEF BlankOrder, OrderType, NoId, Ids, Sides, Statuses, Slots, Generations
<1>4. TypeOK
  <2>1. pool \in PoolType /\ orders \in [Slots -> OrderType] BY <1>1, <1>3 DEF Init
  <2>2. retired \in Seq(Ids) BY DEF Init
  <2>3. /\ position \in [Instruments -> Int] /\ pending \in [Instruments -> Int]
        /\ venueSeq \in [Venues -> Nat]
    BY DEF Init
  <2>4. unknownFills \in 0 .. UnknownFillThreshold + 1 BY <1>2 DEF Init
  <2> QED BY <2>1, <2>2, <2>3, <2>4 DEF Init, TypeOK
<1>5. /\ RetiredIds = {} /\ pool.allocated = {} /\ live = {} /\ issued = {}
      /\ trades = {} /\ expectedFalse = {} /\ retired = <<>>
      /\ \A s \in Slots : pool.generation[s] = 0
  BY DEF Init, EmptyPool, RetiredIds
<1>6. Indexed(pool, orders, live, RetiredIds, {}) BY <1>5 DEF Indexed
<1>7. FifoOK(retired) BY <1>2, <1>5 DEF FifoOK, Distinct
<1>8. IssuedOK(pool, orders) BY <1>5 DEF IssuedOK
<1>9. GenerationsOK(pool) BY <1>2, <1>5 DEF GenerationsOK
<1>10. FillWithinOrder BY <1>5 DEF FillWithinOrder
<1>11. BenignRejectsAreRaces BY <1>5 DEF BenignRejectsAreRaces
<1> QED BY <1>1, <1>4, <1>5, <1>6, <1>7, <1>8, <1>9, <1>10, <1>11
        DEF IndInv, Init

(* The signed quantity of an order, and the books after a change by one.    *)
LEMMA BooksTyped ==
  ASSUME NEW side \in Sides, NEW n \in Int, NEW i \in Instruments,
         NEW b \in [Instruments -> Int]
  PROVE  /\ [b EXCEPT ![i] = @ + Signed(side, n)] \in [Instruments -> Int]
         /\ [b EXCEPT ![i] = @ - Signed(side, n)] \in [Instruments -> Int]
<1>1. Signed(side, n) \in Int BY DEF Signed
<1> QED BY <1>1

(* submit() keeps the invariant: sent, refused by the transport, exhausted  *)
(* or without a venue.                                                      *)
LEMMA SubmitKeepsInv == NoWrap /\ IndInv /\ Submit => IndInv'
<1> SUFFICES ASSUME NoWrap, IndInv, Submit PROVE IndInv' OBVIOUS
<1> USE ManagerAssumption
<1>1. ASSUME NEW v \in Venues, NEW req \in Requests, SubmitAccepted(v, req)
      PROVE  IndInv'
  <2> DEFINE id == NewId(v)
             p  == Acquire(pool)
  <2>1. /\ pool' = p /\ live' = live \cup {id} /\ issued' = issued \cup {id}
        /\ pending' = [pending EXCEPT ![req.inst] = @ + Signed(req.side, req.size)]
        /\ venueSeq' = [venueSeq EXCEPT ![v] = @ + 1]
        /\ UNCHANGED <<retired, expectedFalse, trades, position, flags>>
        /\ CanSubmit /\ WithinBounds(v) /\ Update(id, NewOrder(id, req, "Sent"))
    BY <1>1 DEF SubmitAccepted
  <2>2. /\ p \in PoolType /\ WellFormed(p) /\ GenerationsOK(p)
        /\ id \in Ids /\ id.slot \in Slots
        /\ orders' \in [Slots -> OrderType]
        /\ \A s \in Slots \ {id.slot} : orders'[s] = orders[s]
        /\ Indexed(p, orders', live \cup {id}, RetiredIds, {})
        /\ IssuedOK(p, orders') /\ Owns(p, orders', id)
        /\ \A x \in live \cup RetiredIds : x.slot \in Slots \ {id.slot}
        /\ \A s \in p.allocated :
             /\ 0 <= orders'[s].filled /\ orders'[s].filled <= orders'[s].size
             /\ orders'[s].filled = orders'[s].size <=> orders'[s].status = "Filled"
    BY <2>1, AcquireKeepsBooks
  <2>3. req.inst \in Instruments /\ req.side \in Sides /\ req.size \in Int
    BY DEF ManagerAssumption, Sides
  <2>4. pending' \in [Instruments -> Int] /\ venueSeq' \in [Venues -> Nat]
    <3>1. pending \in [Instruments -> Int] /\ venueSeq \in [Venues -> Nat]
      BY DEF IndInv, TypeOK
    <3>2. [pending EXCEPT ![req.inst] = @ + Signed(req.side, req.size)]
            \in [Instruments -> Int]
      BY <2>3, <3>1, BooksTyped
    <3> QED BY <2>1, <3>1, <3>2
  <2>5. TypeOK'
    BY <2>1, <2>2, <2>4 DEF IndInv, TypeOK, flags
  <2>6. RetiredIds' = RetiredIds BY <2>1 DEF RetiredIds
  <2>7. \A x \in issued' : x.gen < pool'.generation[x.slot] \/ Owns(pool', orders', x)
    BY <2>1, <2>2 DEF IssuedOK
  <2>8. BenignRejectsAreRaces'
    BY <2>1, <2>2, <2>6 DEF IndInv, BenignRejectsAreRaces, OrderOf
  <2>9. FillWithinOrder' BY <2>1, <2>2 DEF FillWithinOrder
  <2>10. \A t \in trades' : t[1] \in live' BY <2>1 DEF IndInv
  <2> QED BY <2>1, <2>2, <2>5, <2>6, <2>7, <2>8, <2>9, <2>10 DEF IndInv, IssuedOK
<1>2. ASSUME NEW v \in Venues, NEW req \in Requests, SubmitRejectedLocally(v, req)
      PROVE  IndInv'
  <2> DEFINE id == NewId(v)
             p  == Acquire(pool)
  <2>1. /\ Retire(id, p, expectedFalse)
        /\ venueSeq' = [venueSeq EXCEPT ![v] = @ + 1]
        /\ UNCHANGED <<books, flags, issued>>
        /\ CanSubmit /\ WithinBounds(v) /\ Update(id, NewOrder(id, req, "Rejected"))
    BY <1>2 DEF SubmitRejectedLocally
  <2>2. /\ p \in PoolType /\ WellFormed(p) /\ GenerationsOK(p)
        /\ id \in Ids /\ id.slot \in Slots /\ id \notin live
        /\ orders' \in [Slots -> OrderType]
        /\ \A s \in Slots \ {id.slot} : orders'[s] = orders[s]
        /\ Indexed(p, orders', live \ {id}, RetiredIds, {id})
        /\ IssuedOK(p, orders')
        /\ \A x \in live \cup RetiredIds : x.slot \in Slots \ {id.slot}
        /\ \A s \in p.allocated :
             /\ 0 <= orders'[s].filled /\ orders'[s].filled <= orders'[s].size
             /\ orders'[s].filled = orders'[s].size <=> orders'[s].status = "Filled"
    BY <2>1, AcquireKeepsBooks
  <2>3. /\ retired \in Seq(Ids) /\ FifoOK(retired) /\ issued \subseteq Ids
        /\ live \subseteq Ids /\ expectedFalse \subseteq RetiredIds \cup {id}
    BY DEF IndInv, TypeOK, BenignRejectsAreRaces
  <2>4. /\ pool' \in PoolType /\ WellFormed(pool') /\ GenerationsOK(pool')
        /\ pool'.allocated \subseteq p.allocated
        /\ live' = live \ {id} /\ trades' = {t \in trades : t[1] # id}
        /\ retired' \in Seq(Ids) /\ FifoOK(retired')
        /\ Indexed(pool', orders', live', Elements(retired'), {})
        /\ IssuedOK(pool', orders')
        /\ expectedFalse' \subseteq expectedFalse
        /\ expectedFalse' \subseteq Elements(retired')
    BY <2>1, <2>2, <2>3, RetireKeepsBooks
  <2>5. RetiredIds' = Elements(retired') BY DEF RetiredIds, Elements
  <2>6. venueSeq' \in [Venues -> Nat] BY <2>1 DEF IndInv, TypeOK
  <2>7. TypeOK'
    BY <2>1, <2>2, <2>3, <2>4, <2>6 DEF IndInv, TypeOK, flags, books
  <2>8. BenignRejectsAreRaces'
    BY <2>2, <2>4, <2>5 DEF IndInv, BenignRejectsAreRaces, OrderOf
  <2>9. FillWithinOrder' BY <2>2, <2>4 DEF FillWithinOrder
  <2>10. \A t \in trades' : t[1] \in live' BY <2>4 DEF IndInv
  <2> QED BY <2>1, <2>4, <2>5, <2>7, <2>8, <2>9, <2>10 DEF IndInv, IssuedOK
<1>3. CASE SubmitExhausted
  <2>1. TypeOK'
    BY <1>3 DEF SubmitExhausted, IndInv, TypeOK, index, books, ids
  <2> QED BY <1>3, <2>1, FrameKeepsInv DEF SubmitExhausted
<1>4. ASSUME NEW up \in SUBSET Venues, SubmitAllDown(up) PROVE IndInv'
  <2>1. ASSUME NEW s \in Slots
        PROVE  /\ orders'[s] \in OrderType
               /\ \/ orders'[s] = orders[s]
                  \/ s \in pool.allocated /\ Reworked(orders[s], orders'[s])
    <3>1. orders[s] \in OrderType BY DEF IndInv, TypeOK
    <3>2. CASE \E id \in Working(up) : id.slot = s
      <4>1. PICK id \in live : id.slot = s /\ Open(id) BY <3>2 DEF Working
      <4>2. s \in pool.allocated /\ ~IsTerminal(orders[s])
        BY <4>1 DEF Open, Known, IsCurrent, OrderOf
      <4>3. 0 <= orders[s].filled /\ orders[s].filled < orders[s].size
        BY <3>1, <4>2 DEF IndInv, FillWithinOrder, OrderType, IsTerminal, Terminal
      <4>4. orders'[s] = [orders[s] EXCEPT !.pendingCancel = TRUE, !.status = "SentCancel"]
        BY <1>4, <3>2 DEF SubmitAllDown, MarkCancelled
      <4> QED BY <3>1, <4>2, <4>3, <4>4 DEF Reworked, OrderType, Statuses, IsTerminal, Terminal
    <3>3. CASE ~ \E id \in Working(up) : id.slot = s
      BY <1>4, <3>1, <3>3 DEF SubmitAllDown, MarkCancelled
    <3> QED BY <3>2, <3>3
  <2>2. orders' \in [Slots -> OrderType]
    BY <1>4, <2>1 DEF SubmitAllDown, MarkCancelled
  <2>3. TypeOK'
    BY <1>4, <2>2 DEF SubmitAllDown, IndInv, TypeOK, index, books, ids
  <2>4. UNCHANGED <<pool, live, retired, ids>> /\ expectedFalse' = expectedFalse
        /\ \A t \in trades' : t[1] \in live
    BY <1>4 DEF SubmitAllDown, index, IndInv
  <2> QED BY <2>1, <2>3, <2>4, ReworkKeepsInv
<1> QED BY <1>1, <1>2, <1>3, <1>4 DEF Submit

-----------------------------------------------------------------------------
(* The inbound events. *)

(* A rework of one open order in place keeps the invariant. *)
LEMMA ReworkOneKeepsInv ==
  ASSUME IndInv, NEW id \in issued, Open(id), NEW o \in OrderType,
         Update(id, o), Reworked(OrderOf(id), o),
         UNCHANGED <<pool, live, retired, flags, ids>>,
         expectedFalse' \subseteq expectedFalse,
         trades' \subseteq live \X Trades,
         position' \in [Instruments -> Int], pending' \in [Instruments -> Int]
  PROVE  IndInv'
<1>1. id.slot \in Slots /\ id.slot \in pool.allocated BY OpenIsLive
<1>2. orders \in [Slots -> OrderType] /\ live \subseteq Ids BY DEF IndInv, TypeOK
<1>3. /\ orders' \in [Slots -> OrderType] /\ orders'[id.slot] = o
      /\ \A s \in Slots \ {id.slot} : orders'[s] = orders[s]
  BY <1>1, <1>2 DEF Update
<1>4. trades' \subseteq Ids \X Trades BY <1>2
<1>5. TypeOK' BY <1>3, <1>4 DEF IndInv, TypeOK, flags, ids
<1>6. \A s \in Slots :
        \/ orders'[s] = orders[s]
        \/ s \in pool.allocated /\ Reworked(orders[s], orders'[s])
  BY <1>1, <1>3 DEF OrderOf
<1>7. \A t \in trades' : t[1] \in live OBVIOUS
<1> QED BY <1>5, <1>6, <1>7, ReworkKeepsInv

(* The parts of TypeOK that retirement decides, and those it leaves alone.  *)
LEMMA FinishOneKeepsInv ==
  ASSUME NoWrap, IndInv, NEW id \in issued, Open(id), NEW o \in OrderType, NEW ex,
         Update(id, o), o.id = id, o.size = OrderOf(id).size,
         IsTerminal(o), 0 <= o.filled, o.filled <= o.size,
         o.filled = o.size <=> o.status = "Filled",
         ex \subseteq expectedFalse \cup {id},
         id \in ex => o.status = "Filled" /\ o.pendingCancel,
         Retire(id, pool, ex), UNCHANGED <<flags, ids>>,
         position' \in [Instruments -> Int], pending' \in [Instruments -> Int]
  PROVE  IndInv'
<1> DEFINE q == Append(retired, id)
<1>1. /\ pool \in PoolType /\ WellFormed(pool) /\ orders \in [Slots -> OrderType]
      /\ live \subseteq Ids /\ retired \in Seq(Ids) /\ trades \subseteq Ids \X Trades
      /\ expectedFalse \subseteq Ids /\ id \in Ids /\ id.slot \in Slots
      /\ Distinct(retired) /\ id \notin Elements(retired)
  <2>1. id \notin RetiredIds BY OpenIsLive DEF IndInv, Indexed, OrderOf
  <2> QED BY <2>1, OpenIsLive DEF IndInv, TypeOK, FifoOK, RetiredIds, Elements
<1>2. /\ q \in Seq(Ids) /\ q # <<>> /\ Distinct(q) BY <1>1, AppendElements
<1>3. Tail(q) \in Seq(Ids) /\ Head(q) \in Elements(q) BY <1>2, TailElements
<1>4. orders' \in [Slots -> OrderType] BY <1>1 DEF Update
<1>5. /\ retired' \in Seq(Ids) /\ live' \subseteq Ids /\ trades' \subseteq Ids \X Trades
      /\ expectedFalse' \subseteq Ids
  BY <1>1, <1>2, <1>3 DEF Retire
<1>6. pool' \in PoolType
  BY <1>1, ReleaseKeepsWellFormed DEF Retire, IsCurrent
<1>7. TypeOK' BY <1>4, <1>5, <1>6 DEF IndInv, TypeOK, flags, ids
<1> QED BY <1>7, FinishKeepsInv DEF ids

(* An event that is dropped changes nothing but the outgoing calls. *)
LEMMA DropKeepsInv == IndInv /\ Drop => IndInv'
<1> SUFFICES ASSUME IndInv, Drop PROVE IndInv' OBVIOUS
<1>1. TypeOK' BY DEF Drop, IndInv, TypeOK, index, books, flags, ids
<1> QED BY <1>1, FrameKeepsInv DEF Drop

(* A fill, partial or final, keeps the invariant. *)
LEMMA FillKeepsInv ==
  ASSUME NoWrap, IndInv, NEW id \in issued, NEW qty \in Quantities,
         NEW price, NEW trade \in Trades, ApplyFill(id, qty, price, trade)
  PROVE  IndInv'
<1> DEFINE o  == OrderOf(id)
           st == IF o.filled + qty = o.size THEN "Filled" ELSE "PartiallyFilled"
           r  == [o EXCEPT !.filled = @ + qty, !.status = st]
<1>1. /\ Open(id) /\ qty \in Int /\ qty > 0 /\ qty <= o.size - o.filled
      /\ UNCHANGED <<flags, ids>>
  BY ManagerAssumption DEF ApplyFill, FillOk, Remaining, ManagerAssumption
<1>2. /\ id \in live /\ o \in OrderType /\ o.id = id /\ ~IsTerminal(o)
      /\ o.filled < o.size /\ o.filled \in Nat /\ o.size \in Nat
      /\ o.inst \in Instruments /\ o.side \in Sides
  BY <1>1, OpenIsLive DEF OrderType
<1>3. /\ r \in OrderType /\ r.id = id /\ r.size = o.size
      /\ r.filled = o.filled + qty /\ r.status = st
      /\ r.pendingCancel = o.pendingCancel
  <2>1. o.filled + qty \in Nat BY <1>1, <1>2
  <2> QED BY <1>2, <2>1 DEF OrderType, Statuses, Terminal
<1>4. /\ position \in [Instruments -> Int] /\ pending \in [Instruments -> Int]
  BY DEF IndInv, TypeOK
<1>5. /\ [position EXCEPT ![o.inst] = @ + Signed(o.side, qty)] \in [Instruments -> Int]
      /\ [pending EXCEPT ![o.inst] = @ - Signed(o.side, qty)] \in [Instruments -> Int]
  BY <1>1, <1>2, <1>4, BooksTyped
<1>6. position' \in [Instruments -> Int] /\ pending' \in [Instruments -> Int]
  BY <1>5 DEF ApplyFill
<1>7. Update(id, r) BY DEF ApplyFill
<1>8. CASE o.filled + qty = o.size
  <2> DEFINE ex == IF o.pendingCancel THEN expectedFalse \cup {id} ELSE expectedFalse
  <2>1. Retire(id, pool, ex) BY <1>8 DEF ApplyFill
  <2>2. st = "Filled" BY <1>8
  <2>3. id \notin expectedFalse
    BY <1>2 DEF IndInv, BenignRejectsAreRaces, IsTerminal, Terminal
  <2>4. ex \subseteq expectedFalse \cup {id}
        /\ (id \in ex => r.status = "Filled" /\ r.pendingCancel)
    BY <1>3, <2>2, <2>3
  <2>5. /\ IsTerminal(r) /\ 0 <= r.filled /\ r.filled <= r.size
        /\ r.filled = r.size <=> r.status = "Filled"
    BY <1>2, <1>3, <1>8, <2>2 DEF IsTerminal, Terminal
  <2> QED BY <1>1, <1>3, <1>6, <1>7, <2>1, <2>4, <2>5, FinishOneKeepsInv
<1>9. CASE o.filled + qty # o.size
  <2>1. /\ trades' = trades \cup {<<id, trade>>}
        /\ UNCHANGED <<pool, live, retired, expectedFalse>>
    BY <1>9 DEF ApplyFill
  <2>2. trades' \subseteq live \X Trades
    BY <1>2, <2>1 DEF IndInv, TypeOK
  <2>3. st = "PartiallyFilled" BY <1>9
  <2>4. Reworked(o, r)
    BY <1>1, <1>2, <1>3, <1>9, <2>3 DEF Reworked, IsTerminal, Terminal
  <2> QED BY <1>1, <1>3, <1>6, <1>7, <2>1, <2>2, <2>4, ReworkOneKeepsInv
<1> QED BY <1>8, <1>9

(* The unfilled end of an order keeps the invariant. *)
LEMMA EndKeepsInv ==
  ASSUME NoWrap, IndInv, NEW id \in issued, Open(id), NEW o,
         o.status \in {"Rejected", "Cancelled"}, o \in OrderType, o.id = id,
         o.size = OrderOf(id).size, o.filled = OrderOf(id).filled,
         o.inst = OrderOf(id).inst, o.side = OrderOf(id).side, Finish(id, o)
  PROVE  IndInv'
<1>1. /\ OrderOf(id).filled < OrderOf(id).size /\ OrderOf(id) \in OrderType
  BY OpenIsLive
<1>2. /\ o.inst \in Instruments /\ o.side \in Sides /\ o.size \in Nat /\ o.filled \in Nat
      /\ o.filled < o.size
  BY <1>1 DEF OrderType
<1>3. /\ pending \in [Instruments -> Int] /\ position \in [Instruments -> Int]
      /\ Remaining(o) \in Int
  BY <1>2 DEF IndInv, TypeOK, Remaining
<1>4. [pending EXCEPT ![o.inst] = @ - Signed(o.side, Remaining(o))] \in [Instruments -> Int]
  BY <1>2, <1>3, BooksTyped
<1>5. pending' \in [Instruments -> Int] /\ position' \in [Instruments -> Int]
  BY <1>3, <1>4 DEF Finish
<1>6. /\ Update(id, o) /\ Retire(id, pool, expectedFalse) /\ UNCHANGED <<flags, ids>>
  BY DEF Finish
<1>7. id \notin expectedFalse
  BY OpenIsLive DEF IndInv, BenignRejectsAreRaces, IsTerminal, Terminal
<1>8. /\ IsTerminal(o) /\ 0 <= o.filled /\ o.filled <= o.size
      /\ o.filled = o.size <=> o.status = "Filled"
  BY <1>2 DEF IsTerminal, Terminal
<1>9. /\ expectedFalse \subseteq expectedFalse \cup {id}
      /\ id \in expectedFalse => o.status = "Filled" /\ o.pendingCancel
  BY <1>7
<1> QED BY <1>5, <1>6, <1>8, <1>9, FinishOneKeepsInv

(* Every event about an issued id keeps the invariant, and so does cancel(). *)
LEMMA InboundKeepsInv ==
  ASSUME NoWrap, IndInv, NEW id \in issued, Cancel(id) \/ Inbound(id)
  PROVE  IndInv'
<1> DEFINE o == OrderOf(id)
<1>a. ASSUME Open(id)
      PROVE  /\ o \in OrderType /\ o.id = id /\ ~IsTerminal(o)
             /\ o.filled \in Nat /\ o.size \in Nat /\ o.filled < o.size
             /\ o.status \in Statuses \ Terminal
  BY <1>a, OpenIsLive DEF OrderType, IsTerminal
<1>b. /\ trades \subseteq live \X Trades
      /\ position \in [Instruments -> Int] /\ pending \in [Instruments -> Int]
  BY DEF IndInv, TypeOK
<1>1. CASE Cancel(id)
  <2> DEFINE r == [o EXCEPT !.pendingCancel = TRUE, !.status = "SentCancel"]
  <2>1. Open(id) /\ Update(id, r) /\ UNCHANGED <<index, books, flags, ids>>
    BY <1>1 DEF Cancel
  <2>2. r \in OrderType /\ r.status = "SentCancel" /\ r.id = o.id /\ r.size = o.size
        /\ r.filled = o.filled
    BY <1>a, <2>1 DEF OrderType, Statuses
  <2>3. Reworked(o, r)
    BY <1>a, <2>1, <2>2 DEF Reworked, IsTerminal, Terminal
  <2> QED BY <1>b, <2>1, <2>2, <2>3, ReworkOneKeepsInv DEF index, books
<1>2. CASE OnConfirm(id)
  <2> DEFINE st == IF o.status \in {"New", "Sent"} THEN "Confirmed" ELSE o.status
             r  == [o EXCEPT !.status = st]
  <2>1. ASSUME Open(id), Update(id, r), UNCHANGED <<index, books, flags, ids>>
        PROVE  IndInv'
    <3>1. st \in Statuses \ Terminal
      BY <1>a, <2>1 DEF Statuses, Terminal
    <3>2. r \in OrderType /\ r.status = st /\ r.id = o.id /\ r.size = o.size
          /\ r.filled = o.filled
      BY <1>a, <2>1, <3>1 DEF OrderType
    <3>3. Reworked(o, r)
      BY <1>a, <2>1, <3>1, <3>2 DEF Reworked, IsTerminal
    <3> QED BY <1>b, <2>1, <3>2, <3>3, ReworkOneKeepsInv DEF index, books
  <2> QED BY <1>2, <2>1, DropKeepsInv DEF OnConfirm
<1>3. ASSUME NEW qty \in Quantities, NEW p, NEW t \in Trades, OnFill(id, qty, p, t)
      PROVE  IndInv'
  <2>1. CASE UnknownFill(id)
    <3>1. unknownFills' \in 0 .. UnknownFillThreshold + 1
      BY <2>1, ManagerAssumption DEF UnknownFill, IndInv, TypeOK, ManagerAssumption
    <3>2. killed' \in BOOLEAN
      BY <2>1 DEF UnknownFill, IndInv, TypeOK
    <3>3. TypeOK'
      BY <2>1, <3>1, <3>2 DEF UnknownFill, IndInv, TypeOK, index, books, ids
    <3> QED BY <2>1, <3>3, FrameKeepsInv DEF UnknownFill
  <2> QED BY <1>3, <2>1, FillKeepsInv, DropKeepsInv DEF OnFill
<1>4. CASE OnCancelReject(id)
  <2>1. ASSUME expectedFalse' = expectedFalse \ {id},
               UNCHANGED <<pool, live, retired, trades, orders, books, flags, ids>>
        PROVE  IndInv'
    <3>1. TypeOK' BY <2>1 DEF IndInv, TypeOK, books, flags, ids
    <3>2. UNCHANGED <<RetiredIds, issued>> BY <2>1 DEF RetiredIds, ids
    <3> QED BY <2>1, <3>1, <3>2 DEF IndInv, Indexed, IssuedOK, FillWithinOrder,
                                   BenignRejectsAreRaces, OrderOf
  <2> DEFINE st == IF o.filled > 0 THEN "PartiallyFilled" ELSE "Confirmed"
             r  == [o EXCEPT !.pendingCancel = FALSE, !.status = st]
  <2>2. ASSUME Open(id), Update(id, r), UNCHANGED <<index, books, flags, ids>>
        PROVE  IndInv'
    <3>1. st \in Statuses \ Terminal BY DEF Statuses, Terminal
    <3>2. r \in OrderType /\ r.status = st /\ r.id = o.id /\ r.size = o.size
          /\ r.filled = o.filled
      BY <1>a, <2>2, <3>1 DEF OrderType
    <3>3. Reworked(o, r)
      BY <1>a, <2>2, <3>1, <3>2 DEF Reworked, IsTerminal
    <3> QED BY <1>b, <2>2, <3>2, <3>3, ReworkOneKeepsInv DEF index, books
  <2> QED BY <1>4, <2>1, <2>2, DropKeepsInv DEF OnCancelReject
<1>5. CASE OnReject(id)
  <2> DEFINE r == [o EXCEPT !.status = "Rejected"]
  <2>1. ASSUME Open(id), Finish(id, r) PROVE IndInv'
    <3>1. /\ r \in OrderType /\ r.id = id /\ r.status = "Rejected"
          /\ r.size = o.size /\ r.filled = o.filled /\ r.inst = o.inst /\ r.side = o.side
      BY <1>a, <2>1 DEF OrderType, Statuses, Terminal
    <3> HIDE DEF r
    <3> QED BY <2>1, <3>1, EndKeepsInv
  <2> QED BY <1>5, <2>1, DropKeepsInv DEF OnReject
<1>6. ASSUME NEW kind, FinishCancel(id, kind) PROVE IndInv'
  <2> DEFINE r == [o EXCEPT !.pendingCancel = FALSE, !.status = "Cancelled"]
  <2>1. ASSUME Open(id), Finish(id, r) PROVE IndInv'
    <3>1. /\ r \in OrderType /\ r.id = id /\ r.status = "Cancelled"
          /\ r.size = o.size /\ r.filled = o.filled /\ r.inst = o.inst /\ r.side = o.side
      BY <1>a, <2>1 DEF OrderType, Statuses, Terminal
    <3> HIDE DEF r
    <3> QED BY <2>1, <3>1, EndKeepsInv
  <2> QED BY <1>6, <2>1, DropKeepsInv DEF FinishCancel
<1> QED BY <1>1, <1>2, <1>3, <1>4, <1>5, <1>6 DEF Inbound, OnCancelAck, OnUnsolicitedCancel

-----------------------------------------------------------------------------
(* The remaining hooks, and the step theorem. *)

(* The ack timer keeps the invariant. *)
LEMMA TimeoutKeepsInv ==
  ASSUME IndInv, NEW overdue \in SUBSET live, NEW up \in SUBSET Venues,
         CheckAckTimeouts(overdue, up)
  PROVE  IndInv'
<1> DEFINE cancelled == {id \in overdue : /\ id.venue \in up
                                         /\ ~OrderOf(id).pendingCancel}
<1>1. /\ \A id \in overdue : /\ id \in live /\ Known(id)
                             /\ OrderOf(id).status = "Sent"
      /\ orders' = [s \in Slots |->
           IF \E id \in cancelled : id.slot = s
           THEN [orders[s] EXCEPT !.ackTimedOut = TRUE, !.pendingCancel = TRUE,
                                  !.status = "SentCancel"]
           ELSE IF \E id \in overdue : id.slot = s
           THEN [orders[s] EXCEPT !.ackTimedOut = TRUE]
           ELSE orders[s]]
      /\ UNCHANGED <<index, books, flags, ids>>
  BY DEF CheckAckTimeouts, AwaitingAck
<1>2. ASSUME NEW s \in Slots
      PROVE  /\ orders'[s] \in OrderType
             /\ \/ orders'[s] = orders[s]
                \/ s \in pool.allocated /\ Reworked(orders[s], orders'[s])
  <2> DEFINE o == orders[s]
             r == orders'[s]
  <2>1. o \in OrderType BY DEF IndInv, TypeOK
  <2>2. CASE \E id \in overdue : id.slot = s
    <3>1. /\ s \in pool.allocated /\ o.status = "Sent" /\ ~IsTerminal(o)
      BY <1>1, <2>2 DEF Known, IsCurrent, OrderOf, IsTerminal, Terminal
    <3>2. 0 <= o.filled /\ o.filled < o.size
      BY <2>1, <3>1 DEF IndInv, FillWithinOrder, OrderType
    <3>3. \/ r = [o EXCEPT !.ackTimedOut = TRUE, !.pendingCancel = TRUE,
                           !.status = "SentCancel"]
          \/ r = [o EXCEPT !.ackTimedOut = TRUE]
      BY <1>1, <2>2
    <3>4. /\ r \in OrderType /\ r.status \in {"Sent", "SentCancel"} /\ r.id = o.id
          /\ r.size = o.size /\ r.filled = o.filled
      BY <2>1, <3>1, <3>3 DEF OrderType, Statuses
    <3>5. Reworked(o, r)
      BY <3>1, <3>2, <3>4 DEF Reworked, IsTerminal, Terminal
    <3> QED BY <3>1, <3>4, <3>5
  <2>3. CASE ~ \E id \in overdue : id.slot = s
    BY <1>1, <2>1, <2>3
  <2> QED BY <2>2, <2>3
<1>3. orders' \in [Slots -> OrderType] BY <1>1, <1>2
<1>4. TypeOK' BY <1>1, <1>3 DEF IndInv, TypeOK, index, books, flags, ids
<1>5. /\ UNCHANGED <<pool, live, retired, ids>> /\ expectedFalse' = expectedFalse
      /\ \A t \in trades' : t[1] \in live
  BY <1>1 DEF index, IndInv
<1> QED BY <1>2, <1>4, <1>5, ReworkKeepsInv

(* Disconnects, reconnects and the drained flags keep the invariant. *)
LEMMA HooksKeepInv ==
  ASSUME IndInv,
         \/ \E v \in Venues : OnVenueDisconnect(v) \/ OnVenueReconnect(v)
         \/ ResetRebalanceCycle \/ ClearReconcileRequest
  PROVE  IndInv'
<1>1. /\ UNCHANGED <<index, orders, books, ids, killed, unknownFills>>
      /\ incomplete' \in BOOLEAN /\ reconcile' \in BOOLEAN
  BY DEF OnVenueDisconnect, OnVenueReconnect, ResetRebalanceCycle,
         ClearReconcileRequest, flags, IndInv, TypeOK
<1>2. TypeOK' BY <1>1 DEF IndInv, TypeOK, index, books, ids
<1> QED BY <1>1, <1>2, FrameKeepsInv

(* Every step of the manager keeps the inductive invariant. *)
LEMMA NextKeepsInv == NoWrap /\ IndInv /\ [Next]_vars => IndInv'
<1> SUFFICES ASSUME NoWrap, IndInv, [Next]_vars PROVE IndInv' OBVIOUS
<1>1. CASE Submit BY <1>1, SubmitKeepsInv
<1>2. CASE \E id \in issued : Cancel(id) \/ Inbound(id) BY <1>2, InboundKeepsInv
<1>3. CASE \E overdue \in SUBSET live, up \in SUBSET Venues :
             CheckAckTimeouts(overdue, up)
  BY <1>3, TimeoutKeepsInv
<1>4. CASE \/ \E v \in Venues : OnVenueDisconnect(v) \/ OnVenueReconnect(v)
           \/ ResetRebalanceCycle \/ ClearReconcileRequest
  BY <1>4, HooksKeepInv
<1>5. CASE UNCHANGED vars
  <2>1. TypeOK' BY <1>5 DEF vars, IndInv, TypeOK, index, books, flags, ids
  <2> QED BY <1>5, <2>1, FrameKeepsInv DEF vars
<1> QED BY <1>1, <1>2, <1>3, <1>4, <1>5 DEF Next

(* The inductive invariant holds in every reachable state. *)
THEOREM Invariance == ASSUME NoWrap PROVE Spec => []IndInv
<1>1. IndInv /\ [Next]_vars => IndInv' BY NextKeepsInv
<1> QED BY <1>1, InitIndInv, PTL DEF Spec

-----------------------------------------------------------------------------
(* What follows from the invariant. *)

(* The manager's state keeps its types: no counter, index or order record   *)
(* leaves its range through any sequence of calls.                          *)
THEOREM TypeCorrect == ASSUME NoWrap PROVE Spec => []TypeOK
<1>1. IndInv => TypeOK BY DEF IndInv
<1> QED BY <1>1, Invariance, PTL

(* The free list is the complement of the allocated slots, so acquire()     *)
(* never returns a slot in use and release() never frees one twice.         *)
THEOREM PoolStaysWellFormed == ASSUME NoWrap PROVE Spec => []FreeListIsComplement
<1>1. IndInv => FreeListIsComplement BY DEF IndInv, FreeListIsComplement
<1> QED BY <1>1, Invariance, PTL

(* Each allocated slot is in the live index or in the retired FIFO, exactly *)
(* once, according to its order's status (submit, retire).                  *)
THEOREM NoSlotLost == ASSUME NoWrap PROVE Spec => []SlotsAccountedFor
<1>1. IndInv => SlotsAccountedFor
  BY DEF IndInv, SlotsAccountedFor, Indexed, FifoOK, Distinct, Owns, OwnsSlot,
         Known, OrderOf
<1> QED BY <1>1, Invariance, PTL

(* No sequence of fills exceeds an order, and Filled means filled. *)
THEOREM NoOverfill == ASSUME NoWrap PROVE Spec => []FillWithinOrder
<1>1. IndInv => FillWithinOrder BY DEF IndInv
<1> QED BY <1>1, Invariance, PTL

(* A cancel-reject is only ever excused for an order that filled with its   *)
(* cancel in flight and is still in the grace window.                       *)
THEOREM ExcusesAreRaces == ASSUME NoWrap PROVE Spec => []BenignRejectsAreRaces
<1>1. IndInv => BenignRejectsAreRaces BY DEF IndInv
<1> QED BY <1>1, Invariance, PTL

(* No id handed out earlier matches the slot's present occupant, although   *)
(* is_current() compares neither the venue nor the sequence number.         *)
THEOREM NoStaleMatch == ASSUME NoWrap PROVE Spec => []StaleIdsNeverMatch
<1>1. IndInv => StaleIdsNeverMatch
  <2> SUFFICES ASSUME IndInv, NEW id \in issued, Known(id) PROVE OrderOf(id).id = id
    BY DEF StaleIdsNeverMatch
  <2>1. pool.generation[id.slot] = id.gen /\ id.gen \in Nat
    BY PoolAssumption DEF Known, IsCurrent, IndInv, TypeOK, Ids, Generations
  <2> QED BY <2>1 DEF IndInv, IssuedOK, Owns, OrderOf
<1> QED BY <1>1, Invariance, PTL

-----------------------------------------------------------------------------
(* Action properties. *)

(* The only orders a step changes are those of free slots and open orders.  *)
LEMMA OnlyOpenOrdersChange ==
  ASSUME IndInv, [Next]_vars, NEW s \in pool.allocated, IsTerminal(orders[s])
  PROVE  orders'[s] = orders[s]
<1>1. /\ s \in Slots /\ orders \in [Slots -> OrderType]
      /\ orders[s].status \in Terminal /\ pool \in PoolType /\ WellFormed(pool)
      /\ \A id \in issued : id.slot \in Slots
  BY DEF IndInv, TypeOK, PoolType, IsTerminal, Ids
<1>2. ASSUME NEW id, NEW o, id.slot # s, Update(id, o) PROVE orders'[s] = orders[s]
  BY <1>1, <1>2 DEF Update
<1>3. ASSUME NEW v \in Venues, CanSubmit PROVE NewId(v).slot # s
  BY <1>1, <1>3, FreeSlot DEF CanSubmit, NewId
<1>4. ASSUME NEW v \in Venues, NEW req \in Requests,
             SubmitAccepted(v, req) \/ SubmitRejectedLocally(v, req)
      PROVE  orders'[s] = orders[s]
  BY <1>2, <1>3, <1>4 DEF SubmitAccepted, SubmitRejectedLocally
<1>5. ASSUME NEW id \in issued, Open(id) PROVE id.slot # s
  BY <1>5 DEF Open, OrderOf
<1>6. ASSUME NEW up \in SUBSET Venues, SubmitAllDown(up) PROVE orders'[s] = orders[s]
  <2>1. \A id \in Working(up) : id.slot # s BY DEF Working, Open, OrderOf
  <2> QED BY <1>1, <1>6, <2>1 DEF SubmitAllDown, MarkCancelled
<1>7. ASSUME NEW overdue \in SUBSET live, NEW up \in SUBSET Venues,
             CheckAckTimeouts(overdue, up)
      PROVE  orders'[s] = orders[s]
  <2>1. \A id \in overdue : id.slot # s
    BY <1>1, <1>7 DEF CheckAckTimeouts, AwaitingAck, OrderOf, Terminal
  <2> QED BY <1>1, <1>7, <2>1 DEF CheckAckTimeouts
<1>8. ASSUME NEW id \in issued, Cancel(id) PROVE orders'[s] = orders[s]
  BY <1>2, <1>5, <1>8 DEF Cancel
<1>9. ASSUME NEW id \in issued, OnConfirm(id) PROVE orders'[s] = orders[s]
  BY <1>2, <1>5, <1>9 DEF OnConfirm, Drop
<1>10. ASSUME NEW id \in issued, NEW qty, NEW p, NEW t, OnFill(id, qty, p, t)
       PROVE  orders'[s] = orders[s]
  BY <1>2, <1>5, <1>10 DEF OnFill, ApplyFill, FillOk, UnknownFill, Drop
<1>11. ASSUME NEW id \in issued, OnCancelReject(id) PROVE orders'[s] = orders[s]
  BY <1>2, <1>5, <1>11 DEF OnCancelReject, Drop
<1>12. ASSUME NEW id \in issued, OnReject(id) PROVE orders'[s] = orders[s]
  BY <1>2, <1>5, <1>12 DEF OnReject, Finish, Drop
<1>13. ASSUME NEW id \in issued, NEW kind, FinishCancel(id, kind)
       PROVE  orders'[s] = orders[s]
  BY <1>2, <1>5, <1>13 DEF FinishCancel, Finish, Drop
<1>14. ASSUME NEW id \in issued, Inbound(id) PROVE orders'[s] = orders[s]
  BY <1>9, <1>10, <1>11, <1>12, <1>13, <1>14
     DEF Inbound, OnCancelAck, OnUnsolicitedCancel
<1>15. CASE Submit BY <1>4, <1>6, <1>15 DEF Submit, SubmitExhausted
<1> QED BY <1>7, <1>8, <1>14, <1>15 DEF Next, vars, OnVenueDisconnect,
        OnVenueReconnect, ResetRebalanceCycle, ClearReconcileRequest

(* No event changes the record of a terminal order while it keeps its slot. *)
THEOREM TerminalOrdersAreFinal == ASSUME NoWrap PROVE Spec => TerminalIsFinal
<1>1. IndInv /\ [Next]_vars =>
        [\A s \in pool.allocated \cap pool'.allocated :
           IsTerminal(orders[s]) /\ orders'[s].id = orders[s].id
             => orders'[s] = orders[s]]_vars
  BY OnlyOpenOrdersChange
<1> QED BY <1>1, Invariance, PTL DEF Spec, TerminalIsFinal

(* What a step that moves an instrument's exposure must have done. *)
Intent == \/ live' \ live # {}
          \/ \E id \in live \ live' : orders'[id.slot].status # "Filled"

(* A fill moves the same signed quantity from pending to position. *)
LEMMA FillKeepsExposure ==
  ASSUME IndInv, NEW id \in issued, NEW qty \in Quantities, NEW price, NEW trade,
         ApplyFill(id, qty, price, trade), NEW i \in Instruments
  PROVE  position'[i] + pending'[i] = position[i] + pending[i]
<1> DEFINE o == OrderOf(id)
           d == Signed(o.side, qty)
<1>1. /\ position' = [position EXCEPT ![o.inst] = @ + d]
      /\ pending' = [pending EXCEPT ![o.inst] = @ - d]
      /\ Open(id)
  BY DEF ApplyFill, FillOk
<1>2. o.inst \in Instruments BY <1>1, OpenIsLive DEF OrderType
<1>3. /\ d \in Int /\ position \in [Instruments -> Int] /\ pending \in [Instruments -> Int]
  BY ManagerAssumption DEF ManagerAssumption, Signed, IndInv, TypeOK
<1> HIDE DEF d
<1>4. CASE i = o.inst
  <2>1. position'[i] = position[i] + d /\ pending'[i] = pending[i] - d
    BY <1>1, <1>3, <1>4
  <2> QED BY <1>3, <2>1
<1>5. CASE i # o.inst BY <1>1, <1>3, <1>5
<1> QED BY <1>4, <1>5

(* An order that ends unfilled leaves the live index. *)
LEMMA EndIsIntent ==
  ASSUME IndInv, NEW id \in issued, Open(id), NEW o,
         o.status \in {"Rejected", "Cancelled"}, Finish(id, o)
  PROVE  Intent
<1>1. id \in live /\ id.slot \in Slots /\ orders \in [Slots -> OrderType]
  BY OpenIsLive DEF IndInv, TypeOK
<1>2. live' = live \ {id} /\ orders'[id.slot] = o
  BY <1>1 DEF Finish, Retire, Update
<1> QED BY <1>1, <1>2 DEF Intent

(* position + pending of an instrument, which a strategy's delta is         *)
(* measured against, moves only when an order is opened or ends unfilled.   *)
THEOREM ExposureMovesOnlyWithIntent ==
  ASSUME NoWrap PROVE Spec => ExposureMovesWithIntent
<1>1. ASSUME IndInv, [Next]_vars, NEW i \in Instruments,
             position'[i] + pending'[i] # position[i] + pending[i]
      PROVE  Intent
  <2>1. ~ UNCHANGED books BY <1>1 DEF books
  <2>2. ASSUME NEW v \in Venues, NEW req \in Requests, SubmitAccepted(v, req)
        PROVE  Intent
    <3>1. NewId(v) \notin live /\ live' = live \cup {NewId(v)}
      BY <1>1, <2>2, AcquireKeepsBooks, ManagerAssumption DEF SubmitAccepted
    <3> QED BY <3>1 DEF Intent
  <2>3. CASE Submit
    BY <2>1, <2>2, <2>3 DEF Submit, SubmitRejectedLocally, SubmitExhausted,
       SubmitAllDown
  <2>4. ASSUME NEW id \in issued, Cancel(id) PROVE Intent
    BY <2>1, <2>4 DEF Cancel
  <2>5. ASSUME NEW id \in issued, OnConfirm(id) PROVE Intent
    BY <2>1, <2>5 DEF OnConfirm, Drop
  <2>6. ASSUME NEW id \in issued, NEW qty \in Quantities, NEW p, NEW t \in Trades, OnFill(id, qty, p, t)
        PROVE  Intent
    BY <1>1, <2>1, <2>6, FillKeepsExposure DEF OnFill, UnknownFill, Drop
  <2>7. ASSUME NEW id \in issued, OnCancelReject(id) PROVE Intent
    BY <2>1, <2>7 DEF OnCancelReject, Drop
  <2>8. ASSUME NEW id \in issued, OnReject(id) PROVE Intent
    <3> DEFINE o == [OrderOf(id) EXCEPT !.status = "Rejected"]
    <3>1. Open(id) /\ Finish(id, o) BY <2>1, <2>8 DEF OnReject, Drop
    <3>2. o.status = "Rejected" BY <1>1, <3>1, OpenIsLive DEF OrderType
    <3> HIDE DEF o
    <3> QED BY <1>1, <3>1, <3>2, EndIsIntent
  <2>9. ASSUME NEW id \in issued, NEW kind, FinishCancel(id, kind) PROVE Intent
    <3> DEFINE o == [OrderOf(id) EXCEPT !.pendingCancel = FALSE, !.status = "Cancelled"]
    <3>1. Open(id) /\ Finish(id, o) BY <2>1, <2>9 DEF FinishCancel, Drop
    <3>2. o.status = "Cancelled" BY <1>1, <3>1, OpenIsLive DEF OrderType
    <3> HIDE DEF o
    <3> QED BY <1>1, <3>1, <3>2, EndIsIntent
  <2>10. ASSUME NEW id \in issued, Inbound(id) PROVE Intent
    BY <2>5, <2>6, <2>7, <2>8, <2>9, <2>10 DEF Inbound, OnCancelAck, OnUnsolicitedCancel
  <2>11. ~ \E overdue \in SUBSET live, up \in SUBSET Venues : CheckAckTimeouts(overdue, up)
    BY <2>1 DEF CheckAckTimeouts
  <2> QED BY <1>1, <2>1, <2>3, <2>4, <2>10, <2>11 DEF Next, vars, OnVenueDisconnect,
          OnVenueReconnect, ResetRebalanceCycle, ClearReconcileRequest
<1>2. IndInv /\ [Next]_vars =>
        [\A i \in Instruments :
           position'[i] + pending'[i] # position[i] + pending[i] =>
             \/ live' \ live # {}
             \/ \E id \in live \ live' : orders'[id.slot].status # "Filled"]_vars
  BY <1>1 DEF Intent
<1> QED BY <1>2, Invariance, PTL DEF Spec, ExposureMovesWithIntent

-----------------------------------------------------------------------------
(* The cancel flag of an order tracks its status through every handler.     *)

(* A cancel in flight shows in the status, or the order has filled, filled  *)
(* in part or been rejected since; no status claims a cancel that is not.   *)
FlagOK(o) ==
  /\ o.status = "SentCancel" => o.pendingCancel
  /\ o.pendingCancel => o.status \notin {"New", "Sent", "Confirmed", "Cancelled"}

FlagsOK == \A s \in Slots : FlagOK(orders[s])

(* A handler that writes one order writes one whose flag is right. *)
LEMMA UpdateKeepsFlags ==
  ASSUME TypeOK, FlagsOK, NEW id, NEW o, Update(id, o), FlagOK(o)
  PROVE  FlagsOK'
<1>1. orders \in [Slots -> OrderType] BY DEF TypeOK
<1> QED BY <1>1 DEF Update, FlagsOK

(* submit() claims a slot whose flags it resets. *)
LEMMA SubmitKeepsFlags == TypeOK /\ FlagsOK /\ Submit => FlagsOK'
<1> SUFFICES ASSUME TypeOK, FlagsOK, Submit PROVE FlagsOK' OBVIOUS
<1>0. orders \in [Slots -> OrderType] BY DEF TypeOK
<1>1. ASSUME NEW v \in Venues, NEW req \in Requests,
             SubmitAccepted(v, req) \/ SubmitRejectedLocally(v, req)
      PROVE  FlagsOK'
  <2>1. \A st \in {"Sent", "Rejected"} : FlagOK(NewOrder(NewId(v), req, st))
    BY DEF FlagOK, NewOrder
  <2>2. \E st \in {"Sent", "Rejected"} : Update(NewId(v), NewOrder(NewId(v), req, st))
    BY <1>1 DEF SubmitAccepted, SubmitRejectedLocally
  <2> QED BY <2>1, <2>2, UpdateKeepsFlags
<1>2. ASSUME NEW up \in SUBSET Venues, SubmitAllDown(up) PROVE FlagsOK'
  <2> SUFFICES ASSUME NEW s \in Slots PROVE FlagOK(orders'[s])
    BY <1>2 DEF SubmitAllDown, MarkCancelled, FlagsOK
  <2>1. \/ orders'[s] = [orders[s] EXCEPT !.pendingCancel = TRUE, !.status = "SentCancel"]
        \/ orders'[s] = orders[s]
    BY <1>2 DEF SubmitAllDown, MarkCancelled
  <2> QED BY <1>0, <2>1 DEF FlagsOK, FlagOK, OrderType
<1>3. CASE SubmitExhausted BY <1>3 DEF SubmitExhausted, FlagsOK
<1> QED BY <1>1, <1>2, <1>3 DEF Submit

(* cancel() and the inbound events. *)
LEMMA InboundKeepsFlags ==
  ASSUME IndInv, FlagsOK, NEW id \in issued, Cancel(id) \/ Inbound(id)
  PROVE  FlagsOK'
<1> DEFINE o == OrderOf(id)
<1>a. Open(id) => o \in OrderType /\ FlagOK(o) BY OpenIsLive DEF FlagsOK, OrderOf
<1>b. TypeOK BY DEF IndInv
<1>c. UNCHANGED orders => FlagsOK' BY DEF FlagsOK
<1>1. ASSUME Cancel(id) PROVE FlagsOK'
  <2> DEFINE r == [o EXCEPT !.pendingCancel = TRUE, !.status = "SentCancel"]
  <2>1. Open(id) /\ Update(id, r) BY <1>1 DEF Cancel
  <2>2. FlagOK(r) BY <1>a, <2>1 DEF FlagOK, OrderType
  <2> HIDE DEF r
  <2> QED BY <1>b, <2>1, <2>2, UpdateKeepsFlags
<1>2. ASSUME OnConfirm(id) PROVE FlagsOK'
  <2> DEFINE st == IF o.status \in {"New", "Sent"} THEN "Confirmed" ELSE o.status
             r  == [o EXCEPT !.status = st]
  <2>1. ASSUME Open(id), Update(id, r) PROVE FlagsOK'
    <3>1. FlagOK(r) BY <1>a, <2>1 DEF FlagOK, OrderType
    <3> HIDE DEF r
    <3> QED BY <1>b, <2>1, <3>1, UpdateKeepsFlags
  <2> QED BY <1>2, <1>c, <2>1 DEF OnConfirm, Drop
<1>3. ASSUME NEW qty \in Quantities, NEW p, NEW t \in Trades, OnFill(id, qty, p, t)
      PROVE  FlagsOK'
  <2> DEFINE st == IF o.filled + qty = o.size THEN "Filled" ELSE "PartiallyFilled"
             r  == [o EXCEPT !.filled = @ + qty, !.status = st]
  <2>1. ASSUME ApplyFill(id, qty, p, t) PROVE FlagsOK'
    <3>1. Open(id) /\ Update(id, r) BY <2>1 DEF ApplyFill, FillOk
    <3>2. FlagOK(r) BY <1>a, <3>1 DEF FlagOK, OrderType
    <3> HIDE DEF r
    <3> QED BY <1>b, <3>1, <3>2, UpdateKeepsFlags
  <2> QED BY <1>3, <1>c, <2>1 DEF OnFill, UnknownFill, Drop
<1>4. ASSUME OnCancelReject(id) PROVE FlagsOK'
  <2> DEFINE st == IF o.filled > 0 THEN "PartiallyFilled" ELSE "Confirmed"
             r  == [o EXCEPT !.pendingCancel = FALSE, !.status = st]
  <2>1. ASSUME Open(id), Update(id, r) PROVE FlagsOK'
    <3>1. FlagOK(r) BY <1>a, <2>1 DEF FlagOK, OrderType
    <3> HIDE DEF r
    <3> QED BY <1>b, <2>1, <3>1, UpdateKeepsFlags
  <2> QED BY <1>4, <1>c, <2>1 DEF OnCancelReject, Drop
<1>5. ASSUME OnReject(id) PROVE FlagsOK'
  <2> DEFINE r == [o EXCEPT !.status = "Rejected"]
  <2>1. ASSUME Open(id), Update(id, r) PROVE FlagsOK'
    <3>1. FlagOK(r) BY <1>a, <2>1 DEF FlagOK, OrderType
    <3> HIDE DEF r
    <3> QED BY <1>b, <2>1, <3>1, UpdateKeepsFlags
  <2> QED BY <1>5, <1>c, <2>1 DEF OnReject, Finish, Drop
<1>6. ASSUME NEW kind, FinishCancel(id, kind) PROVE FlagsOK'
  <2> DEFINE r == [o EXCEPT !.pendingCancel = FALSE, !.status = "Cancelled"]
  <2>1. ASSUME Open(id), Update(id, r) PROVE FlagsOK'
    <3>1. FlagOK(r) BY <1>a, <2>1 DEF FlagOK, OrderType
    <3> HIDE DEF r
    <3> QED BY <1>b, <2>1, <3>1, UpdateKeepsFlags
  <2> QED BY <1>6, <1>c, <2>1 DEF FinishCancel, Finish, Drop
<1> QED BY <1>1, <1>2, <1>3, <1>4, <1>5, <1>6
        DEF Inbound, OnCancelAck, OnUnsolicitedCancel

(* The ack timer cancels an order only together with its flag. *)
LEMMA TimeoutKeepsFlags ==
  ASSUME TypeOK, FlagsOK, NEW overdue \in SUBSET live, NEW up \in SUBSET Venues,
         CheckAckTimeouts(overdue, up)
  PROVE  FlagsOK'
<1>1. orders \in [Slots -> OrderType] BY DEF TypeOK
<1> SUFFICES ASSUME NEW s \in Slots PROVE FlagOK(orders'[s])
  BY DEF CheckAckTimeouts, FlagsOK
<1>2. \/ orders'[s] = [orders[s] EXCEPT !.ackTimedOut = TRUE, !.pendingCancel = TRUE,
                                       !.status = "SentCancel"]
      \/ orders'[s] = [orders[s] EXCEPT !.ackTimedOut = TRUE]
      \/ orders'[s] = orders[s]
  BY DEF CheckAckTimeouts
<1> QED BY <1>1, <1>2 DEF FlagsOK, FlagOK, OrderType

(* Whatever races, the cancel flag and the status agree: a late confirm     *)
(* hides no cancel in flight, and no status forgets one (on_confirm,        *)
(* on_fill, on_reject, check_ack_timeouts).                                 *)
THEOREM CancelFlagsAgree == ASSUME NoWrap PROVE Spec => []CancelFlagTracksStatus
<1>1. Init => FlagsOK BY DEF Init, FlagsOK, FlagOK, BlankOrder
<1>2. IndInv /\ FlagsOK /\ [Next]_vars => FlagsOK'
  <2> SUFFICES ASSUME IndInv, FlagsOK, [Next]_vars PROVE FlagsOK' OBVIOUS
  <2>1. TypeOK BY DEF IndInv
  <2>2. UNCHANGED orders => FlagsOK' BY DEF FlagsOK
  <2> QED BY <2>1, <2>2, SubmitKeepsFlags, InboundKeepsFlags, TimeoutKeepsFlags
          DEF Next, vars, OnVenueDisconnect, OnVenueReconnect,
              ResetRebalanceCycle, ClearReconcileRequest
<1>3. IndInv /\ FlagsOK => CancelFlagTracksStatus
  <2>1. IndInv => pool.allocated \subseteq Slots BY DEF IndInv, TypeOK, PoolType
  <2> QED BY <2>1 DEF CancelFlagTracksStatus, FlagsOK, FlagOK
<1> QED BY <1>1, <1>2, <1>3, Invariance, PTL DEF Spec

-----------------------------------------------------------------------------
(* Finitely many orders are open: each has a slot of its own. *)
LEMMA LiveIsFinite == ASSUME IndInv PROVE IsFiniteSet(live)
<1> DEFINE f == [id \in live |-> id.slot]
<1>1. \A id \in live : id.slot \in Slots /\ Owns(pool, orders, id)
  BY DEF IndInv, TypeOK, PoolType, Indexed, Owns, IsCurrent
<1>2. f \in Injection(live, Slots) BY <1>1 DEF Owns, Injection, IsInjective
<1> QED BY <1>2, SlotsFinite, FS_Injection

(* The slots in use belong to open orders or to the retired FIFO.           *)
LEMMA SlotsInUse ==
  ASSUME IndInv
  PROVE  Cardinality(live) \in Nat /\ pool.inUse <= Cardinality(live) + Grace
<1>1. /\ Slots = 0 .. Capacity - 1 /\ pool.allocated \subseteq Slots
      /\ pool.inUse = Cardinality(pool.allocated) /\ Grace \in Nat
      /\ Capacity \in Nat \ {0} /\ retired \in Seq(Ids) /\ Len(retired) <= Grace
  BY PoolAssumption, ManagerAssumption
     DEF Slots, IndInv, TypeOK, PoolType, WellFormed, FifoOK, ManagerAssumption
<1>2. IsFiniteSet(Slots) BY <1>1, FS_Interval
<1>3. IsFiniteSet(live) BY LiveIsFinite
<1>4. IsFiniteSet(RetiredIds) /\ Cardinality(RetiredIds) <= Grace
  <2>1. /\ Len(retired) \in Nat /\ DOMAIN retired = 1 .. Len(retired)
    BY <1>1
  <2>2. IsFiniteSet(1 .. Len(retired)) /\ Cardinality(1 .. Len(retired)) = Len(retired)
    <3>1. /\ IsFiniteSet(1 .. Len(retired))
          /\ Cardinality(1 .. Len(retired)) =
               IF 1 > Len(retired) THEN 0 ELSE Len(retired) - 1 + 1
      BY <2>1, 1 \in Int, Len(retired) \in Int, FS_Interval
    <3> QED BY <2>1, <3>1
  <2> DEFINE g == [k \in 1 .. Len(retired) |-> retired[k]]
  <2>3. g \in Surjection(1 .. Len(retired), RetiredIds)
    BY <2>1 DEF Surjection, RetiredIds
  <2>4. IsFiniteSet(RetiredIds) /\ Cardinality(RetiredIds) <= Len(retired)
    BY <2>2, <2>3, FS_Surjection
  <2>5. Cardinality(RetiredIds) \in Nat BY <2>4, FS_CardinalityType
  <2> QED BY <1>1, <2>1, <2>4, <2>5
<1>5. /\ IsFiniteSet(live \cup RetiredIds)
      /\ Cardinality(live \cup RetiredIds) <= Cardinality(live) + Grace
  <2>1. /\ IsFiniteSet(live \cup RetiredIds)
        /\ Cardinality(live \cup RetiredIds) =
             Cardinality(live) + Cardinality(RetiredIds) - Cardinality(live \cap RetiredIds)
    BY <1>3, <1>4, FS_Union
  <2>2. IsFiniteSet(live \cap RetiredIds) BY <1>3, FS_Intersection
  <2>3. /\ Cardinality(live) \in Nat /\ Cardinality(RetiredIds) \in Nat
        /\ Cardinality(live \cap RetiredIds) \in Nat
    BY <1>3, <1>4, <2>2, FS_CardinalityType
  <2> QED BY <1>1, <1>4, <2>1, <2>3
<1>6. Cardinality(pool.allocated) <= Cardinality(live \cup RetiredIds)
  <2> DEFINE h == [s \in pool.allocated |-> orders[s].id]
  <2>1. h \in Injection(pool.allocated, live \cup RetiredIds)
    <3>1. \A s \in pool.allocated :
            orders[s].id.slot = s /\ orders[s].id \in live \cup RetiredIds
      BY DEF IndInv, Indexed
    <3> QED BY <3>1 DEF Injection, IsInjective
  <2> QED BY <1>5, <2>1, FS_Injection
<1>7. /\ Cardinality(pool.allocated) \in Nat /\ Cardinality(live \cup RetiredIds) \in Nat
      /\ Cardinality(live) \in Nat
  BY <1>1, <1>2, <1>3, <1>5, FS_Subset, FS_CardinalityType
<1> QED BY <1>1, <1>5, <1>6, <1>7

(* submit() cannot find the pool exhausted, and trip the kill switch for    *)
(* good, while the open orders and the grace window leave a slot.           *)
THEOREM PoolHasHeadroom == ASSUME NoWrap PROVE Spec => []HeadroomKeepsTrading
<1>1. IndInv => HeadroomKeepsTrading
  <2> SUFFICES ASSUME IndInv, Cardinality(live) + Grace < Capacity
               PROVE  pool.inUse < Capacity
    BY DEF HeadroomKeepsTrading
  <2>1. Cardinality(live) \in Nat /\ pool.inUse <= Cardinality(live) + Grace
    BY SlotsInUse
  <2>2. pool.inUse \in Int /\ Capacity \in Int BY PoolAssumption DEF IndInv, TypeOK, PoolType
  <2>3. Cardinality(live) + Grace \in Int BY <2>1, ManagerAssumption DEF ManagerAssumption
  <2> QED BY <2>1, <2>2, <2>3
<1> QED BY <1>1, Invariance, PTL

-----------------------------------------------------------------------------
(* The refinement: under the inductive invariant an accepted submit() opens *)
(* an order of the ledger, a valid fill books a trade, the unfilled end of  *)
(* an order closes it, and every other call or event leaves it alone.       *)

(* What the ledger keeps of an open order. *)
Entry(o) == [inst |-> o.inst, side |-> o.side, left |-> Remaining(o)]
Entries == [id \in live |-> Entry(OrderOf(id))]

(* What an entry adds to the pending quantity of its instrument, and the    *)
(* pending quantity of instrument i that a table of entries stands for.     *)
Due(e) == Signed(e.side, e.left)
Outstanding(es, i) ==
  SumFunctionOnSet([id \in DOMAIN es |-> Due(es[id])], {id \in DOMAIN es : es[id].inst = i})

EntryType == [inst : Instruments, side : {"Buy", "Sell"}, left : Int]

Opened(es, id, e) == [x \in DOMAIN es \cup {id} |-> IF x = id THEN e ELSE es[x]]
Closed(es, id) == [x \in DOMAIN es \ {id} |-> es[x]]
Reduced(es, id, q) == [es EXCEPT ![id].left = @ - q]

(* A new entry adds what is due on it to its instrument. *)
LEMMA OpenedOutstanding ==
  ASSUME NEW L, IsFiniteSet(L), NEW es \in [L -> EntryType], NEW id, id \notin L,
         NEW e \in EntryType, NEW i
  PROVE  /\ Outstanding(es, i) \in Int
         /\ Outstanding(Opened(es, id, e), i) =
              Outstanding(es, i) + IF e.inst = i THEN Due(e) ELSE 0
<1> DEFINE new == Opened(es, id, e)
           f == [x \in L |-> Due(es[x])]
           g == [x \in L \cup {id} |-> Due(new[x])]
           S == {x \in L : es[x].inst = i}
           T == {x \in L \cup {id} : new[x].inst = i}
<1>1. /\ DOMAIN es = L /\ DOMAIN new = L \cup {id}
      /\ new[id] = e /\ \A x \in L : new[x] = es[x]
  BY DEF Opened
<1>2. \A x \in EntryType : Due(x) \in Int BY DEF Due, Signed, EntryType
<1>3. g[id] = Due(e) /\ \A x \in S : f[x] \in Int /\ g[x] = f[x] /\ g[x] \in Int
  BY <1>1, <1>2
<1>4. IsFiniteSet(S) /\ id \notin S BY FS_Subset
<1>5. T = IF e.inst = i THEN S \cup {id} ELSE S BY <1>1
<1>6. Outstanding(es, i) = SumFunctionOnSet(f, S) /\ Outstanding(new, i) = SumFunctionOnSet(g, T)
  BY <1>1 DEF Outstanding
<1> HIDE DEF f, g, S, T, new
<1>7. SumFunctionOnSet(f, S) \in Int /\ SumFunctionOnSet(g, S) = SumFunctionOnSet(f, S)
  BY <1>3, <1>4, SumInt, SumSame
<1>8. SumFunctionOnSet(g, S \cup {id}) = Due(e) + SumFunctionOnSet(g, S)
  BY <1>2, <1>3, <1>4, SumAdd
<1> QED BY <1>2, <1>5, <1>6, <1>7, <1>8 DEF new

(* A closed entry takes what was due on it. *)
LEMMA ClosedOutstanding ==
  ASSUME NEW L, IsFiniteSet(L), NEW es \in [L -> EntryType], NEW id \in L, NEW i
  PROVE  Outstanding(Closed(es, id), i) =
              Outstanding(es, i) - IF es[id].inst = i THEN Due(es[id]) ELSE 0
<1> DEFINE old == Closed(es, id)
<1>1. /\ old \in [L \ {id} -> EntryType] /\ es = Opened(old, id, es[id])
      /\ IsFiniteSet(L \ {id}) /\ id \notin L \ {id} /\ es[id] \in EntryType
  BY FS_Subset DEF Closed, Opened
<1>2. Due(es[id]) \in Int BY <1>1 DEF Due, Signed, EntryType
<1> HIDE DEF old
<1>3. /\ Outstanding(old, i) \in Int
      /\ Outstanding(es, i) = Outstanding(old, i) + IF es[id].inst = i THEN Due(es[id]) ELSE 0
  BY <1>1, OpenedOutstanding
<1> QED BY <1>2, <1>3 DEF old

(* An entry that loses quantity q loses what is due on q. *)
LEMMA ReducedOutstanding ==
  ASSUME NEW L, IsFiniteSet(L), NEW es \in [L -> EntryType], NEW id \in L, NEW q \in Int, NEW i
  PROVE  Outstanding(Reduced(es, id, q), i) =
              Outstanding(es, i) - IF es[id].inst = i THEN Signed(es[id].side, q) ELSE 0
<1> DEFINE old == Closed(es, id)
           e   == [es[id] EXCEPT !.left = @ - q]
           new == Reduced(es, id, q)
<1>1. /\ old \in [L \ {id} -> EntryType]
      /\ IsFiniteSet(L \ {id}) /\ id \notin L \ {id} /\ es[id] \in EntryType
  BY FS_Subset DEF Closed
<1>2. e \in EntryType /\ e.inst = es[id].inst /\ e.side = es[id].side /\ e.left = es[id].left - q
  BY <1>1 DEF EntryType
<1>3. new = Opened(old, id, e) BY DEF Reduced, Closed, Opened
<1>4. Outstanding(old, i) = Outstanding(es, i) - IF es[id].inst = i THEN Due(es[id]) ELSE 0
  BY ClosedOutstanding
<1>5. /\ es[id].left \in Int /\ es[id].side \in {"Buy", "Sell"}
      /\ Due(e) = Due(es[id]) - Signed(es[id].side, q) 
      /\ Due(e) \in Int /\ Due(es[id]) \in Int /\ Signed(es[id].side, q) \in Int
  BY <1>1, <1>2 DEF Due, Signed, EntryType
<1> HIDE DEF old, e, new
<1>6. /\ Outstanding(old, i) \in Int
      /\ Outstanding(new, i) = Outstanding(old, i) + IF e.inst = i THEN Due(e) ELSE 0
  BY <1>1, <1>2, <1>3, OpenedOutstanding
<1>7. Outstanding(es, i) \in Int
  <2> DEFINE f == [x \in L |-> Due(es[x])]
             S == {x \in L : es[x].inst = i}
  <2>1. IsFiniteSet(S) /\ \A x \in S : f[x] \in Int BY FS_Subset DEF Due, Signed, EntryType
  <2>2. Outstanding(es, i) = SumFunctionOnSet(f, S) BY DEF Outstanding
  <2> HIDE DEF f, S
  <2> QED BY <2>1, <2>2, SumInt
<1> QED BY <1>2, <1>4, <1>5, <1>6, <1>7 DEF new

(* The pending quantities are what the open orders' entries stand for.      *)
Balanced == \A i \in Instruments : pending[i] = Outstanding(Entries, i)

(* A step of the ledger, or one that leaves it alone, that keeps the        *)
(* balance; and a step that touches neither.                                *)
LedgerStep == [Ledger!Next]_(Ledger!vars) /\ (Balanced => Balanced')
Quiet == UNCHANGED <<Ledger!vars, pending>>

LEMMA QuietIsStep == Quiet => LedgerStep
<1> SUFFICES ASSUME Quiet PROVE LedgerStep OBVIOUS
<1>1. Entries' = Entries BY DEF Quiet, Ledger!vars, Entries, Entry
<1> QED BY <1>1 DEF Quiet, LedgerStep, Balanced

(* The entries of the open orders are finitely many and well typed. *)
LEMMA EntriesTyped ==
  ASSUME IndInv PROVE IsFiniteSet(live) /\ Entries \in [live -> EntryType]
<1>1. \A id \in live : OrderOf(id) \in OrderType BY DEF IndInv, TypeOK, Ids, OrderOf
<1>2. \A id \in live : Entry(OrderOf(id)) \in EntryType
  BY <1>1 DEF Entry, EntryType, OrderType, Sides, Remaining
<1> QED BY <1>2, LiveIsFinite DEF Entries

(* Two open orders are never in the same slot. *)
LEMMA OpenSlotsDiffer ==
  ASSUME IndInv, NEW x \in live, NEW y \in live, x.slot = y.slot
  PROVE  x = y
BY DEF IndInv, Indexed, Owns

(* The constructor's state is the empty ledger. *)
LEMMA InitIsEmptyLedger == Init => Ledger!Init
BY DEF Init, Ledger!Init

(* A step that leaves the open orders' terms and the books alone. *)
LEMMA QuietStep ==
  ASSUME UNCHANGED <<live, trades, issued, books>>,
         \A id \in live : Entry(orders'[id.slot]) = Entry(orders[id.slot])
  PROVE  Quiet
<1>1. Entries' = Entries BY DEF Entries, OrderOf
<1> QED BY <1>1 DEF Quiet, Ledger!vars, Entries, Entry, OrderOf, books

(* submit(), sent: an order opens under an id no venue was given before. *)
LEMMA OpenStep ==
  ASSUME IndInv, NEW v \in Venues, NEW req \in Requests, SubmitAccepted(v, req)
  PROVE  LedgerStep
<1> DEFINE id == NewId(v)
           e  == [inst |-> req.inst, side |-> req.side, left |-> req.size]
<1>1. /\ CanSubmit /\ WithinBounds(v) /\ Update(id, NewOrder(id, req, "Sent"))
      /\ live' = live \cup {id} /\ issued' = issued \cup {id}
      /\ pending' = [pending EXCEPT ![req.inst] = @ + Signed(req.side, req.size)]
      /\ UNCHANGED <<trades, position>>
  BY DEF SubmitAccepted
<1>2. /\ id \in Ids /\ id \notin live /\ id.slot \notin pool.allocated
      /\ id.slot \in Slots /\ id.gen = pool.generation[id.slot]
      /\ orders'[id.slot] = NewOrder(id, req, "Sent")
      /\ \A s \in Slots \ {id.slot} : orders'[s] = orders[s]
  BY <1>1, AcquireKeepsBooks, ManagerAssumption DEF NewId
<1>3. id \notin issued
  <2>1. id.gen \in Int BY <1>2 DEF Ids, Generations
  <2> QED BY <1>2, <2>1 DEF IndInv, IssuedOK, Owns, IsCurrent
<1>4. \A x \in live : x.slot \in Slots \ {id.slot}
  BY <1>2 DEF IndInv, TypeOK, Indexed, Owns, IsCurrent, PoolType
<1>5. /\ req.inst \in Instruments /\ req.side \in {"Buy", "Sell"} /\ req.size \in Nat
  BY ManagerAssumption DEF ManagerAssumption
<1>6. Entries' = Opened(Entries, id, e)
  <2>1. Entry(orders'[id.slot]) = e
    BY <1>2, <1>5 DEF Entry, NewOrder, Remaining
  <2>2. \A x \in live : Entry(orders'[x.slot]) = Entries[x]
    BY <1>2, <1>4 DEF Entries, OrderOf
  <2> HIDE DEF id, e
  <2> QED BY <1>1, <1>2, <2>1, <2>2 DEF Entries, OrderOf, Opened
<1> HIDE DEF id
<1>7. Ledger!OpenOrder(id, req.inst, req.side, req.size)
  BY <1>1, <1>2, <1>3, <1>6 DEF Ledger!OpenOrder, Entries, Entry, OrderOf, Opened
<1>8. ASSUME Balanced, NEW i \in Instruments PROVE pending'[i] = Outstanding(Entries', i)
  <2>1. /\ Outstanding(Entries, i) \in Int /\ pending[i] = Outstanding(Entries, i)
        /\ Outstanding(Entries', i) =
             Outstanding(Entries, i) + IF e.inst = i THEN Due(e) ELSE 0
    BY <1>2, <1>5, <1>6, <1>8, EntriesTyped, OpenedOutstanding DEF Balanced, EntryType
  <2>2. pending'[i] = pending[i] + IF req.inst = i THEN Signed(req.side, req.size) ELSE 0
    BY <1>1, <2>1 DEF IndInv, TypeOK
  <2> QED BY <2>1, <2>2 DEF Due
<1> QED BY <1>2, <1>5, <1>7, <1>8 DEF LedgerStep, Balanced, Ledger!Next

(* The ledger without an order that left the live index. *)
LEMMA OthersKeepTheirTerms ==
  ASSUME IndInv, NEW id \in live, NEW o, Update(id, o), live' = live \ {id}
  PROVE  Entries' = Closed(Entries, id)
<1>1. /\ orders \in [Slots -> OrderType] /\ \A x \in live : x.slot \in Slots
  BY DEF IndInv, TypeOK, Ids
<1>2. \A x \in live \ {id} : orders'[x.slot] = orders[x.slot]
  BY <1>1, OpenSlotsDiffer DEF Update
<1> QED BY <1>2 DEF Entries, OrderOf, Closed

(* A reject, a cancel-ack or an unsolicited cancel closes an open order. *)
LEMMA CloseStep ==
  ASSUME IndInv, NEW id \in issued, Open(id), NEW o, Finish(id, o),
         Entry(o) = Entry(OrderOf(id))
  PROVE  LedgerStep
<1>1. /\ Update(id, o) /\ live' = live \ {id} /\ trades' = {t \in trades : t[1] # id}
      /\ pending' = [pending EXCEPT ![o.inst] = @ - Signed(o.side, Remaining(o))]
      /\ UNCHANGED <<issued, position>>
  BY DEF Finish, Retire, ids
<1>2. id \in live BY OpenIsLive
<1>3. Entries' = Closed(Entries, id) BY <1>1, <1>2, OthersKeepTheirTerms
<1>4. Ledger!Close(id)
  BY <1>1, <1>2, <1>3
     DEF Ledger!Close, Ledger!Without, Ledger!SeenWithout, Entries, Entry, OrderOf, Closed
<1>5. ASSUME Balanced, NEW i \in Instruments PROVE pending'[i] = Outstanding(Entries', i)
  <2>1. /\ pending[i] = Outstanding(Entries, i)
        /\ Outstanding(Entries', i) =
             Outstanding(Entries, i) - IF Entries[id].inst = i THEN Due(Entries[id]) ELSE 0
    BY <1>2, <1>3, <1>5, EntriesTyped, ClosedOutstanding DEF Balanced
  <2>2. Entries[id] = Entry(o) BY <1>2 DEF Entries
  <2>3. Entries[id].inst = o.inst /\ Due(Entries[id]) = Signed(o.side, Remaining(o))
    BY <2>2 DEF Entry, Due
  <2>4. pending[i] \in Int /\ pending \in [Instruments -> Int] BY DEF IndInv, TypeOK
  <2> QED BY <1>1, <2>1, <2>3, <2>4
<1> QED BY <1>2, <1>4, <1>5 DEF LedgerStep, Balanced, Ledger!Next

(* A valid fill books its trade: once, and no more than is left. *)
LEMMA BookStep ==
  ASSUME IndInv, NEW id \in issued, NEW qty \in Quantities, NEW price, NEW trade \in Trades,
         ApplyFill(id, qty, price, trade)
  PROVE  LedgerStep
<1> DEFINE o  == OrderOf(id)
           st == IF o.filled + qty = o.size THEN "Filled" ELSE "PartiallyFilled"
           r  == [o EXCEPT !.filled = @ + qty, !.status = st]
<1>1. /\ Open(id) /\ qty \in Int /\ qty > 0 /\ qty <= o.size - o.filled
      /\ <<id, trade>> \notin trades /\ Update(id, r) /\ UNCHANGED issued
      /\ position' = [position EXCEPT ![o.inst] = @ + Signed(o.side, qty)]
      /\ pending' = [pending EXCEPT ![o.inst] = @ - Signed(o.side, qty)]
  BY ManagerAssumption DEF ApplyFill, FillOk, Remaining, ManagerAssumption, ids
<1>2. /\ id \in live /\ id.slot \in Slots /\ o \in OrderType
      /\ o.filled \in Nat /\ o.size \in Nat
      /\ o.inst \in Instruments /\ o.side \in {"Buy", "Sell"}
  BY <1>1, OpenIsLive DEF OrderType, Sides
<1>3. Entries[id] = [inst |-> o.inst, side |-> o.side, left |-> o.size - o.filled]
  BY <1>2 DEF Entries, Entry, Remaining
<1>4. Ledger!Direction(o.side) * qty = Signed(o.side, qty)
  BY <1>1, <1>2 DEF Ledger!Direction, Signed
<1>b. ASSUME \A i \in Instruments :
               Outstanding(Entries', i) =
                 Outstanding(Entries, i) - IF o.inst = i THEN Signed(o.side, qty) ELSE 0
      PROVE  Balanced => Balanced'
  <2>1. pending \in [Instruments -> Int] BY DEF IndInv, TypeOK
  <2> HIDE DEF o
  <2>2. \A i \in Instruments :
          pending'[i] = pending[i] - IF o.inst = i THEN Signed(o.side, qty) ELSE 0
    BY <1>1, <2>1
  <2> QED BY <1>b, <2>2 DEF Balanced
<1>5. CASE o.filled + qty = o.size
  <2>1. live' = live \ {id} /\ trades' = {t \in trades : t[1] # id}
    BY <1>5 DEF ApplyFill, Retire
  <2>2. Entries' = Closed(Entries, id)
    BY <1>1, <1>2, <2>1, OthersKeepTheirTerms
  <2>3. qty = Entries[id].left BY <1>1, <1>2, <1>3, <1>5
  <2>4. Ledger!Book(id, trade, qty)
    BY <1>1, <1>2, <1>3, <1>4, <2>1, <2>2, <2>3
       DEF Ledger!Book, Ledger!Without, Ledger!SeenWithout, Entries, Entry, OrderOf, Closed
  <2>5. qty \in 1 .. Entries[id].left BY <1>1, <1>2, <1>3, <2>3
  <2>6. ASSUME NEW i \in Instruments
        PROVE  Outstanding(Entries', i) =
                 Outstanding(Entries, i) - IF o.inst = i THEN Signed(o.side, qty) ELSE 0
    <3>1. Entries[id].inst = o.inst /\ Due(Entries[id]) = Signed(o.side, qty)
      BY <1>3, <2>3 DEF Due
    <3> QED BY <1>2, <2>2, <3>1, EntriesTyped, ClosedOutstanding
  <2>7. Ledger!Next BY <1>2, <2>4, <2>5 DEF Ledger!Next, Entries, Entry, OrderOf
  <2> QED BY <1>b, <2>6, <2>7 DEF LedgerStep
<1>6. CASE o.filled + qty # o.size
  <2>1. live' = live /\ trades' = trades \cup {<<id, trade>>}
    BY <1>6 DEF ApplyFill
  <2>2. qty # Entries[id].left BY <1>1, <1>2, <1>3, <1>6
  <2>3. Entry(orders'[id.slot]) = [Entries[id] EXCEPT !.left = @ - qty]
    <3>1. orders'[id.slot] = r /\ orders \in [Slots -> OrderType]
      BY <1>1, <1>2 DEF Update, IndInv, TypeOK
    <3>2. r.inst = o.inst /\ r.side = o.side /\ r.size = o.size /\ r.filled = o.filled + qty
      BY <1>2 DEF OrderType
    <3>3. r.size - r.filled = (o.size - o.filled) - qty BY <1>1, <1>2, <3>2
    <3> HIDE DEF r
    <3> QED BY <1>3, <3>1, <3>2, <3>3 DEF Entry, Remaining
  <2>4. \A x \in live \ {id} : orders'[x.slot] = orders[x.slot]
    <3>1. orders \in [Slots -> OrderType] /\ \A x \in live : x.slot \in Slots
      BY DEF IndInv, TypeOK, Ids
    <3> QED BY <1>1, <1>2, <3>1, OpenSlotsDiffer DEF Update
  <2>5. Entries' = [Entries EXCEPT ![id].left = @ - qty]
    BY <1>2, <2>1, <2>3, <2>4 DEF Entries, OrderOf
  <2>6. Ledger!Book(id, trade, qty)
    BY <1>1, <1>2, <1>3, <1>4, <2>1, <2>2, <2>5 DEF Ledger!Book, Entries, Entry, OrderOf
  <2>7. ASSUME NEW i \in Instruments
        PROVE  Outstanding(Entries', i) =
                 Outstanding(Entries, i) - IF o.inst = i THEN Signed(o.side, qty) ELSE 0
    <3>1. Entries[id].inst = o.inst /\ Entries[id].side = o.side BY <1>3
    <3>2. Entries' = Reduced(Entries, id, qty) BY <2>5 DEF Reduced
    <3> QED BY <1>1, <1>2, <3>1, <3>2, EntriesTyped, ReducedOutstanding
  <2>8. Ledger!Next BY <1>1, <1>2, <1>3, <2>6 DEF Ledger!Next, Entries, Entry, OrderOf
  <2> QED BY <1>b, <2>7, <2>8 DEF LedgerStep
<1> QED BY <1>5, <1>6

(* An order that a handler reworks in place keeps its terms. *)
LEMMA ReworkedTerms ==
  ASSUME IndInv, NEW id \in issued, Open(id), NEW o, Update(id, o),
         Entry(o) = Entry(OrderOf(id)), UNCHANGED <<live, trades, issued, books>>
  PROVE  Quiet
<1>1. orders \in [Slots -> OrderType] BY DEF IndInv, TypeOK
<1>2. \A s \in Slots : Entry(orders'[s]) = Entry(orders[s])
  BY <1>1 DEF Update, OrderOf
<1>3. \A x \in live : x.slot \in Slots BY DEF IndInv, TypeOK, Ids
<1> QED BY <1>2, <1>3, QuietStep

(* Calls and events that touch neither order nor index. *)
LEMMA FrameStep ==
  ASSUME UNCHANGED <<orders, live, trades, issued, books>>
  PROVE  Quiet
BY QuietStep

(* submit(): opens an order of the ledger, or leaves it alone. *)
LEMMA SubmitKeepsLedger ==
  ASSUME NoWrap, IndInv, Submit
  PROVE  LedgerStep
<1>1. ASSUME NEW v \in Venues, NEW req \in Requests, SubmitAccepted(v, req)
      PROVE  LedgerStep
  BY <1>1, OpenStep
<1>2. ASSUME NEW v \in Venues, NEW req \in Requests, SubmitRejectedLocally(v, req)
      PROVE  Quiet
  <2> DEFINE id == NewId(v)
  <2>1. /\ CanSubmit /\ WithinBounds(v) /\ Update(id, NewOrder(id, req, "Rejected"))
        /\ live' = live \ {id} /\ trades' = {t \in trades : t[1] # id}
        /\ UNCHANGED <<books, issued>>
    BY <1>2 DEF SubmitRejectedLocally, Retire
  <2>2. /\ id \notin live /\ id.slot \notin pool.allocated
        /\ \A s \in Slots \ {id.slot} : orders'[s] = orders[s]
    BY <2>1, AcquireKeepsBooks, ManagerAssumption
  <2>3. live' = live /\ trades' = trades
    BY <2>1, <2>2 DEF IndInv
  <2>4. \A x \in live : x.slot \in Slots \ {id.slot}
    BY <2>2 DEF IndInv, TypeOK, Indexed, Owns, IsCurrent, PoolType
  <2> QED BY <2>1, <2>2, <2>3, <2>4, QuietStep
<1>3. ASSUME SubmitExhausted PROVE Quiet
  BY <1>3, FrameStep DEF SubmitExhausted, index, ids
<1>4. ASSUME NEW up \in SUBSET Venues, SubmitAllDown(up) PROVE Quiet
  <2>1. orders \in [Slots -> OrderType] /\ \A x \in live : x.slot \in Slots
    BY DEF IndInv, TypeOK, Ids
  <2>2. \A s \in Slots : Entry(orders'[s]) = Entry(orders[s])
    BY <1>4, <2>1 DEF SubmitAllDown, MarkCancelled, Entry, Remaining, OrderType
  <2> QED BY <1>4, <2>1, <2>2, QuietStep DEF SubmitAllDown, index, ids
<1> QED BY <1>1, <1>2, <1>3, <1>4, QuietIsStep DEF Submit

(* An inbound event books a trade, closes an order, or does nothing. *)
LEMMA InboundKeepsLedger ==
  ASSUME IndInv, NEW id \in issued, Cancel(id) \/ Inbound(id)
  PROVE  LedgerStep
<1> DEFINE o == OrderOf(id)
<1>a. Open(id) => o \in OrderType BY OpenIsLive
<1>b. Drop => Quiet
  BY FrameStep DEF Drop, index, ids
<1>1. ASSUME Cancel(id) PROVE Quiet
  <2> DEFINE r == [o EXCEPT !.pendingCancel = TRUE, !.status = "SentCancel"]
  <2>1. /\ Open(id) /\ Update(id, r) /\ UNCHANGED <<live, trades, issued, books>>
    BY <1>1 DEF Cancel, index, ids
  <2>2. Entry(r) = Entry(o) BY <1>a, <2>1 DEF Entry, Remaining, OrderType
  <2> HIDE DEF r
  <2> QED BY <2>1, <2>2, ReworkedTerms
<1>2. ASSUME OnConfirm(id) PROVE Quiet
  <2> DEFINE r == [o EXCEPT !.status = IF @ \in {"New", "Sent"} THEN "Confirmed" ELSE @]
  <2>1. ASSUME Open(id), ~Drop PROVE Quiet
    <3>1. Update(id, r) /\ UNCHANGED <<live, trades, issued, books>>
      BY <1>2, <2>1 DEF OnConfirm, index, ids
    <3>2. Entry(r) = Entry(o) BY <1>a, <2>1 DEF Entry, Remaining, OrderType
    <3> HIDE DEF r
    <3> QED BY <2>1, <3>1, <3>2, ReworkedTerms
  <2> QED BY <1>2, <1>b, <2>1 DEF OnConfirm
<1>3. ASSUME NEW qty \in Quantities, NEW p, NEW t \in Trades, OnFill(id, qty, p, t)
      PROVE  LedgerStep
  <2>1. UnknownFill(id) => Quiet
    BY FrameStep DEF UnknownFill, index, ids
  <2> QED BY <1>3, <1>b, <2>1, BookStep, QuietIsStep DEF OnFill
<1>4. ASSUME OnCancelReject(id) PROVE Quiet
  <2> DEFINE st == IF o.filled > 0 THEN "PartiallyFilled" ELSE "Confirmed"
             r  == [o EXCEPT !.pendingCancel = FALSE, !.status = st]
  <2>1. ASSUME id \in expectedFalse, ~Drop PROVE Quiet
    BY <1>4, <2>1, FrameStep DEF OnCancelReject, ids
  <2>2. ASSUME id \notin expectedFalse, Open(id), ~Drop PROVE Quiet
    <3>1. Update(id, r) /\ UNCHANGED <<live, trades, issued, books>>
      BY <1>4, <2>2 DEF OnCancelReject, index, ids
    <3>2. Entry(r) = Entry(o) BY <1>a, <2>2 DEF Entry, Remaining, OrderType
    <3> HIDE DEF r
    <3> QED BY <2>2, <3>1, <3>2, ReworkedTerms
  <2> QED BY <1>4, <1>b, <2>1, <2>2 DEF OnCancelReject
<1>5. ASSUME OnReject(id) PROVE LedgerStep
  <2> DEFINE r == [o EXCEPT !.status = "Rejected"]
  <2>1. ASSUME Open(id) PROVE Entry(r) = Entry(o)
    BY <1>a, <2>1 DEF Entry, Remaining, OrderType
  <2>2. (Open(id) /\ Finish(id, r)) \/ Drop BY <1>5 DEF OnReject
  <2> HIDE DEF r
  <2> QED BY <1>b, <2>1, <2>2, CloseStep, QuietIsStep
<1>6. ASSUME NEW kind, FinishCancel(id, kind) PROVE LedgerStep
  <2> DEFINE r == [o EXCEPT !.pendingCancel = FALSE, !.status = "Cancelled"]
  <2>1. ASSUME Open(id) PROVE Entry(r) = Entry(o)
    BY <1>a, <2>1 DEF Entry, Remaining, OrderType
  <2>2. (Open(id) /\ Finish(id, r)) \/ Drop BY <1>6 DEF FinishCancel
  <2> HIDE DEF r
  <2> QED BY <1>b, <2>1, <2>2, CloseStep, QuietIsStep
<1> QED BY <1>1, <1>2, <1>3, <1>4, <1>5, <1>6, QuietIsStep
        DEF Inbound, OnCancelAck, OnUnsolicitedCancel

(* The ack timer marks orders and cancels some: their terms stay. *)
LEMMA TimeoutKeepsLedger ==
  ASSUME IndInv, NEW overdue \in SUBSET live, NEW up \in SUBSET Venues,
         CheckAckTimeouts(overdue, up)
  PROVE  Quiet
<1>1. orders \in [Slots -> OrderType] /\ \A x \in live : x.slot \in Slots
  BY DEF IndInv, TypeOK, Ids
<1>2. ASSUME NEW s \in Slots PROVE Entry(orders'[s]) = Entry(orders[s])
  <2>1. \/ orders'[s] = [orders[s] EXCEPT !.ackTimedOut = TRUE, !.pendingCancel = TRUE,
                                         !.status = "SentCancel"]
        \/ orders'[s] = [orders[s] EXCEPT !.ackTimedOut = TRUE]
        \/ orders'[s] = orders[s]
    BY DEF CheckAckTimeouts
  <2> QED BY <1>1, <2>1 DEF Entry, Remaining, OrderType
<1> QED BY <1>1, <1>2, QuietStep DEF CheckAckTimeouts, index, ids

(* Every step of the manager is a step of the ledger or leaves it alone. *)
LEMMA StepKeepsLedger ==
  NoWrap /\ IndInv /\ [Next]_vars => LedgerStep
<1> SUFFICES ASSUME NoWrap, IndInv, [Next]_vars PROVE LedgerStep
  OBVIOUS
<1>1. CASE Submit BY <1>1, SubmitKeepsLedger
<1>2. CASE \E id \in issued : Cancel(id) \/ Inbound(id) BY <1>2, InboundKeepsLedger
<1>3. CASE \E overdue \in SUBSET live, up \in SUBSET Venues :
             CheckAckTimeouts(overdue, up)
  BY <1>3, TimeoutKeepsLedger, QuietIsStep
<1>4. CASE \/ \E v \in Venues : OnVenueDisconnect(v) \/ OnVenueReconnect(v)
           \/ ResetRebalanceCycle \/ ClearReconcileRequest
           \/ UNCHANGED vars
  <2>1. UNCHANGED <<orders, live, trades, issued, books>>
    BY <1>4 DEF OnVenueDisconnect, OnVenueReconnect, ResetRebalanceCycle,
                ClearReconcileRequest, vars, index, ids
  <2> QED BY <2>1, FrameStep, QuietIsStep
<1> QED BY <1>1, <1>2, <1>3, <1>4 DEF Next

(* The order manager implements the order ledger, for every pool, grace     *)
(* window and set of requests and whatever the venues report: ids are never *)
(* used twice, a trade is booked at most once and only while its order is   *)
(* open, for at most what is left of it, and a closed order moves nothing.  *)
THEOREM ImplementsLedger == ASSUME NoWrap PROVE Spec => KeepsLedger
<1>1. IndInv /\ [Next]_vars => [Ledger!Next]_(Ledger!vars) BY StepKeepsLedger DEF LedgerStep
<1> QED BY <1>1, InitIsEmptyLedger, Invariance, PTL DEF Spec, KeepsLedger, Ledger!Spec

(* The pending quantity of an instrument, which every handler keeps by      *)
(* adding and subtracting, is the signed sum of what is left of its open    *)
(* orders, through partial fills, cancels, rejects and slot reuse.          *)
THEOREM PendingIsRemainder == ASSUME NoWrap PROVE Spec => []PendingIsOpenRemainder
<1>1. Init => Balanced
  <2> SUFFICES ASSUME Init, NEW i \in Instruments PROVE pending[i] = Outstanding(Entries, i)
    BY DEF Balanced
  <2>1. pending[i] = 0 /\ DOMAIN Entries = {} BY DEF Init, Entries
  <2> QED BY <2>1, SumEmpty DEF Outstanding
<1>2. IndInv /\ Balanced /\ [Next]_vars => Balanced' BY StepKeepsLedger DEF LedgerStep
<1>3. Balanced => PendingIsOpenRemainder
  BY DEF Balanced, Outstanding, Entries, Entry, Due, PendingIsOpenRemainder
<1> QED BY <1>1, <1>2, <1>3, Invariance, PTL DEF Spec
=============================================================================
