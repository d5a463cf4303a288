------------------------------ MODULE OrderPool ------------------------------
(****************************************************************************)
(* The fixed-capacity order pool (src/OrderPool.cpp) and the part of the    *)
(* order id it relies on.  A pool is a value: the operators below take one  *)
(* and return the next, so that a handler that acquires and releases in one *)
(* call composes them.  A slot is handed out last-in first-out; releasing   *)
(* it bumps its 16-bit generation (GenMod = 2^16 in the program), and an id *)
(* is current while its slot is allocated under the id's generation.  The   *)
(* venue and sequence fields of an id are not compared, as in the code.     *)
(****************************************************************************)
EXTENDS Integers, Sequences, FiniteSets

CONSTANTS Capacity,   \* slots in the pool
          GenMod      \* generations before the counter wraps

ASSUME PoolAssumption == Capacity \in Nat \ {0} /\ GenMod \in Nat \ {0}

Slots == 0 .. Capacity - 1
Generations == 0 .. GenMod - 1

PoolType == [generation : [Slots -> Generations],
             allocated  : SUBSET Slots,
             inUse      : 0 .. Capacity,
             freeList   : Seq(Slots)]

(* The constructor pushes slots in descending order: slot 0 goes first. *)
EmptyPool == [generation |-> [s \in Slots |-> 0],
              allocated  |-> {},
              inUse      |-> 0,
              freeList   |-> [i \in 1 .. Capacity |-> Capacity - i]]

NextSlot(pool) == pool.freeList[Len(pool.freeList)]

Acquire(pool) ==
  [generation |-> pool.generation,
   allocated  |-> pool.allocated \cup {NextSlot(pool)},
   inUse      |-> pool.inUse + 1,
   freeList   |-> SubSeq(pool.freeList, 1, Len(pool.freeList) - 1)]

(* Mutants: the slot stays allocated; its generation is not bumped. *)
ReleaseStillAllocated(pool, slot) ==
  [pool EXCEPT !.generation[slot] = (@ + 1) % GenMod,
               !.inUse = @ - 1, !.freeList = Append(@, slot)]
ReleaseSameGeneration(pool, slot) ==
  [pool EXCEPT !.allocated = @ \ {slot},
               !.inUse = @ - 1, !.freeList = Append(@, slot)]

Release(pool, slot) ==
  [generation |-> [pool.generation EXCEPT ![slot] = (@ + 1) % GenMod],
   allocated  |-> pool.allocated \ {slot},
   inUse      |-> pool.inUse - 1,
   freeList   |-> Append(pool.freeList, slot)]

IsCurrent(pool, id) ==
  id.slot \in pool.allocated /\ pool.generation[id.slot] = id.gen

(* The free list holds each unallocated slot exactly once, and in_use_      *)
(* counts the others: acquire() never hands out a slot in use, release()    *)
(* never frees one twice (the two asserts of OrderPool.cpp).                *)
WellFormed(pool) ==
  /\ \A k \in DOMAIN pool.freeList : pool.freeList[k] \notin pool.allocated
  /\ \A s \in Slots \ pool.allocated :
       \E k \in DOMAIN pool.freeList : pool.freeList[k] = s
  /\ \A j, k \in DOMAIN pool.freeList :
       pool.freeList[j] = pool.freeList[k] => j = k
  /\ pool.inUse = Cardinality(pool.allocated)
=============================================================================
