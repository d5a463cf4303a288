---------------------------- MODULE ExecutionAlgo ----------------------------
(****************************************************************************)
(* TWAP, POV and the dispatcher (src/ExecutionAlgo.cpp): a parent order     *)
(* worked by child orders on its own timer, while the children fill, end    *)
(* and have their cancels refused in any order.  The order path is reduced  *)
(* to what an algorithm sees of it: the open children, what is left of      *)
(* each, and whether its cancel is on the way.  Time is the time of the     *)
(* last on_timer(), in units of the timer; the parent starts at 0.          *)
(****************************************************************************)
EXTENDS Integers, FiniteSetsExt

CONSTANTS Kinds,          \* AlgoFactory names: subset of {"twap", "pov"}
          Qty, End,       \* parent_.qty, parent_.end
          Slices,         \* config_.slices
          ResidualSlices, \* residual_twap_slices
          RatePercent,    \* participation_rate, in percent
          VolumeFloor,    \* min_volume_floor
          CatchUp,        \* catch_up_threshold
          Volumes,        \* volumes the market may show in one interval
          WorkerIndex,    \* index the algorithm is registered with
          MayRefuse,      \* whether submit() and cancel() can fail
          MaxForeign      \* bound: quantity filled for other orders

ASSUME AlgoAssumption ==
  /\ Kinds \subseteq {"twap", "pov"} /\ Volumes \subseteq Nat
  /\ {Qty, End, Slices, ResidualSlices} \subseteq Nat \ {0}
  /\ {RatePercent, VolumeFloor, CatchUp, WorkerIndex, MaxForeign} \subseteq Nat
  /\ MayRefuse \in BOOLEAN

VARIABLES kind,        \* which algorithm the factory made
          now,         \* time of the last on_timer()
          algo,        \* its AlgoBase and schedule
          held,        \* twap_ of a POV, empty before it degrades
          degraded,    \* degraded_
          market,      \* market_volume_
          incomplete,  \* stats_.incomplete_at_deadline
          sent,        \* stats_.child_orders: the last child's id
          open,        \* open children in the order manager
          executed,    \* history: quantity the children filled
          foreign      \* history: quantity other orders filled

vars == <<kind, now, algo, held, degraded, market, incomplete, sent, open,
          executed, foreign>>

Untagged == 0   \* worker_index of orders no algorithm sent

-----------------------------------------------------------------------------
(* AlgoBase *)

NoOrders == [i \in {} |-> 0]

Book(qty, start, n) ==
  [qty |-> qty, start |-> start, slices |-> n, filled |-> 0, children |-> NoOrders,
   slicesDone |-> 0, deadlineDone |-> FALSE, done |-> FALSE]

Inflight(b) == SumFunction(b.children)

(* The children of two books. *)
Both(a, h) ==
  [i \in DOMAIN a.children \cup DOMAIN h.children |->
     IF i \in DOMAIN a.children THEN a.children[i] ELSE h.children[i]]

(* Mutant: working children are forgotten. *)
LeftUnfilled(b) == b.qty - b.filled

Left(b) == b.qty - b.filled - Inflight(b)
Remaining(b) == IF Left(b) > 0 THEN Left(b) ELSE 0

WithChild(b, i, q) ==
  [b EXCEPT !.children = [j \in DOMAIN @ \cup {i} |-> IF j = i THEN q ELSE @[j]]]
WithoutChild(b, i) ==
  [b EXCEPT !.children = [j \in DOMAIN @ \ {i} |-> @[j]]]

(* on_fill(): q of child i, of which "rem" is left. *)
Filled(b, i, q, rem) ==
  LET paid == [b EXCEPT !.filled = @ + q, !.done = @ \/ b.filled + q >= b.qty]
  IN  IF i \notin DOMAIN b.children THEN paid
      ELSE IF rem = 0 THEN WithoutChild(paid, i)
      ELSE [paid EXCEPT !.children[i] = rem]

-----------------------------------------------------------------------------
(* TWAP.  "next" is the id of the next child, "ok" the slices whose submit  *)
(* succeeds; the quantity a refused slice did not send falls to the next.   *)

Dur(b) == Max({1, (IF End > b.start THEN End - b.start ELSE 1) \div b.slices})

(* Mutant: equal slices of the parent, whatever happened to earlier ones. *)
SliceEqual(b, k) == Min({Remaining(b), b.qty \div b.slices})

SliceQty(b, k) ==
  LET rem == Remaining(b)
      n   == b.slices - k
  IN  IF n <= 1 THEN rem ELSE (rem + n - 1) \div n

(* One turn of the loop, on the book and the id of the next child. *)
Fire(acc, k, ok) ==
  LET c == [acc.book EXCEPT !.slicesDone = k + 1]
      q == SliceQty(acc.book, k)
  IN  IF q > 0 /\ k \in ok
      THEN [book |-> WithChild(c, acc.next, q), next |-> acc.next + 1]
      ELSE [acc EXCEPT !.book = c]

(* after[k] is what the due slices before k leave. *)
FireSlices(b, t, next, ok) ==
  LET after[k \in b.slicesDone .. b.slices] ==
        IF k = b.slicesDone THEN [book |-> b, next |-> next]
        ELSE IF b.start + (k - 1) * Dur(b) <= t THEN Fire(after[k - 1], k - 1, ok)
        ELSE after[k - 1]
      worked == after[b.slices].book
  IN  [worked EXCEPT !.done = worked.filled >= worked.qty]

(* deadline_cross() with the residual it crosses. *)
Cross(b, residual, next, ok) ==
  LET c == [b EXCEPT !.deadlineDone = TRUE]
  IN  IF residual > 0 /\ 0 \in ok THEN WithChild(c, next, residual) ELSE c

(* Mutant: done at the deadline without waiting for the children. *)
TwapTimerHasty(b, t, next, ok) ==
  IF b.done THEN b
  ELSE IF t < End THEN FireSlices(b, t, next, ok)
  ELSE [(IF b.deadlineDone THEN b ELSE Cross(b, Left(b), next, ok)) EXCEPT !.done = TRUE]

TwapTimer(b, t, next, ok) ==
  IF b.done THEN b
  ELSE IF t < End THEN FireSlices(b, t, next, ok)
  ELSE LET c == IF b.deadlineDone THEN b ELSE Cross(b, Left(b), next, ok)
       IN  [c EXCEPT !.done = Inflight(c) = 0]

(* Mutant: the deadline itself is not past it. *)
OverdueAfter(b, t) ==
  IF t > End /\ ~b.done /\ ~b.deadlineDone THEN DOMAIN b.children ELSE {}

(* The children a book cancels at its first timer past the end. *)
Overdue(b, t) ==
  IF t >= End /\ ~b.done /\ ~b.deadlineDone THEN DOMAIN b.children ELSE {}

-----------------------------------------------------------------------------
(* The order path after a call that left the books a and h: new children    *)
(* are open, and the cancels of "cancelled" went out but for "refused".     *)
OrdersFrom(a, h, cancelled, refused) ==
  LET kids == Both(a, h)
      Sent(o, i) == [o EXCEPT !.cancel = IF i \notin refused THEN "sent"
                                         ELSE IF @ = "none" THEN "failed" ELSE @]
  IN  /\ sent' = sent + Cardinality(DOMAIN kids \ DOMAIN open)
      /\ open' = [i \in DOMAIN open \cup DOMAIN kids |->
                    IF i \notin DOMAIN open
                      THEN [rem |-> kids[i], ioc |-> now' >= End, cancel |-> "none"]
                    ELSE IF i \in cancelled THEN Sent(open[i], i) ELSE open[i]]

Refusals(S) == IF MayRefuse THEN SUBSET S ELSE {{}}
EverySlice == 0 .. Max({Slices, ResidualSlices})
Accepted == {EverySlice \ R : R \in Refusals(EverySlice)}

(* The timer moves forward, and goes on firing after the end. *)
At(t) == (t > now \/ t = End) /\ now' = t

TwapOnTimer(t, ok) ==
  /\ kind = "twap" /\ ~algo.done /\ At(t)
  /\ algo' = TwapTimer(algo, t, sent + 1, ok)
  /\ \E refused \in Refusals(Overdue(algo, t)) :
       OrdersFrom(algo', held, Overdue(algo, t), refused)
  /\ incomplete' = (algo'.done /\ algo'.filled < Qty)
  /\ UNCHANGED <<kind, held, degraded, market, executed, foreign>>

-----------------------------------------------------------------------------
(* POV *)

HeldTimer(h, t, ok) == TwapTimer(h, t, sent + 1, ok)

Settled(a, h) ==
  /\ algo' = [a EXCEPT !.done = Inflight(a) + Inflight(h) = 0]
  /\ incomplete' = (algo'.done /\ a.filled < Qty)

(* A POV that holds a TWAP leaves the deadline to it, which leaves the      *)
(* children alone that the POV sent before.                                 *)
PovDeadline(ok) ==
  /\ kind = "pov" /\ ~algo.done /\ At(End)
  /\ LET first  == ~algo.deadlineDone
         theirs == IF first /\ degraded THEN Overdue(held, End) ELSE {}
         mine   == IF first /\ ~degraded THEN DOMAIN algo.children ELSE {}
     IN /\ held' = IF first /\ degraded THEN HeldTimer(held, End, ok) ELSE held
        /\ Settled(IF first /\ ~degraded
                     THEN Cross(algo, Qty - algo.filled, sent + 1, ok)
                     ELSE [algo EXCEPT !.deadlineDone = TRUE], held')
        /\ \E refused \in Refusals(mine \cup theirs) :
             OrdersFrom(algo', held', mine \cup theirs, refused)
  /\ UNCHANGED <<kind, degraded, market, executed, foreign>>

DegradedTimer(t, ok) ==
  /\ kind = "pov" /\ ~algo.done /\ degraded /\ t < End /\ At(t)
  /\ held' = HeldTimer(held, t, ok)
  /\ algo' = [algo EXCEPT !.done = held'.done]
  /\ OrdersFrom(algo', held', {}, {})
  /\ UNCHANGED <<kind, degraded, market, incomplete, executed, foreign>>

Share(volume) == (RatePercent * volume) \div 100
Idle(vol) == vol < VolumeFloor \/ vol = 0
Behind(vol) == CatchUp > 0 /\ Share(market + vol) - algo.filled > CatchUp

PovTimer(t, vol, ok) ==
  /\ kind = "pov" /\ ~algo.done /\ ~degraded /\ t < End /\ At(t)
  /\ market' = market + vol
  /\ degraded' = (~Idle(vol) /\ Behind(vol))
  /\ held' = IF degraded' THEN HeldTimer(Book(Remaining(algo), t, ResidualSlices), t, ok)
             ELSE held
  /\ LET child == Min({Share(vol), Remaining(algo)})
     IN algo' = IF Idle(vol) \/ degraded' \/ child <= 0 \/ 0 \notin ok THEN algo
                ELSE WithChild(algo, sent + 1, child)
  /\ OrdersFrom(algo', held', {}, {})
  /\ UNCHANGED <<kind, incomplete, executed, foreign>>

-----------------------------------------------------------------------------
(* AlgoDispatcher: the events of the children, and those of other orders    *)
(* that carry the same tag.                                                 *)

OnFill(i, q, rem) ==
  /\ algo' = Filled(algo, i, q, rem)
  /\ held' = IF degraded /\ i \notin DOMAIN algo.children
               THEN Filled(held, i, q, rem) ELSE held

(* Mutant: the end of a child is not forwarded to the held TWAP. *)
OnEndOwn(i) == algo' = WithoutChild(algo, i) /\ held' = held

(* on_reject() and on_cancel() *)
OnEnd(i) ==
  /\ algo' = WithoutChild(algo, i)
  /\ held' = IF degraded /\ i \notin DOMAIN algo.children
               THEN WithoutChild(held, i) ELSE held

ChildFills(i, q) ==
  /\ q <= open[i].rem
  /\ LET rem == open[i].rem - q
     IN /\ open' = IF rem = 0 THEN [j \in DOMAIN open \ {i} |-> open[j]]
                   ELSE [open EXCEPT ![i].rem = rem]
        /\ OnFill(i, q, rem)
  /\ executed' = executed + q
  /\ UNCHANGED <<kind, now, degraded, market, incomplete, sent, foreign>>

(* A reject, a cancel-ack, an unsolicited cancel, or an IOC that expires. *)
ChildEnds(i) ==
  /\ open' = [j \in DOMAIN open \ {i} |-> open[j]]
  /\ OnEnd(i)
  /\ UNCHANGED <<kind, now, degraded, market, incomplete, sent, executed, foreign>>

(* The venue refuses the cancel; no event reaches the algorithm. *)
CancelRejected(i) ==
  /\ MayRefuse /\ open[i].cancel = "sent"
  /\ open' = [open EXCEPT ![i].cancel = "failed"]
  /\ UNCHANGED <<kind, now, algo, held, degraded, market, incomplete, sent,
                 executed, foreign>>

ForeignFill(q) ==
  /\ foreign + q <= MaxForeign /\ foreign' = foreign + q
  /\ IF WorkerIndex = Untagged THEN OnFill(0, q, 0) ELSE UNCHANGED <<algo, held>>
  /\ UNCHANGED <<kind, now, degraded, market, incomplete, sent, open, executed>>

(* cancel() from outside: the children are cancelled, the parent goes on. *)
Cancel ==
  /\ DOMAIN open # {}
  /\ LET all == DOMAIN algo.children \cup DOMAIN held.children
     IN \E refused \in Refusals(all) : OrdersFrom(algo, held, all, refused)
  /\ UNCHANGED <<kind, now, algo, held, degraded, market, incomplete, executed,
                 foreign>>

-----------------------------------------------------------------------------
Init ==
  /\ kind \in Kinds /\ now = -1
  /\ algo = Book(Qty, 0, Slices) /\ held = Book(0, 0, ResidualSlices)
  /\ degraded = FALSE /\ market = 0 /\ incomplete = FALSE
  /\ sent = 0 /\ open = NoOrders /\ executed = 0 /\ foreign = 0

TimerAt(t) == \E ok \in Accepted :
  \/ TwapOnTimer(t, ok)
  \/ t = End /\ PovDeadline(ok)
  \/ DegradedTimer(t, ok)
  \/ \E vol \in Volumes : PovTimer(t, vol, ok)

Next ==
  \/ \E t \in 0 .. End : TimerAt(t)
  \/ \E i \in DOMAIN open :
       \/ \E q \in 1 .. Qty : ChildFills(i, q)
       \/ ChildEnds(i)
       \/ CancelRejected(i)
  \/ \E q \in 1 .. MaxForeign : ForeignFill(q)
  \/ Cancel

Spec == Init /\ [][Next]_vars

Owed(i) == open[i].ioc \/ open[i].cancel = "sent"

(* The driver goes on calling the timer past the end, and the venue ends    *)
(* immediate-or-cancel orders and the orders whose cancel reached it.       *)
FairSpec ==
  /\ Spec
  /\ WF_vars(TimerAt(End))
  /\ WF_vars(\E i \in DOMAIN open : Owed(i) /\ ChildEnds(i))

-----------------------------------------------------------------------------
(* The algorithm's idea of its working children is the order manager's, so  *)
(* every event reaches the book that sent the child, and the quantity it    *)
(* counts as done is what its children, and no other orders, filled.        *)
BooksFollowOrders ==
  /\ DOMAIN algo.children \cap DOMAIN held.children = {}
  /\ Both(algo, held) = [i \in DOMAIN open |-> open[i].rem]
  /\ algo.filled = executed

(* A parent never has more done and working than it asked for: a TWAP, its  *)
(* deadline cross included, the TWAP a POV holds, and a POV until it        *)
(* crosses.                                                                 *)
WithinParent ==
  /\ held.filled + Inflight(held) <= held.qty
  /\ (kind = "twap" \/ degraded \/ ~algo.deadlineDone) =>
       algo.filled + Inflight(algo) + Inflight(held) <= Qty

(* A TWAP that is done has nothing working, and is either filled or         *)
(* reported incomplete; so is a POV that never degraded nor overshot.       *)
DoneIsReported ==
  algo.done /\ ~degraded => /\ incomplete <=> algo.filled < Qty
                            /\ kind = "twap" => DOMAIN open = {}

(* Past the deadline every child the algorithm still has has been cancelled *)
(* or is the crossing order, unless a POV left the deadline to its TWAP.    *)
AllCancelled ==
  \A i \in DOMAIN open : open[i].ioc \/ open[i].cancel # "none"
DeadlineCancels == algo.deadlineDone /\ ~degraded => AllCancelled

(* The timer that fires the last slice leaves nothing of the parent unsent  *)
(* if its submits succeed, whatever was filled, returned or refused before. *)
LastSliceSendsTheRest ==
  [][\A t \in 0 .. End :
       TwapOnTimer(t, EverySlice) /\ algo.slicesDone < Slices /\ algo'.slicesDone = Slices
         => algo'.filled + Inflight(algo') = Qty]_vars

(* Every parent ends, unless a child's cancel failed and the child works    *)
(* on, or the POV degraded.                                                 *)
ParentEnds ==
  []<>(algo.done \/ degraded \/ \E i \in DOMAIN open : open[i].cancel = "failed")
=============================================================================
