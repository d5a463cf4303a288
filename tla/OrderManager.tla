---------------------------- MODULE OrderManager ----------------------------
(****************************************************************************)
(* The OrderManager (src/OrderManager.cpp): order pool, live index, retired *)
(* FIFO, dedup sets, positions and pending quantity, and the policy flags.  *)
(* The program runs one event loop: every public call is one atomic action, *)
(* and calls interleave in any order.  The surroundings are left open here: *)
(* the router's choice, the venue's answer to a send and every inbound      *)
(* event about any order a venue was ever given are arbitrary.              *)
(*                                                                          *)
(* "calls" is the set of outgoing calls of the last step: requests to the   *)
(* venue, reports to the health model, events to subscribers.  Composing    *)
(* modules let their component react to it.  Of the prices only the one a   *)
(* fill reports counts, for the check it must pass; an order's limit, the   *)
(* timestamps, exchange ids and diagnostic counters steer nothing here.     *)
(****************************************************************************)
EXTENDS OrderPool, FiniteSetsExt

CONSTANTS Venues,                \* venue numbers
          Instruments,
          Requests,              \* order requests of the strategies
          Quantities,            \* quantities a venue reports in a fill
          Prices,                \* prices a venue reports in a fill
          Trades,                \* trade ids
          Grace,                 \* retired_grace_
          SeqMod,                \* 2^16: sequence field of an id
          UnknownFillThreshold,  \* unknown_fill_hardstop_threshold_
          MaxReuse,              \* bound: times a slot is recycled
          MaxOrders              \* bound: orders per venue

ASSUME ManagerAssumption ==
  /\ Venues \subseteq Nat /\ Instruments # {}
  /\ Requests \subseteq [inst : Instruments, side : {"Buy", "Sell"},
                           size : Nat \ {0}, price : Int]
  /\ Quantities \subseteq Int /\ Prices \subseteq Int
  /\ Grace \in Nat /\ SeqMod \in Nat \ {0}
  /\ UnknownFillThreshold \in Nat /\ MaxReuse \in Nat /\ MaxOrders \in Nat

VARIABLES pool,          \* pool_ (bookkeeping)
          orders,        \* pool_ (the Order in each slot)
          live,          \* live_
          retired,       \* retired_fifo_
          expectedFalse, \* expected_false_cancel_rejects_
          trades,        \* trade_ids_, as pairs <<id, trade>>
          position,      \* positions_[i].net
          pending,       \* pending_signed_
          venueSeq,      \* venue_seq_
          killed, incomplete, reconcile, unknownFills,
          issued,        \* ids accepted by a venue: what the outside can quote
          calls          \* outgoing calls of the last step

books == <<position, pending>>
flags == <<killed, incomplete, reconcile, unknownFills>>
index == <<pool, live, retired, expectedFalse, trades>>
ids   == <<venueSeq, issued>>
vars  == <<index, orders, books, flags, ids, calls>>

-----------------------------------------------------------------------------
(* Order.h, OrderId.h, Types.h *)

Terminal == {"Filled", "Cancelled", "Rejected"}
Statuses == {"New", "Sent", "Confirmed", "PartiallyFilled", "SentCancel"}
              \cup Terminal
Sides == {"Buy", "Sell"}

Signed(side, qty) == IF side = "Buy" THEN qty ELSE -qty

Ids == [venue : Venues \cup {0}, gen : Generations, slot : Slots, seq : 0 .. SeqMod - 1]
NoId == [venue |-> 0, gen |-> 0, slot |-> 0, seq |-> 0]  \* raw value 0

OrderType == [id : Ids, inst : Instruments, side : Sides, size : Nat,
              filled : Nat, status : Statuses, pendingCancel : BOOLEAN,
              ackTimedOut : BOOLEAN]

BlankOrder == [id |-> NoId, inst |-> CHOOSE i \in Instruments : TRUE,
               side |-> "Buy", size |-> 0, filled |-> 0, status |-> "New",
               pendingCancel |-> FALSE, ackTimedOut |-> FALSE]

Remaining(o) == o.size - o.filled
OrderOf(id) == orders[id.slot]
IsTerminal(o) == o.status \in Terminal

ToVenue(op, id)  == [to |-> "venue", op |-> op, id |-> id]
ToHealth(op, id) == [to |-> "health", op |-> op, venue |-> id.venue, id |-> id]
AboutVenue(op, v) == [to |-> "health", op |-> op, venue |-> v]
Publish(kind, id) == [to |-> "listeners", op |-> kind, id |-> id]

-----------------------------------------------------------------------------
(* validate(): unknown (stale generation), terminal, then for a fill the    *)
(* trade's novelty, its quantity and its price.                             *)

Known(id) == IsCurrent(pool, id)
(* Mutant: a retired order still takes events. *)
OpenWhileKnown(id) == Known(id)

Open(id)  == Known(id) /\ ~IsTerminal(OrderOf(id))
(* Mutants: the checks of validate(), one left out at a time; fills taken   *)
(* only after the ack; fills refused once a cancel is in flight.            *)
FillUnbounded(id, qty, price, trade) ==
  Open(id) /\ <<id, trade>> \notin trades /\ qty > 0 /\ price > 0
FillUndeduplicated(id, qty, price, trade) ==
  Open(id) /\ qty > 0 /\ price > 0 /\ qty <= Remaining(OrderOf(id))
FillUnpriced(id, qty, price, trade) ==
  /\ Open(id) /\ <<id, trade>> \notin trades
  /\ qty > 0 /\ qty <= Remaining(OrderOf(id))
FillAfterAckOnly(id, qty, price, trade) ==
  FillUndeduplicated(id, qty, price, trade) /\ OrderOf(id).status # "Sent"
FillUnlessCancelling(id, qty, price, trade) ==
  /\ FillUndeduplicated(id, qty, price, trade)
  /\ <<id, trade>> \notin trades /\ ~OrderOf(id).pendingCancel

FillOk(id, qty, price, trade) ==
  /\ Open(id)
  /\ <<id, trade>> \notin trades
  /\ qty > 0 /\ price > 0 /\ qty <= Remaining(OrderOf(id))

(* An event that fails validation is logged, counted and dropped. *)
Drop == calls' = {} /\ UNCHANGED <<index, orders, books, flags, ids>>

Update(id, order) == orders' = [orders EXCEPT ![id.slot] = order]

(* Mutants of retire(): the slot is leaked; the expected cancel-reject is   *)
(* remembered for ever; one order too many is kept.                         *)
RetireLeaking(id, from, expecting) ==
  LET queue == Append(retired, id)
  IN /\ live' = live \ {id} /\ trades' = {t \in trades : t[1] # id}
     /\ retired' = IF Len(queue) > Grace THEN Tail(queue) ELSE queue
     /\ pool' = from /\ expectedFalse' = expecting
RetireExpecting(id, from, expecting) ==
  LET queue == Append(retired, id)
  IN /\ live' = live \ {id} /\ trades' = {t \in trades : t[1] # id}
     /\ retired' = IF Len(queue) > Grace THEN Tail(queue) ELSE queue
     /\ pool' = IF Len(queue) > Grace THEN Release(from, Head(queue).slot) ELSE from
     /\ expectedFalse' = expecting
RetireLate(id, from, expecting) ==
  LET queue == Append(retired, id)
      full  == Len(queue) > Grace + 1
  IN /\ live' = live \ {id} /\ trades' = {t \in trades : t[1] # id}
     /\ retired' = IF full THEN Tail(queue) ELSE queue
     /\ pool' = IF full THEN Release(from, Head(queue).slot) ELSE from
     /\ expectedFalse' = IF full THEN expecting \ {Head(queue)} ELSE expecting

(* retire(): the order leaves the live index; its slot is released, and its *)
(* expected cancel-reject forgotten, once Grace younger orders retired.     *)
(* "from" and "expecting" are the pool and the set as the caller left them. *)
Retire(id, from, expecting) ==
  LET queue   == Append(retired, id)
      old     == Head(queue)
      expires == Len(queue) > Grace
  IN /\ live' = live \ {id}
     /\ trades' = {t \in trades : t[1] # id}
     /\ retired' = IF expires THEN Tail(queue) ELSE queue
     /\ pool' = IF expires /\ IsCurrent(from, old)
                THEN Release(from, old.slot) ELSE from
     /\ expectedFalse' = IF expires THEN expecting \ {old} ELSE expecting

(* The cancels that leave when the transport of the venues in "up" takes them. *)
MarkCancelled(S) ==
  orders' = [s \in Slots |-> IF \E id \in S : id.slot = s
                             THEN [orders[s] EXCEPT !.pendingCancel = TRUE,
                                                    !.status = "SentCancel"]
                             ELSE orders[s]]

-----------------------------------------------------------------------------
(* submit(): the router chose venue v and the pool has a slot.  "accepted"  *)
(* is the SendResult of place_order; a local rejection unwinds everything.  *)

CanSubmit == ~killed /\ pool.inUse < Capacity

(* The two bounds of the model: a slot is recycled at most MaxReuse times   *)
(* and a venue is sent at most MaxOrders orders.                            *)
WithinBounds(v) == /\ pool.generation[NextSlot(pool)] <= MaxReuse
                   /\ venueSeq[v] < MaxOrders

(* Mutant: the sequence number overflows its field. *)
NewIdUnwrapped(v) == [venue |-> v, gen |-> pool.generation[NextSlot(pool)],
                      slot |-> NextSlot(pool), seq |-> venueSeq[v] + 1]

NewId(v) == [venue |-> v, gen |-> pool.generation[NextSlot(pool)],
             slot |-> NextSlot(pool), seq |-> (venueSeq[v] + 1) % SeqMod]

NewOrder(id, req, status) ==
  [id |-> id, inst |-> req.inst, side |-> req.side, size |-> req.size, filled |-> 0,
   status |-> status, pendingCancel |-> FALSE, ackTimedOut |-> FALSE]

SubmitAccepted(v, req) ==
  /\ CanSubmit /\ WithinBounds(v)
  /\ LET id == NewId(v)
     IN /\ Update(id, NewOrder(id, req, "Sent"))
        /\ live' = live \cup {id}
        /\ issued' = issued \cup {id}
        /\ calls' = {ToVenue("place", id), ToHealth("sent", id)}
  /\ pool' = Acquire(pool)
  /\ pending' = [pending EXCEPT ![req.inst] = @ + Signed(req.side, req.size)]
  /\ venueSeq' = [venueSeq EXCEPT ![v] = @ + 1]
  /\ UNCHANGED <<retired, expectedFalse, trades, position, flags>>

SubmitRejectedLocally(v, req) ==
  /\ CanSubmit /\ WithinBounds(v)
  /\ LET id == NewId(v)
     IN /\ Update(id, NewOrder(id, req, "Rejected"))
        /\ Retire(id, Acquire(pool), expectedFalse)
        /\ calls' = {ToVenue("refused", id), ToHealth("sent", id),
                     ToHealth("reject", id)}
  /\ venueSeq' = [venueSeq EXCEPT ![v] = @ + 1]
  /\ UNCHANGED <<books, flags, issued>>

(* Mode 10: every slot is allocated, to a live or a retired order. *)
SubmitExhausted ==
  /\ ~killed /\ pool.inUse >= Capacity
  /\ killed' = TRUE
  /\ calls' = {}
  /\ UNCHANGED <<index, orders, books, incomplete, reconcile, unknownFills, ids>>

(* The router returned no venue: cancel what the transport still lets out. *)
Working(up) ==
  {id \in live : Open(id) /\ ~OrderOf(id).pendingCancel /\ id.venue \in up}

SubmitAllDown(up) ==
  /\ ~killed
  /\ incomplete' = TRUE
  /\ MarkCancelled(Working(up))
  /\ calls' = {ToVenue("cancel", id) : id \in Working(up)}
  /\ UNCHANGED <<index, books, killed, reconcile, unknownFills, ids>>

(* cancel() of an open order whose send succeeded; every other outcome      *)
(* changes nothing.                                                         *)
Cancel(id) ==
  /\ Open(id)
  /\ Update(id, [OrderOf(id) EXCEPT !.pendingCancel = TRUE,
                                    !.status = "SentCancel"])
  /\ calls' = {ToVenue("cancel", id)}
  /\ UNCHANGED <<index, books, flags, ids>>

-----------------------------------------------------------------------------
(* Inbound events. *)

(* Mutant: a late ack overwrites whatever the order has become. *)
OnConfirmAlways(id) ==
  \/ /\ Open(id)
     /\ Update(id, [OrderOf(id) EXCEPT !.status = "Confirmed"])
     /\ calls' = {ToHealth("ack", id), Publish("Confirmed", id)}
     /\ UNCHANGED <<index, books, flags, ids>>
  \/ ~Open(id) /\ Drop

OnConfirm(id) ==
  \/ /\ Open(id)
     /\ Update(id, [OrderOf(id) EXCEPT !.status =
                      IF @ \in {"New", "Sent"} THEN "Confirmed" ELSE @])
     /\ calls' = {ToHealth("ack", id), Publish("Confirmed", id)}
     /\ UNCHANGED <<index, books, flags, ids>>
  \/ ~Open(id) /\ Drop

(* Mutant: the pending quantity keeps what has filled. *)
ApplyFillKeepsPending(id, qty, price, trade) ==
  LET o     == OrderOf(id)
      final == o.filled + qty = o.size
  IN /\ FillOk(id, qty, price, trade)
     /\ Update(id, [o EXCEPT !.filled = @ + qty,
                             !.status = IF final THEN "Filled" ELSE "PartiallyFilled"])
     /\ position' = [position EXCEPT ![o.inst] = @ + Signed(o.side, qty)]
     /\ IF final THEN Retire(id, pool, expectedFalse)
        ELSE trades' = trades \cup {<<id, trade>>}
             /\ UNCHANGED <<pool, live, retired, expectedFalse>>
     /\ calls' = {ToHealth("fill", id)}
     /\ UNCHANGED <<pending, flags, ids>>

(* Position first, then health and subscribers, then retirement: one call   *)
(* stack, hence one step.                                                   *)
ApplyFill(id, qty, price, trade) ==
  LET o     == OrderOf(id)
      final == o.filled + qty = o.size
  IN /\ FillOk(id, qty, price, trade)
     /\ Update(id, [o EXCEPT !.filled = @ + qty,
                             !.status = IF final THEN "Filled"
                                        ELSE "PartiallyFilled"])
     /\ position' = [position EXCEPT ![o.inst] = @ + Signed(o.side, qty)]
     /\ pending' = [pending EXCEPT ![o.inst] = @ - Signed(o.side, qty)]
     /\ IF final
        THEN Retire(id, pool, IF o.pendingCancel
                              THEN expectedFalse \cup {id} ELSE expectedFalse)
        ELSE /\ trades' = trades \cup {<<id, trade>>}
             /\ UNCHANGED <<pool, live, retired, expectedFalse>>
     /\ calls' = {ToHealth("fill", id),
                  Publish(IF final THEN "Fill" ELSE "PartialFill", id)}
     /\ UNCHANGED <<flags, ids>>

(* Mode 4.  The counter is only ever compared with the threshold, so it     *)
(* stops one above it.                                                      *)
UnknownFill(id) ==
  /\ ~Known(id)
  /\ LET count == unknownFills + 1
     IN /\ unknownFills' = IF count > UnknownFillThreshold
                           THEN UnknownFillThreshold + 1 ELSE count
        /\ killed' = (killed \/ count > UnknownFillThreshold)
  /\ reconcile' = TRUE
  /\ calls' = {}
  /\ UNCHANGED <<index, orders, books, incomplete, ids>>

OnFill(id, qty, price, trade) ==
  \/ ApplyFill(id, qty, price, trade)
  \/ UnknownFill(id)
  \/ Known(id) /\ ~FillOk(id, qty, price, trade) /\ Drop

(* Mutant: the health model hears of the reject before it is validated. *)
OnCancelRejectUnchecked(id) ==
  \/ /\ id \in expectedFalse
     /\ expectedFalse' = expectedFalse \ {id}
     /\ calls' = {ToHealth("benignReject", id)}
     /\ UNCHANGED <<pool, live, retired, trades, orders, books, flags, ids>>
  \/ /\ id \notin expectedFalse /\ Known(id)
     /\ calls' = {ToHealth("reject", id)}
     /\ UNCHANGED <<index, orders, books, flags, ids>>
  \/ ~Known(id) /\ Drop

(* on_reject(CancelRejected): benign when the order filled with its cancel  *)
(* in flight; otherwise the cancel did not apply and the order works on.    *)
OnCancelReject(id) ==
  \/ /\ id \in expectedFalse
     /\ expectedFalse' = expectedFalse \ {id}
     /\ calls' = {ToHealth("benignReject", id)}
     /\ UNCHANGED <<pool, live, retired, trades, orders, books, flags, ids>>
  \/ /\ id \notin expectedFalse /\ Open(id)
     /\ Update(id, [OrderOf(id) EXCEPT
                      !.pendingCancel = FALSE,
                      !.status = IF OrderOf(id).filled > 0
                                 THEN "PartiallyFilled" ELSE "Confirmed"])
     /\ calls' = {ToHealth("reject", id)}
     /\ UNCHANGED <<index, books, flags, ids>>
  \/ id \notin expectedFalse /\ ~Open(id) /\ Drop

(* Mutant: the whole order, not its rest, leaves the pending quantity. *)
FinishWhole(id, order) ==
  /\ Update(id, order)
  /\ pending' = [pending EXCEPT ![order.inst] = @ - Signed(order.side, order.size)]
  /\ Retire(id, pool, expectedFalse)
  /\ UNCHANGED <<position, flags, ids>>

(* What a place reject, a cancel-ack and an unsolicited cancel share: the   *)
(* order goes terminal and its unfilled rest leaves the pending quantity.   *)
Finish(id, order) ==
  /\ Update(id, order)
  /\ pending' = [pending EXCEPT ![order.inst] =
                   @ - Signed(order.side, Remaining(order))]
  /\ Retire(id, pool, expectedFalse)
  /\ UNCHANGED <<position, flags, ids>>

OnReject(id) ==
  \/ /\ Open(id)
     /\ Finish(id, [OrderOf(id) EXCEPT !.status = "Rejected"])
     /\ calls' = {ToHealth("reject", id), Publish("Rejected", id)}
  \/ ~Open(id) /\ Drop

FinishCancel(id, kind) ==
  \/ /\ Open(id)
     /\ Finish(id, [OrderOf(id) EXCEPT !.pendingCancel = FALSE,
                                       !.status = "Cancelled"])
     /\ calls' = {Publish(kind, id)}
  \/ ~Open(id) /\ Drop

OnCancelAck(id)         == FinishCancel(id, "Cancelled")
OnUnsolicitedCancel(id) == FinishCancel(id, "UnsolicitedCancel")

-----------------------------------------------------------------------------
(* Failure-mode hooks. *)

(* Mode 1: check_ack_timeouts() for the orders whose timer has run out.     *)
AwaitingAck ==
  {id \in live : /\ Known(id) /\ OrderOf(id).status = "Sent"
                 /\ ~OrderOf(id).ackTimedOut}

CheckAckTimeouts(overdue, up) ==
  LET cancelled == {id \in overdue : /\ id.venue \in up
                                     /\ ~OrderOf(id).pendingCancel}
  IN /\ overdue # {} /\ overdue \subseteq AwaitingAck
     /\ orders' = [s \in Slots |->
          IF \E id \in cancelled : id.slot = s
          THEN [orders[s] EXCEPT !.ackTimedOut = TRUE,
                                 !.pendingCancel = TRUE,
                                 !.status = "SentCancel"]
          ELSE IF \E id \in overdue : id.slot = s
          THEN [orders[s] EXCEPT !.ackTimedOut = TRUE]
          ELSE orders[s]]
     /\ calls' = {ToHealth("timeout", id) : id \in overdue}
                   \cup {ToVenue("cancel", id) : id \in cancelled}
     /\ UNCHANGED <<index, books, flags, ids>>

OnVenueDisconnect(v) ==
  /\ calls' = {AboutVenue("disconnect", v)}
  /\ UNCHANGED <<index, orders, books, flags, ids>>

(* Mode 7: nothing in flight is assumed dead; a reconcile is requested. *)
OnVenueReconnect(v) ==
  /\ calls' = {AboutVenue("reconnect", v)}
  /\ reconcile' = TRUE
  /\ UNCHANGED <<index, orders, books, killed, incomplete, unknownFills, ids>>

(* The caller drains the policy flags; the kill switch has no reset. *)
ResetRebalanceCycle ==
  /\ incomplete /\ incomplete' = FALSE /\ calls' = {}
  /\ UNCHANGED <<index, orders, books, killed, reconcile, unknownFills, ids>>

ClearReconcileRequest ==
  /\ reconcile /\ reconcile' = FALSE /\ calls' = {}
  /\ UNCHANGED <<index, orders, books, killed, incomplete, unknownFills, ids>>

-----------------------------------------------------------------------------
Init ==
  /\ pool = EmptyPool
  /\ orders = [s \in Slots |-> BlankOrder]
  /\ live = {} /\ retired = <<>> /\ expectedFalse = {} /\ trades = {}
  /\ position = [i \in Instruments |-> 0]
  /\ pending = [i \in Instruments |-> 0]
  /\ venueSeq = [v \in Venues |-> 0]
  /\ killed = FALSE /\ incomplete = FALSE /\ reconcile = FALSE
  /\ unknownFills = 0
  /\ issued = {} /\ calls = {}

Submit ==
  \/ \E v \in Venues, req \in Requests :
       SubmitAccepted(v, req) \/ SubmitRejectedLocally(v, req)
  \/ SubmitExhausted
  \/ \E up \in SUBSET Venues : SubmitAllDown(up)

Inbound(id) ==
  \/ OnConfirm(id)
  \/ \E qty \in Quantities, p \in Prices, t \in Trades : OnFill(id, qty, p, t)
  \/ OnCancelReject(id)
  \/ OnReject(id)
  \/ OnCancelAck(id)
  \/ OnUnsolicitedCancel(id)

(* What a venue's event calls. *)
Handle(ev) ==
  \/ ev.type = "Confirm" /\ OnConfirm(ev.id)
  \/ ev.type = "Fill" /\ OnFill(ev.id, ev.qty, ev.price, ev.trade)
  \/ ev.type = "Reject" /\ OnReject(ev.id)
  \/ ev.type = "CancelAck" /\ OnCancelAck(ev.id)
  \/ ev.type = "CancelReject" /\ OnCancelReject(ev.id)
  \/ ev.type = "Unsolicited" /\ OnUnsolicitedCancel(ev.id)

Next ==
  \/ Submit
  \/ \E id \in issued : Cancel(id) \/ Inbound(id)
  \/ \E overdue \in SUBSET live, up \in SUBSET Venues :
       CheckAckTimeouts(overdue, up)
  \/ \E v \in Venues : OnVenueDisconnect(v) \/ OnVenueReconnect(v)
  \/ ResetRebalanceCycle \/ ClearReconcileRequest

Spec == Init /\ [][Next]_vars

-----------------------------------------------------------------------------
(* Type correctness of the manager's state. *)
TypeOK ==
  /\ pool \in PoolType
  /\ orders \in [Slots -> OrderType]
  /\ live \subseteq Ids /\ expectedFalse \subseteq Ids /\ issued \subseteq Ids
  /\ retired \in Seq(Ids)
  /\ trades \subseteq Ids \X Trades
  /\ position \in [Instruments -> Int] /\ pending \in [Instruments -> Int]
  /\ venueSeq \in [Venues -> Nat]
  /\ killed \in BOOLEAN /\ incomplete \in BOOLEAN /\ reconcile \in BOOLEAN
  /\ unknownFills \in 0 .. UnknownFillThreshold + 1

RetiredIds == {retired[k] : k \in DOMAIN retired}
OwnsSlot(id) == Known(id) /\ OrderOf(id).id = id

(* The pool's free list and count agree with its allocations after every    *)
(* acquire and release that submit and retire make.                         *)
FreeListIsComplement == WellFormed(pool)

(* An allocated slot holds the order its id names, and is either in the     *)
(* live index (not terminal) or in the retired FIFO once (terminal): no     *)
(* order is lost by both, none is kept by both (submit, retire).            *)
SlotsAccountedFor ==
  /\ \A s \in pool.allocated :
       /\ orders[s].id.slot = s /\ IsCurrent(pool, orders[s].id)
       /\ IF IsTerminal(orders[s]) THEN orders[s].id \in RetiredIds
                                   ELSE orders[s].id \in live
  /\ \A id \in live : OwnsSlot(id) /\ ~IsTerminal(OrderOf(id))
  /\ \A id \in RetiredIds : OwnsSlot(id) /\ IsTerminal(OrderOf(id))
  /\ \A j, k \in DOMAIN retired : retired[j] = retired[k] => j = k
  /\ Len(retired) <= Grace

(* The incrementally kept pending quantity is the signed sum of what is     *)
(* left of the open orders, through partial fills, cancels, rejects, local  *)
(* unwinding and slot reuse ("signed sum of remaining()", OrderManager.h).  *)
PendingIsOpenRemainder ==
  \A i \in Instruments :
    pending[i] = SumFunctionOnSet(
                   [id \in live |-> Signed(OrderOf(id).side, Remaining(OrderOf(id)))],
                   {id \in live : OrderOf(id).inst = i})

(* A benign cancel-reject is expected only for an order still in the grace  *)
(* window that filled while its cancel was in flight (on_fill, retire).     *)
BenignRejectsAreRaces ==
  \A id \in expectedFalse :
    /\ id \in RetiredIds
    /\ OrderOf(id).status = "Filled" /\ OrderOf(id).pendingCancel

(* The cancel flag and the status agree: a late confirm never hides a       *)
(* cancel in flight, and no cancel is forgotten by a status.                *)
CancelFlagTracksStatus ==
  \A s \in pool.allocated :
    LET o == orders[s]
    IN /\ o.status = "SentCancel" => o.pendingCancel
       /\ o.pendingCancel => o.status \notin {"Sent", "Confirmed", "Cancelled"}

(* A fill is complete exactly when the order is Filled, and never exceeds   *)
(* the order (validate, on_fill).                                           *)
FillWithinOrder ==
  \A s \in pool.allocated :
    LET o == orders[s]
    IN /\ 0 <= o.filled /\ o.filled <= o.size
       /\ o.filled = o.size <=> o.status = "Filled"

(* Of all ids a venue was ever given, only the one that owns the slot       *)
(* passes is_current(): a late event of an earlier occupant of the slot is  *)
(* rejected rather than applied to the order there now (decision 2).        *)
StaleIdsNeverMatch == \A id \in issued : Known(id) => OrderOf(id).id = id

(* The pool cannot be exhausted while the open orders and the grace window  *)
(* together leave a slot: submit() trips the kill switch only past that.    *)
HeadroomKeepsTrading ==
  Cardinality(live) + Grace < Capacity => pool.inUse < Capacity

-----------------------------------------------------------------------------
(* Once terminal, an order's record never changes while it keeps its slot   *)
(* (decision 3: no event can mutate it).                                    *)
TerminalIsFinal ==
  [][\A s \in pool.allocated \cap pool'.allocated :
       IsTerminal(orders[s]) /\ orders'[s].id = orders[s].id
         => orders'[s] = orders[s]]_vars

(* position + pending, which the execution delta of a strategy is measured  *)
(* against, moves only when an order is opened or ends unfilled: a fill     *)
(* shifts quantity from one to the other.                                   *)
ExposureMovesWithIntent ==
  [][\A i \in Instruments :
       position'[i] + pending'[i] # position[i] + pending[i] =>
         \/ live' \ live # {}
         \/ \E id \in live \ live' : orders'[id.slot].status # "Filled"]_vars

Ledger == INSTANCE OrderLedger WITH
            Id <- Ids, Instrument <- Instruments, Trade <- Trades, Size <- {req.size : req \in Requests},
            open <- [id \in live |-> [inst |-> OrderOf(id).inst,
                                      side |-> OrderOf(id).side,
                                      left |-> Remaining(OrderOf(id))]],
            seen <- trades, used <- issued, position <- position

(* The manager keeps the ledger's promise: ids are never reused, each trade *)
(* is booked at most once and only while its order is open.                 *)
KeepsLedger == Ledger!Spec
=============================================================================
