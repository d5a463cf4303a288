-------------------------- MODULE SimulatedExchange --------------------------
(****************************************************************************)
(* The simulated venue (sim/SimulatedExchange.cpp).  A placed order is      *)
(* answered by events scheduled on a logical clock; poll() advances the     *)
(* clock by one step and delivers everything due, in order of time and then *)
(* of scheduling.  Event times are kept relative to now_ ("in"), and the    *)
(* seeded coins (reject, unsolicited cancel, duplicate) are free choices.   *)
(* The delivery of an event changes the simulator's own book here; what the *)
(* sink does with it is conjoined by the composing module.                  *)
(****************************************************************************)
EXTENDS Integers, Sequences, SequencesExt

CONSTANTS Instruments,
          Step, AckLatency, FillLatency, FillGap,  \* SimConfig
          Chunks, ReorderFillBeforeAck,
          MayReject, MayCancel, MayDuplicate       \* which coins can come up

VARIABLES working,       \* working_: the venue's view of every order placed
          queue,         \* queue_, in scheduling order
          simPosition,   \* positions_
          tradeCounter, connected,
          polling        \* inside poll(): nothing else runs

simVars == <<working, queue, simPosition, tradeCounter, connected, polling>>

Event(in, type, id) ==
  [in |-> in, type |-> type, id |-> id, qty |-> 0, price |-> 0, trade |-> 0,
   final |-> FALSE]
FillEvent(in, id, qty, price, trade, final) ==
  [in |-> in, type |-> "Fill", id |-> id, qty |-> qty, price |-> price,
   trade |-> trade, final |-> final]

Schedule(events) == queue' = queue \o events

-----------------------------------------------------------------------------
(* Partial fills that sum exactly to the size; empty chunks are skipped.    *)
Base(size) == size \div Chunks
ChunkQty(size, i) == IF i = Chunks THEN size - Base(size) * (Chunks - 1)
                     ELSE Base(size)
ChunkAt(i) == IF ReorderFillBeforeAck /\ i = 1 THEN AckLatency - 1
              ELSE FillLatency + (i - 1) * FillGap
FirstChunk(size) == IF Base(size) > 0 THEN 1 ELSE Chunks

(* The fills of an order, each at its limit price (0 when the order names   *)
(* none, a market order's default); those in "dups" are delivered twice.    *)
Fills(id, size, price, dups) ==
  FlattenSeq([i \in 1 .. Chunks |->
    LET fill(at) == FillEvent(at, id, ChunkQty(size, i), price,
                              tradeCounter + 1 + i - FirstChunk(size), i = Chunks)
    IN IF i < FirstChunk(size) THEN <<>>
       ELSE IF i \in dups THEN <<fill(ChunkAt(i)), fill(ChunkAt(i) + 1)>>
       ELSE <<fill(ChunkAt(i))>>])

Listed(id, order) == [x \in DOMAIN working \cup {id} |->
                        IF x = id THEN order ELSE working[x]]

PlaceOrder(id, inst, side, size, price) ==
  /\ connected
  /\ working' = Listed(id, [inst |-> inst, side |-> side, size |-> size,
                            left |-> size, price |-> price, alive |-> TRUE,
                            seen |-> {}])
  /\ \/ /\ MayReject
        /\ Schedule(<<Event(AckLatency, "Reject", id)>>)
        /\ UNCHANGED tradeCounter
     \/ /\ MayCancel
        /\ Schedule(<<Event(AckLatency, "Confirm", id),
                      Event(AckLatency + FillLatency, "Unsolicited", id)>>)
        /\ UNCHANGED tradeCounter
     \/ \E dups \in SUBSET (IF MayDuplicate THEN 1 .. Chunks ELSE {}) :
          /\ Schedule(<<Event(AckLatency, "Confirm", id)>>
                        \o Fills(id, size, price, dups))
          /\ tradeCounter' = tradeCounter + 1 + Chunks - FirstChunk(size)
  /\ UNCHANGED <<simPosition, connected, polling>>

Alive(id) == id \in DOMAIN working /\ working[id].alive

CancelOrders(ids) ==  \* one cancel_order per id of a sequence
  /\ connected
  /\ Schedule([k \in DOMAIN ids |->
                 Event(AckLatency, IF Alive(ids[k]) THEN "CancelAck"
                                   ELSE "CancelReject", ids[k])])
  /\ UNCHANGED <<working, simPosition, tradeCounter, connected, polling>>

CancelOrder(id) == CancelOrders(<<id>>)

MassCancel(inst) ==
  CancelOrders(SetToSeq({id \in DOMAIN working :
                           Alive(id) /\ working[id].inst = inst}))

-----------------------------------------------------------------------------
(* poll() *)

BeginPoll ==
  /\ ~polling /\ polling' = TRUE
  /\ queue' = [k \in DOMAIN queue |-> [queue[k] EXCEPT !.in = @ - Step]]
  /\ UNCHANGED <<working, simPosition, tradeCounter, connected>>

DueIndexes == {k \in DOMAIN queue : queue[k].in <= 0}
NextDue == CHOOSE k \in DueIndexes :
             \A j \in DueIndexes : \/ queue[k].in < queue[j].in
                                   \/ queue[k].in = queue[j].in /\ k <= j

(* Mutant: a trade delivered twice is booked twice. *)
BookFillTwice(ev) ==
  LET w == working[ev.id]
  IN /\ working' = [working EXCEPT ![ev.id] =
           [w EXCEPT !.left = w.left - ev.qty,
                     !.alive = @ /\ ~ev.final /\ w.left > ev.qty]]
     /\ simPosition' = [simPosition EXCEPT ![w.inst] =
           IF w.side = "Buy" THEN @ + ev.qty ELSE @ - ev.qty]

(* The simulator books a trade the first time it delivers it, and only on   *)
(* an order that is still alive; it does not look at the price.             *)
BookFill(ev) ==
  LET w    == working[ev.id]
      dup  == ev.trade \in w.seen
      live == ~dup /\ w.alive
      left == IF live THEN w.left - ev.qty ELSE w.left
  IN /\ working' = [working EXCEPT ![ev.id] =
           [w EXCEPT !.seen = @ \cup {ev.trade}, !.left = left,
                     !.alive = @ /\ ~(live /\ (ev.final \/ left <= 0))]]
     /\ simPosition' = IF live
          THEN [simPosition EXCEPT ![w.inst] =
                  IF w.side = "Buy" THEN @ + ev.qty ELSE @ - ev.qty]
          ELSE simPosition

Deliver ==
  /\ polling /\ DueIndexes # {}
  /\ LET ev == queue[NextDue]
     IN IF ev.id \notin DOMAIN working THEN UNCHANGED <<working, simPosition>>
        ELSE \/ ev.type = "Fill" /\ BookFill(ev)
             \/ /\ ev.type \in {"Reject", "CancelAck", "Unsolicited"}
                /\ working' = [working EXCEPT ![ev.id].alive = FALSE]
                /\ UNCHANGED simPosition
             \/ /\ ev.type \in {"Confirm", "CancelReject"}
                /\ UNCHANGED <<working, simPosition>>
  /\ queue' = RemoveAt(queue, NextDue)
  /\ UNCHANGED <<tradeCounter, connected, polling>>

EndPoll ==
  /\ polling /\ DueIndexes = {} /\ polling' = FALSE
  /\ UNCHANGED <<working, queue, simPosition, tradeCounter, connected>>

(* Test controls: inject_*() schedules any event for the next poll;         *)
(* set_connected() cuts or restores the transport for sends.                *)
Inject(type, id) ==
  /\ Schedule(<<Event(1, type, id)>>)
  /\ UNCHANGED <<working, simPosition, tradeCounter, connected, polling>>

SetConnected(c) ==
  /\ connected # c /\ connected' = c
  /\ UNCHANGED <<working, queue, simPosition, tradeCounter, polling>>

SimInit ==
  /\ working = [id \in {} |-> 0]
  /\ queue = <<>> /\ tradeCounter = 0 /\ connected = TRUE /\ polling = FALSE
  /\ simPosition = [i \in Instruments |-> 0]
=============================================================================
