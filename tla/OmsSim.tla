------------------------------- MODULE OmsSim -------------------------------
(****************************************************************************)
(* The order manager driving one simulated venue, as the tests, the driver  *)
(* and the benchmark run it: a strategy submits and cancels between polls,  *)
(* the driver polls the venue and checks ack timeouts, the transport goes   *)
(* down and comes back, and a test may inject further events about an order.*)
(****************************************************************************)
EXTENDS OrderManager

CONSTANTS Venue, Step, AckLatency, FillLatency, FillGap, Chunks,
          ReorderFillBeforeAck, MayReject, MayCancel, MayDuplicate,
          Injected,     \* kinds of events the test injects
          MaxQueue      \* bound: scheduled events

ASSUME SimAssumption ==
  /\ Step \in Nat \ {0} /\ Chunks \in Nat \ {0}
  /\ AckLatency \in Nat /\ FillLatency \in Nat /\ FillGap \in Nat
  /\ {ReorderFillBeforeAck, MayReject, MayCancel, MayDuplicate} \subseteq BOOLEAN

VARIABLES working, queue, simPosition, tradeCounter, connected, polling

Sim == INSTANCE SimulatedExchange

simVars == <<working, queue, simPosition, tradeCounter, connected, polling>>
driverVars == <<vars, simVars>>

DriverInit == Init /\ Sim!SimInit

(* Single thread: the strategy runs between two polls. *)
Idle == ~polling /\ Len(queue) < MaxQueue

SubmitConnected == \E req \in Requests :
  /\ Idle /\ connected
  /\ SubmitAccepted(Venue, req)
  /\ Sim!PlaceOrder(NewId(Venue), req.inst, req.side, req.size, req.price)

SubmitDisconnected == \E req \in Requests :
  /\ Idle /\ ~connected
  /\ SubmitRejectedLocally(Venue, req)
  /\ UNCHANGED simVars

SubmitWithoutSlot == Idle /\ SubmitExhausted /\ UNCHANGED simVars

(* Every venue of the router is down. *)
SubmitUnroutable ==
  LET up == IF connected THEN {Venue} ELSE {}
  IN /\ Idle
     /\ SubmitAllDown(up)
     /\ IF Working(up) = {} THEN UNCHANGED simVars
        ELSE Sim!CancelOrders(Sim!SetToSeq(Working(up)))

StrategyCancels == \E id \in issued :
  /\ Idle /\ connected
  /\ Cancel(id) /\ Sim!CancelOrder(id)

AckTimeouts == \E overdue \in SUBSET AwaitingAck :
  /\ Idle
  /\ CheckAckTimeouts(overdue, IF connected THEN {Venue} ELSE {})
  /\ IF connected THEN Sim!CancelOrders(Sim!SetToSeq(overdue))
     ELSE UNCHANGED simVars

DrainPolicyFlags ==
  Idle /\ (ResetRebalanceCycle \/ ClearReconcileRequest) /\ UNCHANGED simVars

MassCancel == \E i \in Instruments :
  /\ Idle /\ live # {} /\ Sim!MassCancel(i) /\ UNCHANGED vars

Disconnect ==
  ~polling /\ Sim!SetConnected(FALSE) /\ OnVenueDisconnect(Venue)
Reconnect ==
  ~polling /\ Sim!SetConnected(TRUE) /\ OnVenueReconnect(Venue)

Inject == \E type \in Injected, id \in issued :
  Idle /\ Sim!Inject(type, id) /\ UNCHANGED vars

Poll == (Sim!BeginPoll \/ Sim!EndPoll) /\ UNCHANGED vars

DeliverDue == Sim!Deliver /\ Handle(queue[Sim!NextDue])

DriverNext ==
  \/ SubmitConnected \/ SubmitDisconnected \/ SubmitWithoutSlot \/ SubmitUnroutable
  \/ StrategyCancels \/ AckTimeouts \/ MassCancel \/ DrainPolicyFlags
  \/ Disconnect \/ Reconnect \/ Inject
  \/ Poll \/ DeliverDue

DriverSpec == DriverInit /\ [][DriverNext]_driverVars

(* The driver keeps polling the venue. *)
FairSpec == DriverSpec /\ WF_driverVars(Poll) /\ WF_driverVars(DeliverDue)

-----------------------------------------------------------------------------
(* The simulator books every fill it delivers; the manager drops the fills  *)
(* of an order that names no limit price, which carry price 0 (validate()). *)
Priced(id) == working[id].price > 0
Dropped(w) == IF w.price > 0 THEN 0 ELSE Signed(w.side, w.size - w.left)
DroppedFills(book, i) ==
  SumFunctionOnSet([id \in DOMAIN book |-> Dropped(book[id])],
                   {id \in DOMAIN book : book[id].inst = i})

(* The simulator and the manager keep separate books from the same events,  *)
(* each with its own dedup and its own idea of which orders are alive: they *)
(* agree between any two deliveries (what reconciliation relies on) up to   *)
(* the executions of orders without a price, and differ by exactly those.   *)
NoDrift ==
  \A i \in Instruments : simPosition[i] - position[i] = DroppedFills(working, i)

(* What is alive at the venue is open for the manager.  An open order that  *)
(* names a price is alive there with the same quantity left, so a cancel    *)
(* never targets a dead order; one without a price is untouched by fills.   *)
SameOpenOrders ==
  /\ \A id \in DOMAIN working : working[id].alive => id \in live
  /\ \A id \in live :
       /\ id \in DOMAIN working
       /\ IF Priced(id)
          THEN working[id].alive /\ Remaining(OrderOf(id)) = working[id].left
          ELSE Remaining(OrderOf(id)) = working[id].size

(* While the driver polls, every order that names a price ends and its      *)
(* reservation with it, whatever is cancelled, timed out, injected or cut   *)
(* off meanwhile.                                                           *)
OpenWithSeq(n) == \E id \in live : id.seq = n /\ Priced(id)
OrdersEventuallyEnd ==
  \A n \in 1 .. MaxOrders : OpenWithSeq(n) ~> ~OpenWithSeq(n)
=============================================================================
