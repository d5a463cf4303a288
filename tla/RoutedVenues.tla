---------------------------- MODULE RoutedVenues ----------------------------
(****************************************************************************)
(* The health model closed with the router and the venues: an order goes    *)
(* where select() sends it, a venue only hears of orders sent to it, and    *)
(* health moves with the events those orders cause, with the connection and *)
(* with the timer.  This is the loop that decides whether a venue that was  *)
(* taken down is ever used again.                                           *)
(****************************************************************************)
EXTENDS VenueHealth

CONSTANTS VenueCount,    \* venues 0 .. VenueCount - 1
          MaxOpen        \* bound: orders at a venue at one time

ASSUME RoutingAssumption == VenueCount \in Nat /\ MaxOpen \in Nat

VARIABLES health,      \* venues_ of the health model
          fresh,       \* open orders in status Sent that may still time out
          working,     \* other open orders: confirmed, partly filled, with a
                       \* cancel sent, or timed out
          excused,     \* filled orders whose cancel is still to be rejected
          clean        \* history: time since an evaluation last found the
                       \* venue not below every low threshold

orderVars == <<fresh, working, excused>>
vars == <<health, orderVars, clean>>

VenueSet == 0 .. VenueCount - 1

(* A handler of venue v leaves the record "next". *)
Moves(v, next) ==
  /\ health' = [health EXCEPT ![v] = next]
  /\ clean'  = [clean EXCEPT ![v] = IF AllLow(next) THEN @ ELSE 0]

Add(count, v, n) == [count EXCEPT ![v] = @ + n]

(* An order of the venue stays open, but can no longer time out. *)
Settles(v) ==
  \/ fresh[v] > 0 /\ fresh' = Add(fresh, v, -1) /\ working' = Add(working, v, 1)
  \/ working[v] > 0 /\ UNCHANGED <<fresh, working>>

(* An order of the venue ends. *)
Ends(v) ==
  \/ fresh[v] > 0 /\ fresh' = Add(fresh, v, -1) /\ UNCHANGED working
  \/ working[v] > 0 /\ working' = Add(working, v, -1) /\ UNCHANGED fresh

-----------------------------------------------------------------------------
(* submit() sends to the venue the router picks; it sends nothing when every *)
(* venue is down.                                                           *)
SubmitTo(v) ==
  /\ v = Select(health, VenueCount) /\ health[v].connected
  /\ fresh[v] + working[v] < MaxOpen
  /\ fresh' = Add(fresh, v, 1) /\ UNCHANGED <<working, excused>>
  /\ Moves(v, Sent(health[v]))

(* place_order() failed in the client: the model hears of the send and of a *)
(* rejection in the same call.                                              *)
SubmitRefused(v) ==
  /\ v = Select(health, VenueCount) /\ UNCHANGED orderVars
  /\ Moves(v, Refused(Sent(health[v]), FALSE))

(* on_confirm() hears of every ack of an open order, a late or repeated one *)
(* too.                                                                     *)
Confirm(v, latency) ==
  /\ Settles(v) /\ UNCHANGED excused
  /\ Moves(v, Acked(health[v], latency))

Reject(v) ==
  /\ Ends(v) /\ UNCHANGED excused
  /\ Moves(v, Refused(health[v], FALSE))

(* A cancel is sent, which tells the model nothing. *)
CancelSent(v) ==
  /\ fresh[v] > 0 /\ fresh' = Add(fresh, v, -1) /\ working' = Add(working, v, 1)
  /\ UNCHANGED <<health, excused, clean>>

(* A cancel is rejected: of an open order, or benign, of one that filled.   *)
CancelReject(v, benign) ==
  /\ IF benign THEN /\ excused[v] > 0 /\ excused' = Add(excused, v, -1)
                    /\ UNCHANGED <<fresh, working>>
               ELSE Settles(v) /\ UNCHANGED excused
  /\ Moves(v, Refused(health[v], benign))

(* A fill, before the ack or after it; the last one may leave a cancel in   *)
(* flight.                                                                  *)
Fill(v) ==
  /\ \/ Settles(v) /\ UNCHANGED excused
     \/ Ends(v) /\ UNCHANGED excused
     \/ /\ working[v] > 0 /\ working' = Add(working, v, -1) /\ UNCHANGED fresh
        /\ excused[v] < MaxOpen /\ excused' = Add(excused, v, 1)
  /\ Moves(v, Filled(health[v]))

(* A cancel-ack or an unsolicited cancel: the model is told nothing. *)
Ended(v) ==
  /\ Ends(v) /\ UNCHANGED <<health, excused, clean>>

Timeout(v) ==
  /\ fresh[v] > 0
  /\ fresh' = Add(fresh, v, -1) /\ working' = Add(working, v, 1) /\ UNCHANGED excused
  /\ Moves(v, TimedOut(health[v]))

Disconnect(v) ==
  /\ health[v].connected /\ UNCHANGED orderVars
  /\ Moves(v, Disconnected(health[v]))

Reconnect(v) ==
  /\ ~health[v].connected /\ UNCHANGED orderVars
  /\ Moves(v, Reconnected(health[v]))

(* tick(): the timer evaluates every venue. *)
Tick ==
  /\ health' = [v \in VenueSet |-> Evaluate(health[v])]
  /\ clean'  = [v \in VenueSet |-> IF AllLow(health[v]) THEN clean[v] ELSE 0]
  /\ UNCHANGED orderVars

Elapse ==
  /\ health' = [v \in VenueSet |-> Aged(health[v])]
  /\ clean'  = [v \in VenueSet |-> Grow(clean[v], DownDwell)]
  /\ UNCHANGED orderVars

-----------------------------------------------------------------------------
Zero == [v \in VenueSet |-> 0]

Init ==
  /\ health = [v \in VenueSet |-> NewVenue]
  /\ fresh = Zero /\ working = Zero /\ excused = Zero
  /\ clean = Zero

Answer(v) == Reject(v) \/ \E latency \in Latencies : Confirm(v, latency)

Next ==
  \/ \E v \in VenueSet :
       \/ SubmitTo(v) \/ SubmitRefused(v) \/ Answer(v) \/ Fill(v) \/ Ended(v) \/ Timeout(v)
       \/ CancelSent(v) \/ \E benign \in BOOLEAN : CancelReject(v, benign)
       \/ Disconnect(v) \/ Reconnect(v)
  \/ Tick \/ Elapse

Spec == Init /\ [][Next]_vars

(* The timer runs, time passes, strategies keep submitting, venues answer   *)
(* and their orders end.                                                    *)
FairSpec ==
  /\ Spec /\ WF_vars(Tick) /\ WF_vars(Elapse)
  /\ \A v \in VenueSet : /\ WF_vars(SubmitTo(v)) /\ WF_vars(Answer(v))
                         /\ WF_vars(Fill(v)) /\ WF_vars(Ended(v))

-----------------------------------------------------------------------------
(* Type correctness of the health records and the order counts. *)
HealthTypeOK ==
  /\ health \in [VenueSet -> VenueStates]
  /\ \A v \in VenueSet : /\ Len(health[v].rejects) <= RejectWindow
                         /\ Len(health[v].latencies) <= LatencyWindow
                         /\ fresh[v] + working[v] <= MaxOpen /\ excused[v] <= MaxOpen

(* A venue counts as one unresolved incident from its trip until it is      *)
(* Healthy again, whatever way it takes through the breaker (evaluate()).   *)
UnresolvedIsOneIncident ==
  \A v \in VenueSet :
    health[v].unresolved = IF health[v].state = "Healthy" THEN 0 ELSE 1

(* A venue is probed only after a whole dwell in which no evaluation found  *)
(* it anything but good: good_since restarts on every relapse, and on every *)
(* way into Down.                                                           *)
FullDwellBeforeProbing ==
  [][\A v \in VenueSet :
       health[v].state = "Down" /\ health'[v].state = "Probing"
         => clean[v] >= DownDwell]_vars

(* An order goes to a venue that is not Down and than which no other has    *)
(* more weight, the lowest id among equals (Router.cpp).                    *)
RoutedToHealthiest ==
  [][\A v \in VenueSet : fresh'[v] > fresh[v] =>
       /\ health[v].state # "Down"
       /\ \A w \in VenueSet : health[w].state # "Down" =>
            \/ Weight(health[w]) < Weight(health[v])
            \/ Weight(health[w]) = Weight(health[v]) /\ v <= w]_vars

(* A venue that stays bad leaves routing for good ("the venue is demoted"). *)
BadVenueGoesDown ==
  \A v \in VenueSet :
    <>[]AnyHigh(health[v]) => <>[](health[v].state = "Down")

(* "Healthy -> Degraded -> Down -> (dwell) -> Probing -> Healthy": a venue  *)
(* that is down but connected gets its probes.                              *)
DownVenueIsProbed ==
  \A v \in VenueSet :
    health[v].state = "Down" /\ health[v].connected
      ~> health[v].state = "Probing" \/ ~health[v].connected
=============================================================================
