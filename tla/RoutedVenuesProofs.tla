------------------------- MODULE RoutedVenuesProofs -------------------------
(****************************************************************************)
(* The breaker of every venue, for every window, threshold and dwell and    *)
(* any number of venues: an incident is counted once until it is over, and  *)
(* a venue is probed only after a whole good dwell.  The router's scan      *)
(* finds the venue of most weight.                                          *)
(****************************************************************************)
EXTENDS RoutedVenues, SequenceTheorems, SumTheorems

(* A record whose windows are within their capacity. *)
GoodVenue(v) ==
  /\ v \in VenueStates
  /\ Len(v.rejects) <= RejectWindow /\ Len(v.latencies) <= LatencyWindow

OneIncident(v) == v.unresolved = IF v.state = "Healthy" THEN 0 ELSE 1

(* The dwell a Down venue has been credited with, against the time no       *)
(* evaluation found it anything but good.                                   *)
Dwelling(v, good) == v.state = "Down" => v.goodFor <= good

Counts == [VenueSet -> Nat]

IInv ==
  /\ health \in [VenueSet -> VenueStates]
  /\ fresh \in Counts /\ working \in Counts /\ excused \in Counts /\ clean \in Counts
  /\ \A v \in VenueSet :
       /\ GoodVenue(health[v]) /\ OneIncident(health[v])
       /\ Dwelling(health[v], clean[v])
       /\ fresh[v] + working[v] <= MaxOpen /\ excused[v] <= MaxOpen

-----------------------------------------------------------------------------
(* A push keeps a window within its capacity (RingBuffer.h). *)
LEMMA PushTyped ==
  ASSUME NEW S, NEW w \in Seq(S), NEW x \in S, NEW n \in Nat \ {0}, Len(w) <= n
  PROVE  Push(w, x, n) \in Seq(S) /\ Len(Push(w, x, n)) <= n
<1>1. CASE Len(w) < n
  <2>1. Append(w, x) \in Seq(S) /\ Len(Append(w, x)) = Len(w) + 1 BY AppendProperties
  <2> QED BY <1>1, <2>1, Len(w) \in Nat DEF Push
<1>2. CASE ~(Len(w) < n)
  <2>1. Len(w) = n /\ w # <<>> BY <1>2
  <2>2. Tail(w) \in Seq(S) /\ Len(Tail(w)) = Len(w) - 1 BY <2>1, HeadTailProperties
  <2>3. Append(Tail(w), x) \in Seq(S) /\ Len(Append(Tail(w), x)) = Len(Tail(w)) + 1
    BY <2>2, AppendProperties
  <2> QED BY <1>2, <2>1, <2>2, <2>3 DEF Push
<1> QED BY <1>1, <1>2

(* The records evaluate() and the handlers build from one of the right type. *)
LEMMA Changed ==
  ASSUME NEW v \in VenueStates, NEW s \in States, NEW b \in 0 .. DegradeDwell,
         NEW g \in Unset .. DownDwell, NEW p \in 0 .. ProbeRequired, NEW n \in Nat
  PROVE  /\ [v EXCEPT !.state = s, !.badFor = b, !.unresolved = n] \in VenueStates
         /\ [v EXCEPT !.state = s, !.unresolved = n] \in VenueStates
         /\ [v EXCEPT !.state = s, !.goodFor = g] \in VenueStates
         /\ [v EXCEPT !.state = s, !.probes = p] \in VenueStates
         /\ [v EXCEPT !.goodFor = g] \in VenueStates
<1>1. [v EXCEPT !.state = s, !.badFor = b, !.unresolved = n] \in VenueStates
  BY DEF VenueStates
<1>2. [v EXCEPT !.state = s, !.unresolved = n] \in VenueStates BY DEF VenueStates
<1>3. [v EXCEPT !.state = s, !.goodFor = g] \in VenueStates BY DEF VenueStates
<1>4. [v EXCEPT !.state = s, !.probes = p] \in VenueStates BY DEF VenueStates
<1>5. [v EXCEPT !.goodFor = g] \in VenueStates BY DEF VenueStates
<1> QED BY <1>1, <1>2, <1>3, <1>4, <1>5

(* evaluate() on a record whose incident is counted right: one transition   *)
(* keeps the count right, changes no input of assess(), and moves the dwell *)
(* only in Down.                                                            *)
LEMMA EvaluateStep ==
  ASSUME NEW v, GoodVenue(v), OneIncident(v)
  PROVE  LET w == Evaluate(v) IN
         /\ GoodVenue(w) /\ OneIncident(w) /\ (AllLow(w) <=> AllLow(v))
         /\ w.state = "Down" =>
              \/ w.goodFor <= 0
              \/ v.state = "Down" /\ AllLow(v) /\ w.goodFor = v.goodFor
         /\ v.state = "Down" => w.state = "Down" \/ v.goodFor >= DownDwell
<1> DEFINE w == Evaluate(v)
           Same  == /\ w.connected = v.connected /\ w.silence = v.silence
                    /\ w.rejects = v.rejects /\ w.latencies = v.latencies
           Dwell == w.state = "Down" =>
                      \/ w.goodFor <= 0
                      \/ v.state = "Down" /\ AllLow(v) /\ w.goodFor = v.goodFor
           Probe == v.state = "Down" => w.state = "Down" \/ v.goodFor >= DownDwell
           Good  == w \in VenueStates /\ Same /\ OneIncident(w) /\ Dwell /\ Probe
<1>1. /\ v \in VenueStates /\ DownDwell \in Nat /\ DegradeDwell \in Nat /\ ProbeRequired \in Nat
  BY HealthAssumption DEF GoodVenue, HealthAssumption
<1>2. /\ 0 \in Nat /\ 1 \in Nat /\ 0 \in 0 .. DegradeDwell /\ 0 \in 0 .. ProbeRequired
      /\ 0 \in Unset .. DownDwell /\ Unset \in Unset .. DownDwell /\ Unset <= 0
      /\ {"Healthy", "Degraded", "Down", "Probing"} = States
  BY <1>1 DEF Unset, States
<1>3. \/ w = v /\ (v.state = "Down" => AllLow(v))
      \/ v.state = "Healthy" /\ w = Trip(v)
      \/ v.state \in {"Degraded", "Probing"} /\ w = Restore(v)
      \/ v.state \in {"Degraded", "Probing"} /\ w = TakeDown(v)
      \/ v.state = "Down" /\ w = [v EXCEPT !.goodFor = Unset]
      \/ v.state = "Down" /\ w = [v EXCEPT !.goodFor = 0]
      \/ v.state = "Down" /\ v.goodFor >= DownDwell
         /\ w = [v EXCEPT !.state = "Probing", !.probes = 0]
  BY <1>1 DEF Evaluate, VenueStates, States
<1>4. ASSUME w = v, v.state = "Down" => AllLow(v) PROVE Good
  <2> HIDE DEF w
  <2> QED BY <1>1, <1>4 DEF OneIncident
<1>5. ASSUME v.state = "Healthy", w = Trip(v) PROVE Good
  <2>1. v.unresolved = 0 BY <1>5 DEF OneIncident
  <2>2. w = [v EXCEPT !.state = "Degraded", !.badFor = 0, !.unresolved = 1]
    BY <1>5, <2>1 DEF Trip
  <2> HIDE DEF w
  <2>3. w \in VenueStates BY <1>1, <1>2, <2>2, Changed
  <2>4. /\ Same /\ w.state = "Degraded" /\ w.unresolved = 1
    BY <1>1, <2>2 DEF VenueStates
  <2> QED BY <1>5, <2>3, <2>4 DEF OneIncident
<1>6. ASSUME v.state \in {"Degraded", "Probing"}, w = Restore(v) PROVE Good
  <2>1. v.unresolved = 1 BY <1>6 DEF OneIncident
  <2>2. w = [v EXCEPT !.state = "Healthy", !.unresolved = 0]
    BY <1>6, <2>1 DEF Restore
  <2> HIDE DEF w
  <2>3. w \in VenueStates BY <1>1, <1>2, <2>2, Changed
  <2>4. /\ Same /\ w.state = "Healthy" /\ w.unresolved = 0
    BY <1>1, <2>2 DEF VenueStates
  <2> QED BY <1>6, <2>3, <2>4 DEF OneIncident
<1>7. ASSUME v.state \in {"Degraded", "Probing"}, w = TakeDown(v) PROVE Good
  <2>1. v.unresolved = 1 BY <1>7 DEF OneIncident
  <2>2. w = [v EXCEPT !.state = "Down", !.goodFor = Unset] BY <1>7 DEF TakeDown
  <2> HIDE DEF w
  <2>3. w \in VenueStates BY <1>1, <1>2, <2>2, Changed
  <2>4. Same /\ w.state = "Down" /\ w.goodFor = Unset /\ w.unresolved = 1
    BY <1>1, <2>1, <2>2 DEF VenueStates
  <2> QED BY <1>2, <1>7, <2>3, <2>4 DEF OneIncident
<1>8. ASSUME NEW g \in {Unset, 0}, v.state = "Down", w = [v EXCEPT !.goodFor = g]
      PROVE  Good
  <2>1. v.unresolved = 1 BY <1>8 DEF OneIncident
  <2> HIDE DEF w
  <2>2. w \in VenueStates BY <1>1, <1>2, <1>8, Changed
  <2>3. Same /\ w.state = "Down" /\ w.goodFor = g /\ w.unresolved = 1
    BY <1>1, <1>8, <2>1 DEF VenueStates
  <2>4. g <= 0 BY <1>2
  <2> QED BY <1>8, <2>2, <2>3, <2>4 DEF OneIncident
<1>9. ASSUME v.state = "Down", v.goodFor >= DownDwell,
             w = [v EXCEPT !.state = "Probing", !.probes = 0]
      PROVE  Good
  <2>1. v.unresolved = 1 BY <1>9 DEF OneIncident
  <2> HIDE DEF w
  <2>2. w \in VenueStates BY <1>1, <1>2, <1>9, Changed
  <2>3. Same /\ w.state = "Probing" /\ w.unresolved = 1
    BY <1>1, <1>9, <2>1 DEF VenueStates
  <2> QED BY <1>9, <2>2, <2>3 DEF OneIncident
<1> HIDE DEF w
<1>10. Good BY <1>3, <1>4, <1>5, <1>6, <1>7, <1>8, <1>9
<1>11. AllLow(w) <=> AllLow(v)
  BY <1>10 DEF AllLow, ConnectionBad, RejectsLow, Enough, RejectCount, LatencyIsLow
<1> QED BY <1>10, <1>11 DEF GoodVenue, w

(* What a handler puts into a record before it evaluates it. *)
Input(v, u) ==
  /\ GoodVenue(u)
  /\ u.state = v.state /\ u.unresolved = v.unresolved /\ u.goodFor = v.goodFor

(* One field of such an input may change within its range. *)
LEMMA InputField ==
  ASSUME NEW v, NEW u, Input(v, u)
  PROVE  /\ \A b \in BOOLEAN : Input(v, [u EXCEPT !.connected = b])
         /\ Input(v, [u EXCEPT !.silence = 0])
         /\ \A r \in Seq({0, 1}) :
              Len(r) <= RejectWindow => Input(v, [u EXCEPT !.rejects = r])
         /\ \A r \in Seq({0, 1}), l \in Seq(Latencies), p \in 0 .. ProbeRequired :
              Len(r) <= RejectWindow /\ Len(l) <= LatencyWindow =>
                Input(v, [u EXCEPT !.latencies = l, !.rejects = r, !.probes = p])
<1>1. u \in VenueStates /\ Tolerance \in Nat
  BY HealthAssumption DEF Input, GoodVenue, HealthAssumption
<1>2. ASSUME NEW b \in BOOLEAN PROVE Input(v, [u EXCEPT !.connected = b])
  BY <1>1 DEF Input, GoodVenue, VenueStates
<1>3. Input(v, [u EXCEPT !.silence = 0])
  BY <1>1 DEF Input, GoodVenue, VenueStates
<1>4. ASSUME NEW r \in Seq({0, 1}), Len(r) <= RejectWindow
      PROVE  Input(v, [u EXCEPT !.rejects = r])
  <2>1. [u EXCEPT !.rejects = r] \in VenueStates BY <1>1 DEF VenueStates
  <2> QED BY <1>1, <1>4, <2>1 DEF Input, GoodVenue, VenueStates
<1>5. ASSUME NEW r \in Seq({0, 1}), NEW l \in Seq(Latencies), NEW p \in 0 .. ProbeRequired,
             Len(r) <= RejectWindow, Len(l) <= LatencyWindow
      PROVE  Input(v, [u EXCEPT !.latencies = l, !.rejects = r, !.probes = p])
  <2>1. [u EXCEPT !.latencies = l, !.rejects = r, !.probes = p] \in VenueStates
    BY <1>1 DEF VenueStates
  <2> QED BY <1>1, <1>5, <2>1 DEF Input, GoodVenue, VenueStates
<1> QED BY <1>2, <1>3, <1>4, <1>5

(* Every handler leaves the record of evaluate() on such an input.          *)
LEMMA Handlers ==
  ASSUME NEW v, GoodVenue(v)
  PROVE  /\ \E u : Input(v, u) /\ Sent(v) = Evaluate(u)
         /\ \A l \in Latencies : \E u : Input(v, u) /\ Acked(v, l) = Evaluate(u)
         /\ \A b \in BOOLEAN : \E u : Input(v, u) /\ Refused(v, b) = Evaluate(u)
         /\ \E u : Input(v, u) /\ TimedOut(v) = Evaluate(u)
         /\ \E u : Input(v, u) /\ Disconnected(v) = Evaluate(u)
         /\ \E u : Input(v, u) /\ Reconnected(v) = Evaluate(u)
<1>0. /\ RejectWindow \in Nat \ {0} /\ LatencyWindow \in Nat \ {0} /\ Tolerance \in Nat
      /\ ProbeRequired \in Nat
  BY HealthAssumption
<1>1. v \in VenueStates BY DEF GoodVenue
<1>2. Input(v, Heard(v)) BY <1>0, <1>1 DEF Input, GoodVenue, Heard, VenueStates
<1>3. ASSUME NEW x \in {0, 1}
      PROVE  Push(v.rejects, x, RejectWindow) \in Seq({0, 1})
             /\ Len(Push(v.rejects, x, RejectWindow)) <= RejectWindow
  BY <1>0, <1>1, PushTyped DEF GoodVenue, VenueStates
<1>4. ASSUME NEW l \in Latencies
      PROVE  Push(v.latencies, l, LatencyWindow) \in Seq(Latencies)
             /\ Len(Push(v.latencies, l, LatencyWindow)) <= LatencyWindow
  BY <1>0, <1>1, PushTyped DEF GoodVenue, VenueStates
<1>5. ASSUME NEW l \in Latencies
      PROVE  \E u : Input(v, u) /\ Acked(v, l) = Evaluate(u)
  <2> DEFINE p == IF v.state = "Probing" /\ l <= LatencyHigh /\ v.probes < ProbeRequired
                  THEN v.probes + 1 ELSE v.probes
             ls == Push(v.latencies, l, LatencyWindow)
             rs == Push(v.rejects, 0, RejectWindow)
             u  == [Heard(v) EXCEPT !.latencies = ls, !.rejects = rs, !.probes = p]
  <2>1. p \in 0 .. ProbeRequired BY <1>0, <1>1 DEF VenueStates
  <2>2. ls \in Seq(Latencies) /\ Len(ls) <= LatencyWindow BY <1>4
  <2>3. rs \in Seq({0, 1}) /\ Len(rs) <= RejectWindow BY <1>3
  <2>4. Acked(v, l) = Evaluate(u) BY <1>1 DEF Acked, Heard, VenueStates
  <2> HIDE DEF p, ls, rs
  <2>5. Input(v, u)
    BY <1>2, <2>1, <2>2, <2>3, InputField
  <2> QED BY <2>4, <2>5
<1>6. ASSUME NEW r \in Seq({0, 1}), Len(r) <= RejectWindow
      PROVE  Input(v, [v EXCEPT !.rejects = r]) /\ Input(v, [Heard(v) EXCEPT !.rejects = r])
  <2>1. Input(v, v) BY DEF Input
  <2>2. Input(v, [v EXCEPT !.rejects = r]) BY <1>6, <2>1, InputField
  <2>3. Input(v, [Heard(v) EXCEPT !.rejects = r])
    <3> DEFINE u == Heard(v)
    <3>1. Input(v, u) BY <1>2
    <3> HIDE DEF u
    <3>2. Input(v, [u EXCEPT !.rejects = r]) BY <1>6, <3>1, InputField
    <3> QED BY <3>2 DEF u
  <2> QED BY <2>2, <2>3
<1>7. ASSUME NEW b \in BOOLEAN PROVE \E u : Input(v, u) /\ Refused(v, b) = Evaluate(u)
  <2> DEFINE rs == Push(v.rejects, 1, RejectWindow)
  <2>1. Heard(v).rejects = v.rejects BY <1>1 DEF Heard, VenueStates
  <2>2. Refused(v, FALSE) = Evaluate([Heard(v) EXCEPT !.rejects = rs])
    BY <2>1 DEF Refused
  <2>3. rs \in Seq({0, 1}) /\ Len(rs) <= RejectWindow BY <1>3
  <2> HIDE DEF rs
  <2>4. CASE b = FALSE BY <1>6, <2>2, <2>3, <2>4
  <2>5. CASE b = TRUE
    <3>1. Refused(v, TRUE) = Evaluate(Heard(v)) BY DEF Refused
    <3> QED BY <1>2, <2>5, <3>1
  <2> QED BY <2>4, <2>5
<1>8. \E u : Input(v, u) /\ TimedOut(v) = Evaluate(u)
  BY <1>3, <1>6 DEF TimedOut
<1>9. Input(v, [v EXCEPT !.connected = FALSE])
  BY InputField DEF Input
<1>10. Input(v, [Heard(v) EXCEPT !.connected = TRUE])
  BY <1>2, InputField
<1> QED BY <1>2, <1>5, <1>7, <1>8, <1>9, <1>10 DEF Sent, Disconnected, Reconnected

-----------------------------------------------------------------------------
(* What one evaluation may do to a venue.                                   *)
Evaluated(v, w) ==
  /\ GoodVenue(w) /\ OneIncident(w)
  /\ w.state = "Down" =>
       \/ w.goodFor <= 0
       \/ v.state = "Down" /\ AllLow(w) /\ w.goodFor = v.goodFor
  /\ v.state = "Down" => w.state = "Down" \/ v.goodFor >= DownDwell \/ DownDwell = 0

(* evaluate() on such an input does no more than that. *)
LEMMA EvaluatedInput ==
  ASSUME NEW v, OneIncident(v), NEW u, Input(v, u)
  PROVE  Evaluated(v, Evaluate(u))
<1>1. GoodVenue(u) /\ OneIncident(u) BY DEF Input, OneIncident
<1> DEFINE w == Evaluate(u)
<1>2. /\ GoodVenue(w) /\ OneIncident(w) /\ (AllLow(w) <=> AllLow(u))
      /\ w.state = "Down" =>
           \/ w.goodFor <= 0
           \/ u.state = "Down" /\ AllLow(u) /\ w.goodFor = u.goodFor
      /\ u.state = "Down" => w.state = "Down" \/ u.goodFor >= DownDwell
  BY <1>1, EvaluateStep
<1> HIDE DEF w
<1>3. Evaluated(v, w) BY <1>2 DEF Input, Evaluated
<1> QED BY <1>3 DEF w

(* Every handler, and a timer evaluation, of a venue. *)
LEMMA HandlersEvaluate ==
  ASSUME NEW v, GoodVenue(v), OneIncident(v)
  PROVE  /\ Evaluated(v, Evaluate(v)) /\ Evaluated(v, Sent(v))
         /\ \A l \in Latencies : Evaluated(v, Acked(v, l))
         /\ \A b \in BOOLEAN : Evaluated(v, Refused(v, b))
         /\ Evaluated(v, Filled(v)) /\ Evaluated(v, TimedOut(v))
         /\ Evaluated(v, Disconnected(v)) /\ Evaluated(v, Reconnected(v))
<1>1. Input(v, v) BY DEF Input
<1>2. Evaluated(v, Evaluate(v)) BY <1>1, EvaluatedInput
<1>3. Evaluated(v, Sent(v)) BY Handlers, EvaluatedInput
<1>4. ASSUME NEW l \in Latencies PROVE Evaluated(v, Acked(v, l))
  <2>1. PICK u : Input(v, u) /\ Acked(v, l) = Evaluate(u) BY Handlers
  <2> QED BY <2>1, EvaluatedInput
<1>5. ASSUME NEW b \in BOOLEAN PROVE Evaluated(v, Refused(v, b))
  <2>1. PICK u : Input(v, u) /\ Refused(v, b) = Evaluate(u) BY Handlers
  <2> QED BY <2>1, EvaluatedInput
<1>6. Evaluated(v, TimedOut(v)) BY Handlers, EvaluatedInput
<1>7. Evaluated(v, Disconnected(v)) BY Handlers, EvaluatedInput
<1>8. Evaluated(v, Reconnected(v)) BY Handlers, EvaluatedInput
<1>9. Evaluated(v, Filled(v)) BY <1>3 DEF Filled, Sent
<1> QED BY <1>2, <1>3, <1>4, <1>5, <1>6, <1>7, <1>8, <1>9

(* A call that evaluates twice, as a refused submission does, is no other   *)
(* than one that evaluates once.                                            *)
LEMMA EvaluatedTwice ==
  ASSUME NEW v, GoodVenue(v), NEW u, NEW w, Evaluated(v, u), Evaluated(u, w)
  PROVE  Evaluated(v, w)
<1>1. v.goodFor \in Int /\ u.goodFor \in Int /\ w.goodFor \in Int /\ DownDwell \in Nat
  BY HealthAssumption DEF HealthAssumption, GoodVenue, Evaluated, VenueStates, Unset
<1>2. w.state = "Down" =>
        \/ w.goodFor <= 0
        \/ v.state = "Down" /\ AllLow(w) /\ w.goodFor = v.goodFor
  <2>1. CASE w.state = "Down" /\ ~(w.goodFor <= 0)
    <3>1. u.state = "Down" /\ AllLow(w) /\ w.goodFor = u.goodFor BY <2>1 DEF Evaluated
    <3>2. v.state = "Down" /\ u.goodFor = v.goodFor BY <2>1, <3>1 DEF Evaluated
    <3> QED BY <3>1, <3>2
  <2> QED BY <2>1
<1>3. ASSUME v.state = "Down", w.state # "Down"
      PROVE  v.goodFor >= DownDwell \/ DownDwell = 0
  <2>1. CASE u.state # "Down" BY <1>3, <2>1 DEF Evaluated
  <2>2. CASE u.state = "Down"
    <3>1. u.goodFor >= DownDwell \/ DownDwell = 0 BY <1>3, <2>2 DEF Evaluated
    <3>2. u.goodFor <= 0 \/ u.goodFor = v.goodFor BY <2>2 DEF Evaluated
    <3> QED BY <1>1, <3>1, <3>2
  <2> QED BY <2>1, <2>2
<1> QED BY <1>2, <1>3 DEF Evaluated

(* The invariant of one venue's record, and the step that leads to probing. *)
VenueInv(v, good) == GoodVenue(v) /\ OneIncident(v) /\ Dwelling(v, good)
ProbedAfterDwell(v) ==
  health[v].state = "Down" /\ health'[v].state = "Probing" => clean[v] >= DownDwell

(* What one evaluation leaves of the invariant, and of the clean time.      *)
LEMMA Judged ==
  ASSUME NEW v, NEW w, NEW good \in Nat, VenueInv(v, good), Evaluated(v, w)
  PROVE  /\ VenueInv(w, IF AllLow(w) THEN good ELSE 0)
         /\ v.state = "Down" /\ w.state = "Probing" => good >= DownDwell
<1>1. v.goodFor \in Int /\ w.goodFor \in Int /\ DownDwell \in Nat
  BY HealthAssumption
  DEF HealthAssumption, VenueInv, GoodVenue, Evaluated, VenueStates, Unset
<1> QED BY <1>1 DEF VenueInv, Dwelling, Evaluated

(* A handler of venue x leaves every venue in order. *)
LEMMA MovesStep ==
  ASSUME IInv, NEW x \in VenueSet, NEW next, Evaluated(health[x], next), Moves(x, next)
  PROVE  /\ health' \in [VenueSet -> VenueStates] /\ clean' \in Counts
         /\ \A v \in VenueSet : VenueInv(health'[v], clean'[v]) /\ ProbedAfterDwell(v)
<1>1. next \in VenueStates BY DEF Evaluated, GoodVenue
<1>2. health' \in [VenueSet -> VenueStates] /\ clean' \in Counts
  BY <1>1 DEF IInv, Moves, Counts
<1>3. ASSUME NEW v \in VenueSet PROVE VenueInv(health'[v], clean'[v]) /\ ProbedAfterDwell(v)
  <2>1. VenueInv(health[v], clean[v]) /\ clean[v] \in Nat BY DEF IInv, VenueInv, Counts
  <2>2. CASE v # x
    <3>1. health'[v] = health[v] /\ clean'[v] = clean[v] BY <2>2 DEF IInv, Moves, Counts
    <3> QED BY <2>1, <3>1 DEF ProbedAfterDwell
  <2>3. CASE v = x
    <3>1. health'[v] = next /\ clean'[v] = IF AllLow(next) THEN clean[v] ELSE 0
      BY <2>3 DEF IInv, Moves, Counts
    <3>2. /\ VenueInv(next, IF AllLow(next) THEN clean[v] ELSE 0)
          /\ health[v].state = "Down" /\ next.state = "Probing" => clean[v] >= DownDwell
      BY <2>1, <2>3, Judged
    <3> QED BY <3>1, <3>2 DEF ProbedAfterDwell
  <2> QED BY <2>2, <2>3
<1> QED BY <1>2, <1>3

(* Orders move between the counts of a venue; the room of none is exceeded. *)
LEMMA Counted ==
  ASSUME NEW count \in Counts, NEW x \in VenueSet, NEW n \in Int, count[x] + n >= 0
  PROVE  /\ Add(count, x, n) \in Counts
         /\ \A v \in VenueSet :
              Add(count, x, n)[v] = IF v = x THEN count[v] + n ELSE count[v]
<1>1. count[x] + n \in Nat BY DEF Counts
<1> QED BY <1>1 DEF Add, Counts

OrdersOK ==
  /\ fresh \in Counts /\ working \in Counts /\ excused \in Counts
  /\ \A v \in VenueSet : fresh[v] + working[v] <= MaxOpen /\ excused[v] <= MaxOpen

(* Orders of venue x enter and leave the counts; another venue's do not.    *)
LEMMA OrdersMove ==
  ASSUME OrdersOK, NEW x \in VenueSet, NEW f \in Int, NEW w \in Int, NEW e \in Int,
         fresh' = Add(fresh, x, f), working' = Add(working, x, w), excused' = Add(excused, x, e),
         fresh[x] + f >= 0, working[x] + w >= 0, excused[x] + e >= 0,
         f + w <= MaxOpen - fresh[x] - working[x], e <= MaxOpen - excused[x]
  PROVE  OrdersOK'
<1>1. fresh \in Counts /\ working \in Counts /\ excused \in Counts BY DEF OrdersOK
<1>2. /\ fresh' \in Counts /\ \A v \in VenueSet :
           fresh'[v] = IF v = x THEN fresh[v] + f ELSE fresh[v]
  BY <1>1, Counted
<1>3. /\ working' \in Counts /\ \A v \in VenueSet :
           working'[v] = IF v = x THEN working[v] + w ELSE working[v]
  BY <1>1, Counted
<1>4. /\ excused' \in Counts /\ \A v \in VenueSet :
           excused'[v] = IF v = x THEN excused[v] + e ELSE excused[v]
  BY <1>1, Counted
<1>5. ASSUME NEW v \in VenueSet
      PROVE  fresh'[v] + working'[v] <= MaxOpen /\ excused'[v] <= MaxOpen
  <2>1. fresh[v] \in Nat /\ working[v] \in Nat /\ excused[v] \in Nat /\ MaxOpen \in Nat
    BY <1>1, RoutingAssumption DEF Counts, RoutingAssumption
  <2>2. CASE v = x BY <1>2, <1>3, <1>4, <2>1, <2>2
  <2>3. CASE v # x BY <1>2, <1>3, <1>4, <2>3 DEF OrdersOK
  <2> QED BY <2>2, <2>3
<1> QED BY <1>2, <1>3, <1>4, <1>5 DEF OrdersOK

(* A count an action leaves alone. *)
LEMMA AddNothing ==
  ASSUME NEW count \in Counts, NEW x \in VenueSet PROVE Add(count, x, 0) = count
BY DEF Add, Counts

(* An order that stays open, or ends, with or without an excuse for a       *)
(* cancel-reject that comes or is used up.                                  *)
LEMMA OrdersStay ==
  ASSUME OrdersOK, NEW x \in VenueSet, NEW e \in {-1, 0, 1}, excused' = Add(excused, x, e),
         excused[x] + e \in 0 .. MaxOpen,
         \/ Settles(x) \/ Ends(x) \/ UNCHANGED <<fresh, working>>
         \/ working[x] > 0 /\ working' = Add(working, x, -1) /\ UNCHANGED fresh
  PROVE  OrdersOK'
<1>1. fresh[x] \in Nat /\ working[x] \in Nat /\ excused[x] \in Nat /\ MaxOpen \in Nat
      /\ fresh[x] + working[x] <= MaxOpen
  BY RoutingAssumption DEF OrdersOK, Counts, RoutingAssumption
<1>2. fresh = Add(fresh, x, 0) /\ working = Add(working, x, 0) BY AddNothing DEF OrdersOK
<1>3. e \in Int /\ e <= MaxOpen - excused[x] /\ excused[x] + e >= 0 BY <1>1
<1>4. CASE UNCHANGED <<fresh, working>>
  <2>1. fresh' = Add(fresh, x, 0) /\ working' = Add(working, x, 0) BY <1>2, <1>4
  <2> QED BY <1>1, <1>3, <2>1, OrdersMove
<1>5. CASE fresh[x] > 0 /\ fresh' = Add(fresh, x, -1) /\ UNCHANGED working
  <2>1. working' = Add(working, x, 0) BY <1>2, <1>5
  <2>2. fresh[x] + (-1) >= 0 /\ -1 \in Int /\ -1 + 0 <= MaxOpen - fresh[x] - working[x]
    BY <1>1, <1>5
  <2> QED BY <1>1, <1>3, <1>5, <2>1, <2>2, OrdersMove
<1>6. CASE working[x] > 0 /\ working' = Add(working, x, -1) /\ UNCHANGED fresh
  <2>1. fresh' = Add(fresh, x, 0) BY <1>2, <1>6
  <2>2. working[x] + (-1) >= 0 /\ -1 \in Int /\ 0 + (-1) <= MaxOpen - fresh[x] - working[x]
    BY <1>1, <1>6
  <2> QED BY <1>1, <1>3, <1>6, <2>1, <2>2, OrdersMove
<1>7. CASE fresh[x] > 0 /\ fresh' = Add(fresh, x, -1) /\ working' = Add(working, x, 1)
  <2>1. fresh[x] + (-1) >= 0 /\ -1 \in Int /\ -1 + 1 <= MaxOpen - fresh[x] - working[x]
        /\ working[x] + 1 >= 0
    BY <1>1, <1>7
  <2> QED BY <1>1, <1>3, <1>7, <2>1, OrdersMove
<1> QED BY <1>4, <1>5, <1>6, <1>7 DEF Settles, Ends

(* The health half of the invariant. *)
HealthOK ==
  /\ health \in [VenueSet -> VenueStates] /\ clean \in Counts
  /\ \A v \in VenueSet : VenueInv(health[v], clean[v])

(* The invariant, split by what an action disturbs. *)
LEMMA InvParts == IInv <=> HealthOK /\ OrdersOK
BY DEF IInv, HealthOK, OrdersOK, VenueInv

(* The health half is kept by every handler. *)
LEMMA MovesOK ==
  ASSUME IInv, NEW x \in VenueSet, NEW next, Evaluated(health[x], next), Moves(x, next)
  PROVE  HealthOK' /\ \A v \in VenueSet : ProbedAfterDwell(v)
BY MovesStep DEF HealthOK

(* One action: an order is sent, stays open or ends, and its venue's health *)
(* is evaluated or left alone.                                              *)
LEMMA VenueActions ==
  ASSUME IInv, NEW x \in VenueSet,
         \/ SubmitTo(x) \/ SubmitRefused(x) \/ Answer(x) \/ Fill(x) \/ Ended(x) \/ Timeout(x)
         \/ CancelSent(x) \/ \E benign \in BOOLEAN : CancelReject(x, benign)
         \/ Disconnect(x) \/ Reconnect(x)
  PROVE  IInv' /\ \A v \in VenueSet : ProbedAfterDwell(v)
<1> DEFINE Goal == IInv' /\ \A v \in VenueSet : ProbedAfterDwell(v)
<1> USE DEF VenueInv
<1>1. /\ GoodVenue(health[x]) /\ OneIncident(health[x]) /\ OrdersOK
      /\ health[x] \in VenueStates
  BY DEF IInv, OrdersOK
<1>2. /\ fresh[x] \in Nat /\ working[x] \in Nat /\ excused[x] \in Nat /\ MaxOpen \in Nat
      /\ excused[x] <= MaxOpen
  BY RoutingAssumption DEF IInv, Counts, RoutingAssumption
<1>3. IInv' <=> HealthOK' /\ OrdersOK'
  BY DEF IInv, HealthOK, OrdersOK
<1>4. /\ excused = Add(excused, x, 0) /\ working = Add(working, x, 0)
      /\ excused[x] + 0 \in 0 .. MaxOpen
  BY <1>1, <1>2, AddNothing DEF OrdersOK
<1>5. ASSUME UNCHANGED excused, Settles(x) \/ Ends(x) PROVE OrdersOK'
  BY <1>1, <1>4, <1>5, OrdersStay
<1>6. ASSUME UNCHANGED orderVars PROVE OrdersOK'
  BY <1>1, <1>6 DEF OrdersOK, orderVars
<1>7. ASSUME SubmitTo(x) PROVE Goal
  <2>1. HealthOK' /\ \A v \in VenueSet : ProbedAfterDwell(v)
    BY <1>1, <1>7, HandlersEvaluate, MovesOK DEF SubmitTo
  <2>2. OrdersOK'
    <3>1. fresh' = Add(fresh, x, 1) /\ working' = Add(working, x, 0) /\ excused' = Add(excused, x, 0)
          /\ fresh[x] + working[x] < MaxOpen
      BY <1>4, <1>7 DEF SubmitTo
    <3>2. 1 + 0 <= MaxOpen - fresh[x] - working[x] /\ 0 <= MaxOpen - excused[x]
          /\ fresh[x] + 1 >= 0 /\ working[x] + 0 >= 0 /\ excused[x] + 0 >= 0
      BY <1>2, <3>1
    <3> QED BY <1>1, <3>1, <3>2, OrdersMove
  <2> QED BY <1>3, <2>1, <2>2
<1>8. ASSUME SubmitRefused(x) PROVE Goal
  <2>1. Evaluated(health[x], Sent(health[x])) BY <1>1, HandlersEvaluate
  <2>2. GoodVenue(Sent(health[x])) /\ OneIncident(Sent(health[x])) BY <2>1 DEF Evaluated
  <2>3. Evaluated(Sent(health[x]), Refused(Sent(health[x]), FALSE))
    BY <2>2, HandlersEvaluate
  <2>4. Evaluated(health[x], Refused(Sent(health[x]), FALSE))
    BY <1>1, <2>1, <2>3, EvaluatedTwice
  <2>5. HealthOK' /\ \A v \in VenueSet : ProbedAfterDwell(v)
    BY <1>8, <2>4, MovesOK DEF SubmitRefused
  <2> QED BY <1>3, <1>6, <1>8, <2>5 DEF SubmitRefused
<1>9. ASSUME Answer(x) PROVE Goal
  <2>1. CASE Reject(x)
    <3>1. HealthOK' /\ \A v \in VenueSet : ProbedAfterDwell(v)
      BY <1>1, <2>1, HandlersEvaluate, MovesOK DEF Reject
    <3> QED BY <1>3, <1>5, <2>1, <3>1 DEF Reject
  <2>2. ASSUME NEW l \in Latencies, Confirm(x, l) PROVE Goal
    <3>1. HealthOK' /\ \A v \in VenueSet : ProbedAfterDwell(v)
      BY <1>1, <2>2, HandlersEvaluate, MovesOK DEF Confirm
    <3> QED BY <1>3, <1>5, <2>2, <3>1 DEF Confirm
  <2> QED BY <1>9, <2>1, <2>2 DEF Answer
<1>10. ASSUME Fill(x) PROVE Goal
  <2>1. HealthOK' /\ \A v \in VenueSet : ProbedAfterDwell(v)
    BY <1>1, <1>10, HandlersEvaluate, MovesOK DEF Fill
  <2>2. OrdersOK'
    <3>1. CASE (Settles(x) \/ Ends(x)) /\ UNCHANGED excused BY <1>5, <3>1
    <3>2. CASE /\ working[x] > 0 /\ working' = Add(working, x, -1) /\ UNCHANGED fresh
               /\ excused[x] < MaxOpen /\ excused' = Add(excused, x, 1)
      <4>1. excused[x] + 1 \in 0 .. MaxOpen BY <1>2, <3>2
      <4> QED BY <1>1, <3>2, <4>1, OrdersStay
    <3> QED BY <1>10, <3>1, <3>2 DEF Fill
  <2> QED BY <1>3, <2>1, <2>2
<1>11. ASSUME Ended(x) \/ CancelSent(x) PROVE Goal
  <2>1. HealthOK' BY <1>11 DEF IInv, HealthOK, Ended, CancelSent
  <2>2. ASSUME NEW v \in VenueSet PROVE ProbedAfterDwell(v)
    BY <1>11 DEF Ended, CancelSent, ProbedAfterDwell
  <2>3. UNCHANGED excused /\ (Settles(x) \/ Ends(x))
    BY <1>11 DEF Ended, CancelSent, Settles
  <2> QED BY <1>3, <1>5, <2>1, <2>2, <2>3
<1>12. ASSUME Timeout(x) PROVE Goal
  <2>1. HealthOK' /\ \A v \in VenueSet : ProbedAfterDwell(v)
    BY <1>1, <1>12, HandlersEvaluate, MovesOK DEF Timeout
  <2>2. UNCHANGED excused /\ Settles(x) BY <1>12 DEF Timeout, Settles
  <2> QED BY <1>3, <1>5, <2>1, <2>2
<1>13. ASSUME NEW b \in BOOLEAN, CancelReject(x, b) PROVE Goal
  <2>1. HealthOK' /\ \A v \in VenueSet : ProbedAfterDwell(v)
    BY <1>1, <1>13, HandlersEvaluate, MovesOK DEF CancelReject
  <2>2. OrdersOK'
    <3>1. CASE Settles(x) /\ UNCHANGED excused BY <1>5, <3>1
    <3>2. CASE /\ excused[x] > 0 /\ excused' = Add(excused, x, -1)
               /\ UNCHANGED <<fresh, working>>
      <4>1. excused[x] + (-1) \in 0 .. MaxOpen /\ -1 \in {-1, 0, 1} BY <1>2, <3>2
      <4> QED BY <1>1, <3>2, <4>1, OrdersStay
    <3> QED BY <1>13, <3>1, <3>2 DEF CancelReject
  <2> QED BY <1>3, <2>1, <2>2
<1>14. ASSUME Disconnect(x) PROVE Goal
  <2>1. HealthOK' /\ \A v \in VenueSet : ProbedAfterDwell(v)
    BY <1>1, <1>14, HandlersEvaluate, MovesOK DEF Disconnect
  <2> QED BY <1>3, <1>6, <1>14, <2>1 DEF Disconnect
<1>15. ASSUME Reconnect(x) PROVE Goal
  <2>1. HealthOK' /\ \A v \in VenueSet : ProbedAfterDwell(v)
    BY <1>1, <1>15, HandlersEvaluate, MovesOK DEF Reconnect
  <2> QED BY <1>3, <1>6, <1>15, <2>1 DEF Reconnect
<1> QED BY <1>7, <1>8, <1>9, <1>10, <1>11, <1>12, <1>13, <1>14, <1>15

(* The timer evaluates every venue. *)
LEMMA TickStep ==
  ASSUME IInv, Tick PROVE IInv' /\ \A v \in VenueSet : ProbedAfterDwell(v)
<1>1. ASSUME NEW v \in VenueSet
      PROVE  /\ health'[v] \in VenueStates /\ clean'[v] \in Nat
             /\ VenueInv(health'[v], clean'[v]) /\ ProbedAfterDwell(v)
  <2> DEFINE w == Evaluate(health[v])
  <2>1. VenueInv(health[v], clean[v]) /\ clean[v] \in Nat BY DEF IInv, VenueInv, Counts
  <2>2. Evaluated(health[v], w) /\ (AllLow(w) <=> AllLow(health[v]))
    BY <2>1, HandlersEvaluate, EvaluateStep DEF VenueInv
  <2>3. health'[v] = w /\ clean'[v] = IF AllLow(health[v]) THEN clean[v] ELSE 0
    BY DEF Tick
  <2> HIDE DEF w
  <2>4. /\ VenueInv(w, IF AllLow(w) THEN clean[v] ELSE 0)
        /\ health[v].state = "Down" /\ w.state = "Probing" => clean[v] >= DownDwell
    BY <2>1, <2>2, Judged
  <2>5. w \in VenueStates BY <2>2 DEF Evaluated, GoodVenue
  <2> QED BY <2>1, <2>2, <2>3, <2>4, <2>5 DEF ProbedAfterDwell
<1>2. health' \in [VenueSet -> VenueStates] /\ clean' \in Counts
  BY <1>1 DEF Tick, Counts
<1>3. OrdersOK' BY InvParts DEF Tick, orderVars, OrdersOK
<1> QED BY <1>1, <1>2, <1>3 DEF IInv, OrdersOK, VenueInv

(* Time passes at every venue: a dwell and the clean time grow together.    *)
LEMMA AgedVenue ==
  ASSUME NEW v, NEW good \in Nat, VenueInv(v, good)
  PROVE  VenueInv(Aged(v), Grow(good, DownDwell)) /\ Aged(v).state = v.state
<1>1. /\ v \in VenueStates /\ Tolerance \in Nat /\ DegradeDwell \in Nat /\ DownDwell \in Nat
  BY HealthAssumption DEF VenueInv, GoodVenue, HealthAssumption
<1> DEFINE s == Grow(v.silence, Tolerance + 1)
           b == IF v.state = "Degraded" THEN Grow(v.badFor, DegradeDwell) ELSE v.badFor
           g == IF v.goodFor = Unset \/ v.state # "Down" THEN v.goodFor
                ELSE Grow(v.goodFor, DownDwell)
           w == [v EXCEPT !.silence = s, !.badFor = b, !.goodFor = g]
<1>2. Aged(v) = w BY <1>1 DEF Aged
<1>3. s \in 0 .. Tolerance + 1 BY <1>1 DEF VenueStates, Grow
<1>4. b \in 0 .. DegradeDwell BY <1>1 DEF VenueStates, Grow
<1>5. v.goodFor \in Unset .. DownDwell BY <1>1 DEF VenueStates
<1>6. g \in Unset .. DownDwell BY <1>1, <1>5 DEF Grow, Unset
<1>7. v.state = "Down" => g <= Grow(good, DownDwell)
  BY <1>1, <1>5 DEF Grow, Unset, VenueInv, Dwelling
<1> HIDE DEF s, b, g
<1>8. w \in VenueStates BY <1>1, <1>3, <1>4, <1>6 DEF VenueStates
<1>9. /\ w.state = v.state /\ w.unresolved = v.unresolved /\ w.goodFor = g
      /\ w.rejects = v.rejects /\ w.latencies = v.latencies
  BY <1>1 DEF VenueStates
<1>10. VenueInv(w, Grow(good, DownDwell))
  BY <1>7, <1>8, <1>9 DEF VenueInv, GoodVenue, OneIncident, Dwelling
<1> QED BY <1>2, <1>9, <1>10

(* Time passes. *)
LEMMA ElapseStep ==
  ASSUME IInv, Elapse PROVE IInv' /\ \A v \in VenueSet : ProbedAfterDwell(v)
<1>1. ASSUME NEW v \in VenueSet
      PROVE  /\ health'[v] \in VenueStates /\ clean'[v] \in Nat
             /\ VenueInv(health'[v], clean'[v]) /\ ProbedAfterDwell(v)
  <2>1. VenueInv(health[v], clean[v]) /\ clean[v] \in Nat BY DEF IInv, VenueInv, Counts
  <2>2. health'[v] = Aged(health[v]) /\ clean'[v] = Grow(clean[v], DownDwell)
    BY DEF Elapse
  <2>3. VenueInv(health'[v], clean'[v]) /\ health'[v].state = health[v].state
    BY <2>1, <2>2, AgedVenue
  <2> QED BY <2>1, <2>2, <2>3 DEF ProbedAfterDwell, VenueInv, GoodVenue, Grow
<1>2. health' \in [VenueSet -> VenueStates] /\ clean' \in Counts
  BY <1>1 DEF Elapse, Counts
<1>3. OrdersOK' BY InvParts DEF Elapse, orderVars, OrdersOK
<1> QED BY <1>1, <1>2, <1>3 DEF IInv, OrdersOK, VenueInv

-----------------------------------------------------------------------------
(* The invariant holds at the start. *)
LEMMA InvInit == Init => IInv
<1> SUFFICES ASSUME Init PROVE IInv OBVIOUS
<1>1. NewVenue \in VenueStates
  BY HealthAssumption DEF HealthAssumption, NewVenue, VenueStates, States, Unset
<1>2. Len(NewVenue.rejects) = 0 /\ Len(NewVenue.latencies) = 0 BY DEF NewVenue
<1>3. VenueInv(NewVenue, 0)
  BY <1>1, <1>2, HealthAssumption
  DEF HealthAssumption, VenueInv, GoodVenue, OneIncident, Dwelling, NewVenue, Unset
<1>4. Zero \in Counts /\ \A v \in VenueSet : Zero[v] = 0 BY DEF Zero, Counts
<1>5. \A v \in VenueSet : health[v] = NewVenue BY DEF Init
<1>6. health \in [VenueSet -> VenueStates] BY <1>1 DEF Init
<1>7. OrdersOK BY <1>4, RoutingAssumption DEF Init, OrdersOK, RoutingAssumption
<1>8. HealthOK BY <1>3, <1>4, <1>5, <1>6 DEF Init, HealthOK
<1> QED BY <1>7, <1>8, InvParts

(* Every step keeps the invariant and probes no venue before its dwell.     *)
LEMMA InvNext ==
  ASSUME IInv, [Next]_vars PROVE IInv' /\ \A v \in VenueSet : ProbedAfterDwell(v)
<1>1. CASE UNCHANGED vars
  <2>1. IInv' BY <1>1 DEF IInv, vars, orderVars
  <2>2. \A v \in VenueSet : ProbedAfterDwell(v) BY <1>1 DEF vars, ProbedAfterDwell
  <2> QED BY <2>1, <2>2
<1>2. CASE Tick BY <1>2, TickStep
<1>3. CASE Elapse BY <1>3, ElapseStep
<1>4. ASSUME NEW x \in VenueSet,
             \/ SubmitTo(x) \/ SubmitRefused(x) \/ Answer(x) \/ Fill(x) \/ Ended(x) \/ Timeout(x)
             \/ CancelSent(x) \/ \E benign \in BOOLEAN : CancelReject(x, benign)
             \/ Disconnect(x) \/ Reconnect(x)
      PROVE  IInv' /\ \A v \in VenueSet : ProbedAfterDwell(v)
  BY <1>4, VenueActions
<1> QED BY <1>1, <1>2, <1>3, <1>4 DEF Next

(* Windows stay within their capacity and venues within their room, for     *)
(* every configuration of Health.h.                                         *)
THEOREM HealthTypeCorrect == Spec => []HealthTypeOK
<1>1. IInv => HealthTypeOK BY DEF IInv, HealthTypeOK, GoodVenue
<1> QED BY <1>1, InvInit, InvNext, PTL DEF Spec

(* evaluate() raises the incident count once per incident and drops it once, *)
(* through every relapse from Probing and every way back to Healthy.         *)
THEOREM IncidentsCountedOnce == Spec => []UnresolvedIsOneIncident
<1>1. IInv => UnresolvedIsOneIncident BY DEF IInv, UnresolvedIsOneIncident, OneIncident
<1> QED BY <1>1, InvInit, InvNext, PTL DEF Spec

(* No venue is probed before a whole good dwell, whatever events and timer  *)
(* calls evaluate it (Health.cpp, evaluate()).                              *)
THEOREM ProbesFollowTheDwell == Spec => FullDwellBeforeProbing
<1>1. ASSUME IInv, [Next]_vars
      PROVE  [\A v \in VenueSet : health[v].state = "Down" /\ health'[v].state = "Probing"
                                   => clean[v] >= DownDwell]_vars
  BY <1>1, InvNext DEF ProbedAfterDwell
<1> QED BY <1>1, InvInit, InvNext, PTL DEF Spec, FullDwellBeforeProbing

-----------------------------------------------------------------------------
(* The scan of the router: its choice after each number of venues. *)
Choice(h, f, k) ==
  IF k = 0 THEN NoVenue
  ELSE IF /\ IsTradeable(h[k - 1])
          /\ \/ f[k - 1] = NoVenue
             \/ Weight(h[k - 1]) > Weight(h[f[k - 1]])
       THEN k - 1 ELSE f[k - 1]

IsScan(h, n, f) == f = [k \in 0 .. n |-> Choice(h, f, k)]

(* What the definition of the scan says of its result. *)
LEMMA SelectIsScan ==
  \A h, n : Select(h, n) = (CHOOSE f : IsScan(h, n, f))[n]
BY Zenon DEF Select, IsScan, Choice

(* There is such a scan. *)
LEMMA ScanExists ==
  ASSUME NEW h, NEW n \in Nat PROVE \E f : IsScan(h, n, f)
<1> DEFINE Good == {m \in Nat : \E f : IsScan(h, m, f)}
<1>1. 0 \in Good
  <2> DEFINE f == [k \in 0 .. 0 |-> NoVenue]
  <2>1. \A k \in 0 .. 0 : Choice(h, f, k) = NoVenue BY DEF Choice
  <2>2. f = [k \in 0 .. 0 |-> Choice(h, f, k)] BY <2>1
  <2>3. IsScan(h, 0, f) BY <2>2 DEF IsScan
  <2> QED BY <2>3
<1>2. ASSUME NEW m \in Nat, m \in Good PROVE m + 1 \in Good
  <2>1. PICK f : IsScan(h, m, f) BY <1>2
  <2> DEFINE D == 0 .. m
             E == 0 .. m + 1
             g == [k \in E |-> IF k \in D THEN f[k] ELSE Choice(h, f, k)]
  <2>2. D \subseteq E /\ \A k \in E : k # 0 => k - 1 \in D OBVIOUS
  <2>3. \A k \in D : f[k] = Choice(h, f, k) BY <2>1 DEF IsScan
  <2>4. \A k \in E : g[k] = Choice(h, f, k) BY <2>3
  <2>5. \A k \in D : g[k] = f[k] BY <2>2
  <2>6. g = [k \in E |-> g[k]] OBVIOUS
  <2> HIDE DEF g, D
  <2>7. \A k \in E : Choice(h, g, k) = Choice(h, f, k) BY <2>2, <2>5 DEF Choice
  <2> HIDE DEF E
  <2>8. g = [k \in E |-> Choice(h, g, k)] BY <2>4, <2>6, <2>7
  <2>9. IsScan(h, m + 1, g) BY <2>8 DEF IsScan, E
  <2> QED BY <2>9
<1> HIDE DEF Good
<1>3. n \in Good BY <1>1, <1>2, NumberInduction
<1> QED BY <1>3 DEF Good

(* The first venue of most weight among the tradeable ones below k, if any. *)
IsBest(h, k, a) ==
  \/ a = NoVenue /\ \A w \in 0 .. k - 1 : ~IsTradeable(h[w])
  \/ /\ a \in 0 .. k - 1 /\ IsTradeable(h[a])
     /\ \A w \in 0 .. k - 1 : IsTradeable(h[w]) =>
          \/ Weight(h[w]) < Weight(h[a])
          \/ Weight(h[w]) = Weight(h[a]) /\ a <= w

(* A record's weight is a number. *)
LEMMA WeightIsInt == \A v \in VenueStates : Weight(v) \in Int
BY HealthAssumption DEF HealthAssumption, Weight, VenueStates, States

(* One turn of the scan keeps its choice the best so far. *)
LEMMA ScanTurn ==
  ASSUME NEW n \in Nat, NEW h \in [0 .. n - 1 -> VenueStates], NEW f,
         NEW k \in 1 .. n, IsBest(h, k - 1, f[k - 1])
  PROVE  IsBest(h, k, Choice(h, f, k))
<1> DEFINE v == k - 1
           a == f[k - 1]
           W(w) == Weight(h[w])
<1>1. /\ v \in 0 .. n - 1 /\ v \in 0 .. k - 1 /\ k # 0 /\ v # NoVenue
      /\ \A w \in 0 .. k - 1 : w \in 0 .. n - 1 /\ (w = v \/ (w \in 0 .. v - 1 /\ w < v))
      /\ \A w \in 0 .. v - 1 : w \in 0 .. k - 1 /\ w # NoVenue
  BY DEF NoVenue
<1>2. \A w \in 0 .. n - 1 : W(w) \in Int BY WeightIsInt
<1>3. Choice(h, f, k) = IF IsTradeable(h[v]) /\ (a = NoVenue \/ W(v) > W(a))
                        THEN v ELSE a
  BY <1>1 DEF Choice
<1>4. IsBest(h, v, a) OBVIOUS
<1> HIDE DEF v, a
<1>5. CASE a = NoVenue
  <2>1. \A w \in 0 .. v - 1 : ~IsTradeable(h[w]) BY <1>1, <1>4, <1>5 DEF IsBest
  <2>2. CASE IsTradeable(h[v])
    <3>1. Choice(h, f, k) = v BY <1>3, <1>5, <2>2
    <3>2. \A w \in 0 .. k - 1 : IsTradeable(h[w]) => w = v BY <1>1, <2>1
    <3>3. \A w \in 0 .. k - 1 : IsTradeable(h[w]) =>
            Weight(h[w]) = Weight(h[v]) /\ v <= w
      BY <1>1, <3>2
    <3> QED BY <1>1, <2>2, <3>1, <3>3 DEF IsBest
  <2>3. CASE ~IsTradeable(h[v])
    <3>1. Choice(h, f, k) = NoVenue BY <1>3, <1>5, <2>3
    <3>2. \A w \in 0 .. k - 1 : ~IsTradeable(h[w]) BY <1>1, <2>1, <2>3
    <3> QED BY <3>1, <3>2 DEF IsBest
  <2> QED BY <2>2, <2>3
<1>6. CASE a # NoVenue
  <2>1. /\ a \in 0 .. v - 1 /\ IsTradeable(h[a])
        /\ \A w \in 0 .. v - 1 : IsTradeable(h[w]) =>
             W(w) < W(a) \/ (W(w) = W(a) /\ a <= w)
    BY <1>4, <1>6 DEF IsBest
  <2>2. a \in 0 .. k - 1 /\ a < v BY <1>1, <2>1
  <2> HIDE DEF W
  <2>3. CASE IsTradeable(h[v]) /\ W(v) > W(a)
    <3>1. \A w \in 0 .. k - 1 : IsTradeable(h[w]) =>
            W(w) < W(v) \/ (W(w) = W(v) /\ v <= w)
      BY <1>1, <1>2, <2>1, <2>2, <2>3
    <3> QED BY <1>1, <1>3, <2>3, <3>1 DEF IsBest, W
  <2>4. CASE ~(IsTradeable(h[v]) /\ W(v) > W(a))
    <3>1. \A w \in 0 .. k - 1 : IsTradeable(h[w]) =>
            W(w) < W(a) \/ (W(w) = W(a) /\ a <= w)
      BY <1>1, <1>2, <2>1, <2>2, <2>4
    <3> QED BY <1>3, <1>6, <2>1, <2>2, <2>4, <3>1 DEF IsBest, W
  <2> QED BY <2>3, <2>4
<1> QED BY <1>5, <1>6

(* The whole scan finds the best of all venues. *)
LEMMA SelectIsBest ==
  ASSUME NEW n \in Nat, NEW h \in [0 .. n - 1 -> VenueStates]
  PROVE  IsBest(h, n, Select(h, n))
<1> DEFINE f == CHOOSE f : IsScan(h, n, f)
           Good == {k \in Nat : k <= n => IsBest(h, k, f[k])}
<1>1. IsScan(h, n, f) BY ScanExists
<1> HIDE DEF f
<1>2. \A k \in 0 .. n : f[k] = Choice(h, f, k) BY <1>1 DEF IsScan
<1>3. 0 \in Good
  <2>1. f[0] = NoVenue BY <1>2 DEF Choice
  <2> QED BY <2>1 DEF IsBest
<1>4. ASSUME NEW k \in Nat, k \in Good PROVE k + 1 \in Good
  <2> SUFFICES ASSUME k + 1 <= n PROVE IsBest(h, k + 1, f[k + 1]) OBVIOUS
  <2>1. k + 1 \in 1 .. n /\ k + 1 \in 0 .. n /\ (k + 1) - 1 = k /\ k <= n OBVIOUS
  <2>2. IsBest(h, (k + 1) - 1, f[(k + 1) - 1]) BY <1>4, <2>1
  <2> QED BY <1>2, <2>1, <2>2, ScanTurn
<1> HIDE DEF Good
<1>5. n \in Good BY <1>3, <1>4, NumberInduction
<1>6. Select(h, n) = f[n] BY SelectIsScan DEF f
<1> QED BY <1>5, <1>6 DEF Good

(* For any number of venues and any weights, an order goes to a venue that  *)
(* is not Down and than which none has more weight, the first of equals     *)
(* (Router.cpp, select()).                                                  *)
THEOREM OrdersGoToHealthiest == Spec => RoutedToHealthiest
<1>1. ASSUME IInv, [Next]_vars, NEW v \in VenueSet, fresh'[v] > fresh[v]
      PROVE  v = Select(health, VenueCount)
  <2>1. fresh \in [VenueSet -> Int] BY <1>1 DEF IInv, Counts
  <2>2. ~UNCHANGED fresh BY <1>1, <2>1
  <2>3. \A x \in VenueSet : ~(fresh' = Add(fresh, x, -1)) BY <1>1, <2>1 DEF Add
  <2>4. PICK x \in VenueSet : SubmitTo(x)
    BY <1>1, <2>2, <2>3
    DEF Next, vars, orderVars, SubmitRefused, Answer, Confirm, Reject, CancelSent,
        CancelReject, Fill, Ended, Timeout, Disconnect, Reconnect, Tick, Elapse, Settles, Ends
  <2>5. x = v BY <1>1, <2>1, <2>4 DEF SubmitTo, Add
  <2> QED BY <2>4, <2>5 DEF SubmitTo
<1>2. ASSUME IInv PROVE IsBest(health, VenueCount, Select(health, VenueCount))
  BY <1>2, RoutingAssumption, SelectIsBest DEF IInv, RoutingAssumption, VenueSet
<1>3. ASSUME IInv, [Next]_vars
      PROVE  [\A v \in VenueSet : fresh'[v] > fresh[v] =>
               /\ health[v].state # "Down"
               /\ \A w \in VenueSet : health[w].state # "Down" =>
                    \/ Weight(health[w]) < Weight(health[v])
                    \/ Weight(health[w]) = Weight(health[v]) /\ v <= w]_vars
  <2>1. ASSUME NEW v \in VenueSet, fresh'[v] > fresh[v]
        PROVE  /\ health[v].state # "Down"
               /\ \A w \in VenueSet : health[w].state # "Down" =>
                    \/ Weight(health[w]) < Weight(health[v])
                    \/ Weight(health[w]) = Weight(health[v]) /\ v <= w
    <3>1. IsBest(health, VenueCount, v) BY <1>1, <1>2, <1>3, <2>1
    <3>2. v # NoVenue BY RoutingAssumption DEF RoutingAssumption, VenueSet, NoVenue
    <3> QED BY <3>1, <3>2 DEF IsBest, IsTradeable, VenueSet
  <2> QED BY <2>1
<1> QED BY <1>3, InvInit, InvNext, PTL DEF Spec, RoutedToHealthiest
=============================================================================
