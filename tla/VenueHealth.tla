----------------------------- MODULE VenueHealth -----------------------------
(****************************************************************************)
(* The circuit breaker of src/Health.cpp, one record per venue, and the     *)
(* router's choice (src/Router.cpp).  A record is a value: the operators    *)
(* below take one and return the next, each ending in evaluate() as the     *)
(* handlers do.  Timestamps are kept as ages that stop growing once they    *)
(* pass the threshold they are compared with, which keeps the state finite  *)
(* without a bound on time.  The trip reason and the trip counter are       *)
(* diagnostics and left out.                                                *)
(****************************************************************************)
EXTENDS Integers, Sequences, FiniteSets

CONSTANTS Tolerance,       \* heartbeat_tolerance_ns, in ticks
          DegradeDwell, DownDwell,
          ProbeRequired,
          RejectWindow, MinSamples,
          RejectHigh, RejectLow,       \* in percent
          LatencyWindow,
          LatencyHigh, LatencyLow,
          DegradedWeight, ProbeWeight, \* in percent of a healthy venue's
          Latencies                    \* ack latencies that occur

ASSUME HealthAssumption ==
  /\ Tolerance \in Nat /\ DegradeDwell \in Nat /\ DownDwell \in Nat
  /\ ProbeRequired \in Nat /\ MinSamples \in Nat
  /\ RejectWindow \in Nat \ {0} /\ LatencyWindow \in Nat \ {0}
  /\ DegradedWeight \in Nat /\ ProbeWeight \in Nat
  /\ Latencies \subseteq Nat

States == {"Healthy", "Degraded", "Down", "Probing"}
Unset  == -1   \* good_since == 0

VenueStates ==
  [connected : BOOLEAN,
   silence : 0 .. Tolerance + 1,     \* now - last_seen
   rejects : Seq({0, 1}), latencies : Seq(Latencies),
   state : States,
   badFor : 0 .. DegradeDwell,       \* now - degraded_since
   goodFor : Unset .. DownDwell,     \* now - good_since
   probes : 0 .. ProbeRequired,      \* only compared with probe_required
   unresolved : Nat]

NewVenue == [connected |-> TRUE, silence |-> 0, rejects |-> <<>>, latencies |-> <<>>,
             state |-> "Healthy", badFor |-> 0, goodFor |-> Unset, probes |-> 0,
             unresolved |-> 0]

-----------------------------------------------------------------------------
(* RingBuffer.h: a window of the last samples, and its interpolated p99.    *)

(* Mutant: the window never drops a sample. *)
PushUnbounded(window, sample, capacity) == Append(window, sample)

Push(window, sample, capacity) ==
  IF Len(window) < capacity THEN Append(window, sample)
  ELSE Append(Tail(window), sample)

(* The sample at 0-based position k of the sorted window. *)
Ranked(window, k) ==
  LET below(x) == Cardinality({i \in DOMAIN window : window[i] < x})
      upTo(x)  == Cardinality({i \in DOMAIN window : window[i] <= x})
  IN CHOOSE x \in {window[i] : i \in DOMAIN window} : below(x) <= k /\ k < upTo(x)

(* percentile(0.99), truncated to an integer as the code's cast does. *)
P99(window) ==
  LET last == Len(window) - 1
      lo   == (99 * last) \div 100
      hi   == IF lo + 1 <= last THEN lo + 1 ELSE last
      frac == (99 * last) % 100
  IN (100 * Ranked(window, lo) + (Ranked(window, hi) - Ranked(window, lo)) * frac) \div 100

-----------------------------------------------------------------------------
(* assess() *)

RejectCount(v) == Cardinality({i \in DOMAIN v.rejects : v.rejects[i] = 1})
Enough(v) == Len(v.rejects) >= MinSamples

ConnectionBad(v) == ~v.connected \/ v.silence > Tolerance
RejectsHigh(v) == Enough(v) /\ 100 * RejectCount(v) > RejectHigh * Len(v.rejects)
RejectsLow(v)  == ~Enough(v) \/ 100 * RejectCount(v) < RejectLow * Len(v.rejects)
LatencyIsHigh(v) == v.latencies # <<>> /\ P99(v.latencies) > LatencyHigh
LatencyIsLow(v)  == v.latencies = <<>> \/ P99(v.latencies) < LatencyLow

AnyHigh(v) == ConnectionBad(v) \/ RejectsHigh(v) \/ LatencyIsHigh(v)
AllLow(v)  == ~ConnectionBad(v) /\ RejectsLow(v) /\ LatencyIsLow(v)

(* evaluate(): at most one transition. *)
Trip(v) == [v EXCEPT !.state = "Degraded", !.badFor = 0, !.unresolved = @ + 1]
Restore(v) == [v EXCEPT !.state = "Healthy",
                        !.unresolved = IF @ > 0 THEN @ - 1 ELSE @]
(* Mutants: a relapse counts as a further incident; the dwell of an earlier *)
(* stay is not reset.                                                       *)
TakeDownAgain(v) ==
  [v EXCEPT !.state = "Down", !.goodFor = Unset, !.unresolved = @ + 1]
TakeDownDwelling(v) == [v EXCEPT !.state = "Down"]

(* Mutant: a probing venue does not relapse. *)
EvaluateNoRelapse(v) ==
  CASE v.state = "Healthy"  -> IF AnyHigh(v) THEN Trip(v) ELSE v
    [] v.state = "Degraded" -> IF AllLow(v) THEN Restore(v)
                               ELSE IF AnyHigh(v) /\ v.badFor >= DegradeDwell
                               THEN [v EXCEPT !.state = "Down", !.goodFor = Unset] ELSE v
    [] v.state = "Down"     -> IF ~AllLow(v) THEN [v EXCEPT !.goodFor = Unset]
                               ELSE IF v.goodFor = Unset THEN [v EXCEPT !.goodFor = 0]
                               ELSE IF v.goodFor >= DownDwell
                               THEN [v EXCEPT !.state = "Probing", !.probes = 0]
                               ELSE v
    [] v.state = "Probing"  -> IF v.probes >= ProbeRequired THEN Restore(v) ELSE v

TakeDown(v) == [v EXCEPT !.state = "Down", !.goodFor = Unset]

Evaluate(v) ==
  CASE v.state = "Healthy"  -> IF AnyHigh(v) THEN Trip(v) ELSE v
    [] v.state = "Degraded" -> IF AllLow(v) THEN Restore(v)
                               ELSE IF AnyHigh(v) /\ v.badFor >= DegradeDwell
                               THEN TakeDown(v) ELSE v
    [] v.state = "Down"     -> IF ~AllLow(v) THEN [v EXCEPT !.goodFor = Unset]
                               ELSE IF v.goodFor = Unset THEN [v EXCEPT !.goodFor = 0]
                               ELSE IF v.goodFor >= DownDwell
                               THEN [v EXCEPT !.state = "Probing", !.probes = 0]
                               ELSE v
    [] v.state = "Probing"  -> IF AnyHigh(v) THEN TakeDown(v)
                               ELSE IF v.probes >= ProbeRequired THEN Restore(v)
                               ELSE v

-----------------------------------------------------------------------------
(* The handlers. *)

Heard(v) == [v EXCEPT !.silence = 0]

Sent(v) == Evaluate(Heard(v))

Acked(v, latency) ==
  Evaluate([Heard(v) EXCEPT
              !.latencies = Push(@, latency, LatencyWindow),
              !.rejects = Push(@, 0, RejectWindow),
              !.probes = IF v.state = "Probing" /\ latency <= LatencyHigh
                            /\ @ < ProbeRequired THEN @ + 1 ELSE @])

Refused(v, benign) ==
  Evaluate(IF benign THEN Heard(v)
           ELSE [Heard(v) EXCEPT !.rejects = Push(@, 1, RejectWindow)])

Filled(v) == Evaluate(Heard(v))

(* An unacknowledged send counts as a reject and is no sign of life. *)
TimedOut(v) == Evaluate([v EXCEPT !.rejects = Push(@, 1, RejectWindow)])

Disconnected(v) == Evaluate([v EXCEPT !.connected = FALSE])
Reconnected(v)  == Evaluate([Heard(v) EXCEPT !.connected = TRUE])

(* One unit of time: every age the code computes as now minus a stamp.      *)
Grow(age, limit) == IF age < limit THEN age + 1 ELSE age
Aged(v) == [v EXCEPT !.silence = Grow(@, Tolerance + 1),
                     !.badFor  = IF v.state = "Degraded" THEN Grow(@, DegradeDwell) ELSE @,
                     !.goodFor = IF @ = Unset \/ v.state # "Down" THEN @
                                 ELSE Grow(@, DownDwell)]

-----------------------------------------------------------------------------
(* Router.cpp: the scan over the venues in registration order, which is     *)
(* ascending (ExchangeRegistry::venues).                                    *)

IsTradeable(v) == v.state # "Down"

Weight(v) == CASE v.state = "Healthy"  -> 100
               [] v.state = "Degraded" -> DegradedWeight
               [] v.state = "Probing"  -> ProbeWeight
               [] v.state = "Down"     -> 0

NoVenue == -1

(* Mutant: the last of two equal venues wins. *)
SelectLast(health, n) ==
  LET best[k \in 0 .. n] ==
        IF k = 0 THEN NoVenue
        ELSE IF /\ IsTradeable(health[k - 1])
                /\ \/ best[k - 1] = NoVenue
                   \/ Weight(health[k - 1]) >= Weight(health[best[k - 1]])
             THEN k - 1 ELSE best[k - 1]
  IN best[n]

(* select(): health maps the venues 0 .. n - 1 to their records. *)
Select(health, n) ==
  LET best[k \in 0 .. n] ==
        IF k = 0 THEN NoVenue
        ELSE LET v == k - 1
             IN IF /\ IsTradeable(health[v])
                   /\ \/ best[k - 1] = NoVenue
                      \/ Weight(health[v]) > Weight(health[best[k - 1]])
                THEN v ELSE best[k - 1]
  IN best[n]
=============================================================================
