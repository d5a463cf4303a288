# A verification development of the order management system

TLA+ modules, TLC configurations and TLAPS proofs for the C++ order management
system (OMS) in `src/`.  Paths below are relative to `src/`: `src/OrderManager.cpp`
is the file `src/src/OrderManager.cpp` of the repository.

Run a configuration with `tlc -config X.cfg M` (the module of each is in the
table of runs) and check the proofs of a module with `tlapm M.tla`; the modules
that hold proofs are `SumTheorems`, `OrderManagerProofs`, `OmsProofs`,
`RoutedVenuesProofs`, `SignalGateProofs`, `NettingProofs`, `ReconciliationProofs`
and `ExecutionAlgoProofs`.

## 1. The system

The OMS sits between strategies that publish *target positions* and exchanges
that execute *orders*.  A signal gate vets the targets, a netting engine turns
the targets of several strategies into one order per instrument, an execution
algorithm slices it, a router picks a venue by its health, the order manager
follows every order to its end, and reconciliation compares the resulting
positions with the venues.  Everything runs on one event loop: a public call or
an inbound event runs to completion before the next one.  What is concurrent is
the world: acks, fills, cancels, rejects, timeouts, disconnects and signals
arrive in any order, late, twice or never.

| Component | State | Operations | Talks to |
|---|---|---|---|
| Order id and pool (`OrderPool`, `OrderId.h`) | per-slot generation, allocated bit, free list, count in use | `acquire`, `release`, `is_current` | owned by the order manager |
| Order manager (`OrderManager`) | order records, live index, retired FIFO, expected false cancel-rejects, seen trades, positions, pending quantity, kill switch, incomplete cycle, reconcile request, unknown fills | `submit`, `cancel`, `cancel_working_orders`, seven event handlers, `check_ack_timeouts`, disconnect and reconnect hooks | router and health model (calls), venue (`place_order`, `cancel_order`), listeners (callbacks) |
| Simulated exchange (`sim/SimulatedExchange`) | event queue, its book of orders, positions, connection | `place_order`, `cancel_order`, `mass_cancel`, `poll`, `inject_*`, `set_connected` | order manager (event sink) |
| A real venue | external | `ExchangeClient` / `ExchangeEventSink` | order manager |
| Health model (`Health`) | per venue: state, reject and latency windows, time in state, good-since, disconnected-since, counts | nine event hooks, `tick`, `score`, `is_tradeable` | called by the order manager, read by the router |
| Router (`Router`) | none | `select` | health model |
| Signal gate (`Signal`) | trading flag; per strategy the expected sequence and the last accept | `check`, `enable_trading`, `heartbeat_alive` | transport before it, strategies after it |
| Signal producer | next sequence per strategy | `produce_cycle` | transport |
| Netting engine (`Netting`) | targets, attributed and global positions, contributions of the last cycle | `set_target`, `set_attributed`, `compute_cycle`, `attribute_fill` | strategies; the caller sends its net order |
| Execution algorithms (`ExecutionAlgo`) | per parent: schedule, open children, filled quantity; a POV also the TWAP it degraded to | `on_timer`, `on_fill`, `on_reject`, `on_cancel`, `cancel`, dispatcher | order manager |
| Reconciliation (`Reconciliation`) | per instrument the cycles a drift was seen in; the halt | startup and periodic `reconcile`, `rearm` | venues, order manager |

The hard behaviours, and where they bite, are listed one by one in
`PROJECT.json` under `hazards`.  In short:

* a fill, a cancel and their acks race (`OrderManager.cpp:19-42`, `:268-382`),
  and slots are recycled while late events of their earlier occupants are still
  on their way (`OrderPool.cpp:54-68`);
* several pieces of state are kept incrementally beside each other (live index,
  retired FIFO, dedup sets, pending quantity) by a dozen handlers and must stay
  consistent (`OrderManager.cpp:79-97`);
* the circuit breaker moves only when it is evaluated, and the router decides
  which venue gets the events that make it move (`Health.cpp:61-122`,
  `Router.cpp:5-19`);
* the gate tells a duplicate from a gap by a threshold on a wrapping counter
  (`Signal.cpp:76-98`);
* integer apportionment has to give every unit to exactly one strategy and still
  converge, although cycles run while the orders of earlier ones still fill and
  replace the contributions those fills are split by (`Netting.cpp:50`, `:61-106`);
* the periodic reconciler compares two snapshots between which fills are in
  flight, and corrects through the order path it is checking
  (`Reconciliation.cpp:77-163`);
* an algorithm's deadline cancels, crosses and counts in one call, while the
  children it cancels may still fill (`ExecutionAlgo.cpp:117-129`, `:184-210`).

What makes each component correct: the pool never hands out a slot in use and
never loses one; the manager books each trade once, never more than the order,
never for the wrong order, and its position and pending quantity always account
for every order; it agrees with the venue whenever nothing is in flight; every
order that names a price ends; the health model counts an incident once, probes only after a whole
good dwell, and takes a bad venue out of routing; the router picks the
healthiest venue; the gate never rolls targets back and notices a dead producer;
netting conserves quantity and reaches the targets; reconciliation acts on every
drift that lasts, one that a start left too, and on no other; an algorithm works no
more than its parent and ends at its deadline.

## 2. Modules

| Module | Models | Notes |
|---|---|---|
| `OrderPool` | `OrderPool.cpp`, `OrderId.h` | pure operators on a pool record; the id is the record of its four fields, its 64-bit packing is left out, the wrap of the generation is kept (`GenMod`) |
| `OrderManager` | `OrderManager.cpp` and `.h`, `Order.h` | one action per call and per inbound event; surroundings left open: any event about any id a venue was ever given, any answer to a send, any choice of the router |
| `OrderLedger` | what the order path promises | abstract: open an order under a fresh id, book a trade of it once, close it |
| `SimulatedExchange` | `sim/SimulatedExchange.*` | scheduling, chunks, coins for reject, unsolicited cancel and duplicate, cancel, mass cancel, polling, injection |
| `OmsSim` | order manager + simulated exchange + driver loop | how the tests and `sim/main.cpp` run it |
| `Venue` | a real venue and its transport (external) | executes when it matches, not when its report is delivered |
| `OmsVenue` | order manager + `Venue` | the races of README decision 3 and failure modes 1, 2, 5, 6 |
| `VenueHealth` | `Health.*`, `RingBuffer.h`, `Router.cpp` | the breaker as operators on a venue's record |
| `RoutedVenues` | health model + router + the orders at the venues | closes the loop between routing and health |
| `SignalGate` | `Signal.*`, `SignalProducer.cpp` | the gate behind a lossy, duplicating, delaying transport |
| `Netting` | `Netting.*` | targets, cycles, transfers, attribution, seeding, beside the net orders at work |
| `Reconciliation` | `Reconciliation.*` | both reconcilers beside a reduced order path: executions, reports on their way, disconnects, crashes |
| `ExecutionAlgo` | `ExecutionAlgo.*` | TWAP, POV and the dispatcher over the open children; checked as it stands, without an `MC` module |
| `SumTheorems` | | induction over finite sets and over numbers, and the sum over a finite set, for the proofs of the others |
| `OrderManagerProofs` | | lemmas on the pool and on the bookkeeping of the manager, its invariant, and what follows from it |
| `OmsProofs` | | the order manager with a venue and with the simulator: what a handler does to the other side's view of the orders, the reports or events on their way as a queue, and the agreement of the two sides |
| `RoutedVenuesProofs`, `SignalGateProofs`, `NettingProofs`, `ReconciliationProofs`, `ExecutionAlgoProofs` | | the theorems of the breaker and the router, of the gate, of netting, of the reconcilers and of the algorithms |
| `MC...` | | small sets for TLC |

### State and actions of the order manager

Each C++ member that steers a decision is a variable of the same meaning
(`pool_` is split into the bookkeeping, `pool`, and the records, `orders`);
`trade_ids_` is a set of pairs `<<id, trade>>`, erased with its order.  The price of
a fill is kept because a fill without a positive one is dropped
(`OrderManager.cpp:37`); average price, timestamps, exchange ids and diagnostic
counters steer nothing and are left out.
`calls` is the set of outgoing calls of the last step: requests to the venue,
reports to the health model and events to subscribers.  `issued` is not state of
the program: it is the set of ids a venue was ever given, and inbound events may
quote any of them, at any time, any number of times.

`submit()` is four actions, one per outcome: `SubmitAccepted`,
`SubmitRejectedLocally` (the client throws or is down: the order is entered, then
unwound and retired in the same call), `SubmitExhausted` (kill switch) and
`SubmitAllDown` (cancels working orders at the venues that still answer and marks
the cycle incomplete).  Every handler first validates; a dropped event is the
action `Drop`, or `UnknownFill` for a fill about an unknown id, which counts
towards the hard stop.  Subscribers are called inside the handlers; they are
taken to act only after the handler has returned (see *Not modelled*).

In `OmsSim` the simulator's `poll()` is a loop that delivers due events one by
one, and the strategy cannot run inside it, so `polling` separates `BeginPoll`,
`Deliver` and `EndPoll`.  A random coin is a choice that may come up only if its
probability is not zero (`MayReject`, `MayCancel`, `MayDuplicate`).  A request
carries its limit price, the simulator executes at it (`SimulatedExchange.cpp:30`,
`:71`), and a market order leaves it at 0 (`OrderManager.h:17`).  In `OmsVenue`
`place_order()` and `cancel_order()` return before anything happens at the venue;
matching, cancelling and reporting are steps of the venue,
which executes at positive prices.

In `VenueHealth` a time stamp is an age that stops growing at the threshold it is
compared with; latencies are two values on either side of the thresholds, and
the p99 interpolates between its two neighbours as the code does.
`SignalGate` replaces time stamps by ages in the same way and a book by its
sequence number, its age and whether it holds an absurd target.  `RoutedVenues` counts the orders of a venue by what may still happen to
them: `fresh` ones may time out, `working` ones are confirmed, partly filled, timed
out or have a cancel sent, and `excused` ones filled with a cancel in flight, whose
reject will be benign.

`Netting` treats one instrument: the engine keeps nothing in common between two.
The engine does not know what is working: a cycle may run at any time, and then asks
for the same delta again and replaces the contributions.  `working` is what the
caller's net orders have left on either side, and may start with orders of an engine
before; `unattributed` is history, the sum of the fills that found no contributions
and moved the global position alone (`Netting.cpp:64-67`).

In `Reconciliation`, `executed` is what `get_positions()` of each venue returns,
`booked` what the order manager made of the fills it heard of, and `reports` the
fills on their way between the two.  `Cycle` is the whole of
`PeriodicReconciler::reconcile()`: the scan in ascending instrument order, which
stops at the first halt, the counts, and the corrective orders, of which the order
manager takes any subset; an instrument without a position may be listed or not
(`:90-93`), and one that is not keeps its count.  Before a start the application asks
the venues for their positions (`Fetch`, `observed`), and `Startup` is the verdict of
`StartupReconciler::reconcile()` on these and on any snapshot: it starts from what
was fetched, whatever was executed since.  The application, which writes the
snapshots and seeds the positions, is not part of the repository (`README.md:288`).
A `Crash` loses what the process knew; its orders may fill
afterwards.

In `ExecutionAlgo` a book is the state of an `AlgoBase` with the schedule of the
TWAP; a POV has a second one, `held`, for the TWAP it degraded to.  `open` is what
the order manager and the venue know of the children.  The operators ending in
`Timer` take a book and return the next, with the number the next child gets;
`FireSlices` is the table of the loop over the slices, of which `Fire` is one turn.
`OrdersFrom` is what the submissions
and the cancels of one call leave in the order path, where any of them may fail.  A
venue may fill a child in pieces, end it, or refuse its cancel, at any time.

## 3. Runs

Bounds are constants of the modules with *bound* in their comment; they only
restrict how often an environment acts.

| Run | Module | Checks | Bounds and why they are enough |
|---|---|---|---|
| `OrderManager` | `MCOrderManager` | types; free list; slot accounting; pending quantity; excused cancel-rejects; cancel flag; fills within the order; stale ids; headroom; terminal orders final; exposure | two slots, a grace window of one and three orders, so a slot is recycled while another order is open or retired and late events of three occupants interleave; sizes 1 and 2 so fills can be partial, exact and too large; two trade ids so a fill can be new or a repeat; the sequence field wraps at the third order |
| `OmsSim` | `MCOmsSim` | `NoDrift`, `SameOpenOrders`, `OrdersEventuallyEnd`, `KeepsLedger` (refinement of `OrderLedger`) | two orders of two units in two slots, one with a limit price and a market order without (price 0), no grace window, so a slot is recycled at once; two chunks, the first of which may come before the ack; every coin of the simulator, injected unsolicited cancels, disconnects and timeouts; three events in its queue |
| `OmsVenue` | `MCOmsVenue` | `SettledBooksAgree`, `NeverAheadOfVenue`, `LostRacesStayBenign` | one order of three units, so that every race between its partial fills, its cancel and their reports is played out; four reports in flight, each perhaps delivered again later or lost (slot recycling is the business of `OrderManager` and `OmsSim`) |
| `FillAfterCancelAck` | `MCOmsVenue` | `SettledBooksAgree`, violated | two orders in two slots, two reports in flight, reordered; the venue cancels only when asked, so the end that overtakes the fill is a cancel-ack |
| `RoutedVenues` | `MCRoutedVenues` | `HealthTypeOK`, `UnresolvedIsOneIncident`, `FullDwellBeforeProbing`, `BadVenueGoesDown` | windows of two samples, dwells of one and two ticks, two probes, two orders open: the windows fill, evict and cross both thresholds, and timeouts, cancels and their rejects reach orders before and after the ack and the fill |
| `RoutingTwoVenues` | `MCRoutedVenues` | `RoutedToHealthiest` | two venues in every pair of states, windows and dwells of one |
| `DownVenueStaysDown` | `MCRoutedVenues` | `DownVenueIsProbed`, violated | one venue, window of one |
| `SignalGate` | `MCSignalGate` | `GateTypeOK`, `NeverRollsBack`, `SilenceIsNoticed` | sequence modulo six, eight books (the number wraps), three in flight, delivered at most one behind a newer one, miss threshold two |
| `Netting` | `MCNetting` | `NettingTypeOK`, `GlobalIsSumOfParts`, `SharesAreProRata`, `TargetsAreReached` | three strategies, targets on both sides and of sizes that do not divide, three settings; one net order sent while another is working, so that contributions are overwritten in mid-fill and a target is overshot; one unit a side left by a former engine, which may fill before there are contributions |
| `Reconciliation` | `MCReconciliation` | `ReconTypeOK`, `ActsOnPersistentDrift`, `LastingDriftIsActedOn` | two instruments, so that one is skipped when the other halts; drifts within and beyond the band; two cycles to persist; one report on its way; one unit lost; one venue, which can be cut off; crashes, snapshots of every position, and executions between the venues' answer and the start |
| `CorrectionChasesDrift` | `MCReconciliation` | `CorrectionNarrowsGap`, violated | two venues that stay connected, one instrument, fills in both directions, one lost |
| `ExecutionAlgo` | `ExecutionAlgo` | `BooksFollowOrders`, `WithinParent`, `DoneIsReported`, `DeadlineCancels`, `LastSliceSendsTheRest`, `ParentEnds` | both algorithms; four units in three slices, which does not divide, over four ticks, with timers that may skip some, so that several slices are due at once; volumes below the floor, of a share in keeping and of one that makes a POV fall behind and degrade; any submission and any cancel may fail |

Deadlock is not checked where the bounds stop the system: `OmsVenue` and
`FillAfterCancelAck` (no report space or orders left), `Netting` (all targets
reached, no settings left), `ExecutionAlgo` (the parent is done and no child is open).

### What the runs show

* The bookkeeping of the order manager is consistent under *arbitrary*
  surroundings, including events no sane venue would send.
* Against the simulator, whatever combination of chunks, rejects, unsolicited
  cancels, duplicates, fills before the ack and injected events occurs, the two
  position books differ by exactly the executions of orders that name no price, and
  every order that names one is open on both sides with the same rest and ends.
* Against a venue with a real transport the books agree as long as reports about
  one order arrive in order and none is lost; duplicates are harmless.
* A signal transport that is late by less than the miss threshold never makes a
  strategy roll back, across the wrap of the sequence number.
* The netting books add up through cycles that overlap with working orders, except
  for fills that found no contributions, and every strategy comes back to its target
  once cycles wait for their orders.
* The periodic reconciler never acts without a reason outside the program that
  lasted for `persist_cycles` of its comparisons, however fills, disconnects and
  halts fall between them, and acts on every drift that lasts, also on one that an
  outdated answer of the venues left at the start.
* A TWAP works no more than its parent, at its deadline too, and is done only when
  nothing works any more; its last slice sends all that is left.

### Disagreements between the code and its documents

Three have a run whose counterexample shows them:

* **Fill after a cancel-ack** (`FillAfterCancelAck`).  `README.md` says "fill
  wins" when a fill and a cancel-ack come out of order.  The code rejects every
  event about a terminal order (`OrderManager.cpp:26`), so a fill executed before
  the cancel but reported after its ack is dropped and the position stays wrong.  (The
  run lets the venue cancel only on request; an unsolicited cancel that overtakes a
  fill has the same effect.)
* **A venue that is down stays down** (`DownVenueStaysDown`).  A venue tripped by
  its reject rate gets no orders (`Router.cpp:10`), and its window changes only
  with orders, so it never meets the low threshold and never starts probing.
* **A correction chases its drift** (`CorrectionChasesDrift`).  When a fill was
  lost, the corrective order is sent "to move the OMS position toward exchange
  truth" (`Reconciliation.cpp:131-132`).  It is an ordinary order: its own fill moves
  the venue's position and the manager's alike, so the drift stays what it was and
  is corrected again every `persist_cycles` cycles, each time adding to the exposure.

More come from reading the code for the models and have no run of their own:

* a fill must carry a positive price or the manager drops it (`OrderManager.cpp:37`),
  but the simulator executes every order at its limit price
  (`SimulatedExchange.cpp:30`, `:71`), which a market order leaves at 0 (`OrderManager.h:17`),
  and books it (`:122-125`).  Such an order ends at the simulator and stays open, with
  its pending quantity, at the manager, and the positions drift apart; `NoDrift`,
  `SameOpenOrders` and `OrdersEventuallyEnd` say so in so many words.  The reconciler
  raises the price of its own orders to 1 for lack of a book (`Reconciliation.cpp:143`);
  a parent without a limit (`ExecutionAlgo.h:14`) sends its slices at 0;
* `compute_cycle()` counts nothing as on its way: run while its last order is
  working it asks for the same delta again and replaces the contributions
  (`Netting.cpp:50`), so that both orders filling overshoots the targets, which a later
  cycle sends back;
* a fill that finds no contributions moves the global position only
  (`Netting.cpp:64-67`), after which "global == sum of sub-positions" (`Netting.h:11`)
  stays false by that much; `GlobalIsSumOfParts` keeps the difference in
  `unattributed`;
* a cancel-reject that overtakes the fill it lost to is counted as a real reject
  (`OrderManager.cpp:310`; set `Reorder = TRUE` in `OmsVenue.cfg` and
  `LostRacesStayBenign` fails);
* acks of orders sent before the trip count as probes (`Health.cpp:136`);
* `Netting.h:10-11` gives the rounding residual to the largest contributor; the
  code gives it to the largest *remainder* and breaks ties by size
  (`Netting.cpp:94-98`), which is what `Precedes` models;
* a book further behind than the miss threshold looks like a forward gap
  (`Signal.cpp:84`), is applied over newer targets and moves the expected number
  back (set `Lag = 2` in `SignalGate.cfg` and `NeverRollsBack` fails);
  `README.md:283-284` promises "effectively exactly-once" without that bound;
* "consecutive cycles" (`Reconciliation.cpp:116`) are cycles that reached the
  instrument: after a halt and a re-arm the count of an instrument the halted scan
  skipped goes on, which is why `ActsOnPersistentDrift` counts comparisons;
* at its deadline a POV crosses all that is unfilled while the cancels it has just
  sent may lose to fills (`ExecutionAlgo.cpp:192`), so it can execute more than the
  parent; a TWAP leaves out what it is cancelling (`:121`), so it never does, and
  what the cancels return is not worked again; `WithinParent` leaves out the POV
  that crosses;
* a degraded POV leaves the deadline to the TWAP it holds (`:187-190`), which
  cancels its own children and not those the POV sent before; they work on past the
  end.  Quantity of theirs that comes back before the end is not given to the TWAP
  either (`:179`).  `DoneIsReported`, `DeadlineCancels` and `ParentEnds` leave the
  degraded POV out;
* `reorder_fill_before_ack` moves the first chunk to just before the ack
  (`SimulatedExchange.cpp:67`).  With several chunks and an ack slower than the last
  of them that makes the first chunk the last to arrive: the simulator ends the order
  at the chunk marked final, with quantity left, ignores the late one and never
  answers for it again, while the manager still works the order and books it (set
  `AckLatency = 3`, `FillLatency = 0`, `FillGap = 0` in `OmsSim.cfg` and
  `SameOpenOrders` fails).  No test configures that: the ones with chunks keep the
  default latencies, where it cannot happen.

### Fairness

* `OmsSim!FairSpec`: the driver keeps polling (`sim/main.cpp:36`) and time
  advances with it; the simulator delivers what is due.  Nothing is assumed of
  the strategy, of timeouts or of the connection.
* `RoutedVenues!FairSpec`: the timer calls `tick()`, time passes, strategies
  submit when a venue is tradeable, venues answer and their orders fill or end.
  Nothing is assumed about disconnects, timeouts or which answer comes.
* `SignalGate!FairSpec`: time passes.  Nothing is assumed of the producer or of
  the transport.
* `Reconciliation!FairSpec`: the reconcile timer fires.  Nothing is assumed of
  fills, reports, corrective orders, re-arming or the connection.
* `ExecutionAlgo!FairSpec`: the timer is called again after the end while the parent is
  not done (`sim/bench.cpp:99-106` sweeps the deadline again after polling), and a
  venue ends immediate-or-cancel orders and orders whose cancel reached it.
  Nothing is assumed of fills, of other orders or of a cancel that failed.
* `Netting!FairSpec`: cycles run, net orders fill.  Cycles overlap with working orders
  at most `MaxOverlaps` times, a bound: a caller that never waits for its orders never
  arrives.  `TargetsAreReached` is stated for behaviours in which orders are not
  cancelled over and over.

## 4. Proofs

`OrderManagerProofs` proves, for every capacity, grace window, set of venues,
instruments, requests and trades, and every event a venue could send:

| Theorem | Property |
|---|---|
| `Invariance` | `IndInv`, the inductive invariant |
| `TypeCorrect` | `TypeOK` |
| `PoolStaysWellFormed` | `FreeListIsComplement` |
| `NoSlotLost` | `SlotsAccountedFor` |
| `PendingIsRemainder` | `PendingIsOpenRemainder` |
| `NoOverfill` | `FillWithinOrder` |
| `ExcusesAreRaces` | `BenignRejectsAreRaces` |
| `CancelFlagsAgree` | `CancelFlagTracksStatus` |
| `NoStaleMatch` | `StaleIdsNeverMatch` |
| `PoolHasHeadroom` | `HeadroomKeepsTrading` |
| `TerminalOrdersAreFinal` | `TerminalIsFinal` |
| `ExposureMovesOnlyWithIntent` | `ExposureMovesWithIntent` |
| `ImplementsLedger` | `KeepsLedger` |

and of the other components, for every value of their constants:

| Theorem | Property |
|---|---|
| `VenueRunsManager`, `DriverRunsManager` (`OmsProofs`) | `SysSpec => Spec`, `DriverSpec => Spec`: with a venue or with the simulator the order manager runs as it does alone, so every theorem above holds there |
| `DriverKeepsLedger` (`OmsProofs`) | `KeepsLedger`, of the manager with the simulator |
| `SimInvariance` (`OmsProofs`) | `SimInv`, the inductive invariant of the manager with the simulator |
| `PositionsNeverDrift`, `OpenOrdersAgree` (`OmsProofs`) | `NoDrift`, `SameOpenOrders` |
| `SysInvariance` (`OmsProofs`) | `SysInv`, the inductive invariant of the manager with a venue |
| `BooksSettle`, `NeverAhead`, `LostRacesAreBenign` (`OmsProofs`) | `SettledBooksAgree`, `NeverAheadOfVenue`, `LostRacesStayBenign` |
| `HealthTypeCorrect`, `IncidentsCountedOnce`, `ProbesFollowTheDwell`, `OrdersGoToHealthiest` (`RoutedVenuesProofs`) | `HealthTypeOK`, `UnresolvedIsOneIncident`, `FullDwellBeforeProbing`, `RoutedToHealthiest` |
| `GateTypeCorrect`, `TargetsNeverRollBack` (`SignalGateProofs`) | `GateTypeOK`, `NeverRollsBack` |
| `NettingTypeCorrect`, `GlobalIsSum`, `SharesProRata` (`NettingProofs`) | `NettingTypeOK`, `GlobalIsSumOfParts`, `SharesAreProRata` |
| `ReconTypeCorrect`, `OnlyPersistentDriftActed` (`ReconciliationProofs`) | `ReconTypeOK`, `ActsOnPersistentDrift` |
| `AlgoInvariance` (`ExecutionAlgoProofs`) | `IndInv` of the algorithms, which the next five rest on |
| `EventsReachTheirBook`, `ParentIsNotExceeded`, `DoneMeansReported`, `DeadlineLeavesNoChild`, `LastSliceLeavesNothing` (`ExecutionAlgoProofs`) | `BooksFollowOrders`, `WithinParent`, `DoneIsReported`, `DeadlineCancels`, `LastSliceSendsTheRest` |

Assumptions.  The named assumptions on constants are the types of the
configuration (`PoolAssumption`, `ManagerAssumption`, `HealthAssumption`,
`GateAssumption`, ...), and that the sets a sum runs over are finite: venues and
strategies.  Some theorems rest on more.  `NoWrap` is assumed by those
of the order manager: `MaxReuse + 1 < GenMod`, no slot is recycled so often that its
generation wraps.  Without it `NoStaleMatch` is false: an id kept
through 65536 reuses of one slot becomes current again.  Those of `OmsProofs`
assume besides `Wired` or `SimWired`, that the venue is one of the manager's and that any
number may be a trade id, a quantity or a price of a fill (a run bounds all three); `BooksSettle` and
`LostRacesAreBenign` assume `~Reorder`, without which both are false: the first is
what `FillAfterCancelAck` shows.  Those of the simulator assume `InjectsNoFill`, that
the fills a test injects are not counted among the simulator's, and the agreement of
the two sides rests on `LastChunkIsLast`, that a first chunk moved before the ack is
not due after the last one; what happens without it is among the disagreements
above.  Those of the execution
algorithms assume `OwnIndex`: the worker index of the algorithm is not the one of
orders no algorithm sent, so the dispatcher does not hand it the fills of others.

The argument.  The properties are not inductive alone.  That a late event cannot
touch a recycled slot needs that every id ever issued names either the current
owner of its slot or an *earlier* generation (`IssuedOK`), which needs the
generations bounded (`GenerationsOK`).  That a release frees the right slot needs
that the retired FIFO has no repetition and shares nothing with the live index
(`Indexed`, `FifoOK`).  `Indexed` is stated with an extra set, `mid`, of the orders
a handler has already made terminal but not yet retired, so that `retire()` can
be reasoned about as a step from a state inside a handler
(`RetireKeepsBooks`).  Handlers fall in three kinds, each with one lemma: those
that leave order and index alone (`FrameKeepsInv`), those that rework an open
order in place (`ReworkKeepsInv`), and those that end an order
(`FinishKeepsInv`).  `submit()` is the fourth (`AcquireKeepsBooks`).  The two
action properties follow from `IndInv` and one case per action.  What the pool owes
them is that `acquire()` and `release()` keep the free list the exact complement of
the allocated slots (`AcquireKeepsWellFormed`, `ReleaseKeepsWellFormed`).

The refinement of the ledger maps the live index, with what each order has left,
the trades booked for it, the ids issued and the positions to the ledger's four
variables.  Each action is then a ledger step (open, book, close) or leaves all four
alone; that an id is fresh when it is opened and a trade new when it is booked is
`IndInv`.  `CancelFlagsAgree` adds to `IndInv` what the flag and the status of every
record say of each other (`FlagsOK`).  `PoolHasHeadroom` needs nothing more: it
counts the slots in use, each of which belongs to a live order or to the retired
FIFO, and the FIFO is no longer than the grace window between two calls.
`PendingIsRemainder` uses the ledger: the pending quantity is the sum over its open
orders (`Balanced`), and each of its steps adds, takes out or lowers one term
(`OpenedOutstanding`, `ClosedOutstanding`, `ReducedOutstanding`).

The manager with a venue.  `SysInv` accounts for every executed unit: of an open order
the venue has executed what the manager booked plus what the fills on their way
carry (`Accounted`), and of an instrument the position plus what is on its way with
its sign (`Settled`).  A report counts as on its way until it is first delivered
(`Unheard`); that a second delivery does nothing is the dedup set, or an order that
is no longer open (`ReportOK`).  A fill then always fits its order
(`FillHeardFits`), so no fill the venue executed is refused while its order is
open.  In order, an order's end is behind all its fills (`EndsLast`), so nothing is
unheard when it ends (`EndIsTheLast`); with a report lost, only an upper bound is
left, which is enough for `NeverAhead`.  A cancel refused of an order that is still
open is refused of one that did not fill (`RefusedOfUnfilled`), since its fills came
before.  What the manager's handlers do is used through three predicates only: an
event moves nothing (`Unmoved`), books a fill (`Booked`) or ends an order (`Ended`).

The manager with the simulator.  Two books are kept of the same events, with a dedup
and a liveness of their own: the manager retires an order when it is filled to its
size, the simulator when the chunk marked final arrives or nothing is left.  That the
two coincide for an order that names a price needs to know the future.  `SimInv` says
of every such open order that both sides have the same rest and the same trades, and
of one without a price that the manager has booked nothing of it (`SameBook`), that the distinct trades
still scheduled of it, if any, add up to that rest (`CoversRest`), that two copies of a
trade say the same (`FillsAgree`), and that every other trade is delivered before the
final one is (`LastIsLast`).  So a trade that arrives fits, and the final one is all
there is left (`FinalIsTheRest`, `FreshTrade`).  When an order is placed, this is the
arithmetic of the chunks: trade numbers are consecutive from the first chunk that is
not empty, and the chunks sum to the size (`FillsAreChunks`, `FillsMakeUpOrder`).
A fill without a price changes the simulator alone (`UnpricedFillKeepsInv`), and what
it books is what `DroppedFills` sums (`DropsMove`, `DropsOfPlaced`).
The start of a poll shifts all times alike (`PollShifts`), what is delivered is the
soonest (`NextDueIsSoonest`), and every step without a fill only adds events to the
queue that carry no quantity (`QuietStepsAreQuiet`).  That the ordering is needed is not
an artefact: without `LastChunkIsLast` the invariant fails on placing an order.

Sums and loops.  `SumFunctionOnSet` is a fold that takes elements in an order only
`CHOOSE` knows, and the loops of the router, of the slices and of the remainders
are recursive functions.  The induction theorems of the library take an operator;
here induction is over a *set* of good subsets or good numbers
(`SubsetInduction`, `ElementInduction`, `NumberInduction`), which is first-order.
`SumTheorems` then shows that the order does not matter, and how a sum changes
when one term does.  For a recursive function a proof first shows that its table
exists (`ScanExists`, `TableExists`, `LastExists`), then reasons entry by entry.

The breaker.  The invariant says of each record that its windows fit
(`GoodVenue`), that the unresolved count is right (`OneIncident`), and that a Down
venue was never credited with more dwell than it was clean for (`Dwelling`).
`EvaluateStep` is the core: one `evaluate()` keeps all three, changes nothing
`assess()` reads, and leaves Down only at the end of a dwell.  Every handler is an
evaluation of a record whose state and dwell are untouched (`Input`), a refused
submission is two.  The router's choice after `k` venues is the first of most weight
among the tradeable ones of these (`IsBest`), which one turn of the scan keeps
(`ScanTurn`); only a submission makes the unanswered orders of a venue more.

The gate.  For `NeverRollsBack` the expected number must be tied to history: it is
the successor of the last book applied, modulo `SeqModulo` (`StrategyInv`).  A book
`d` positions behind the last one applied is `SeqModulo - 1 - d` behind the
expected one (`OldBookIsBehind`, from the uniqueness of remainders), which the
gate drops if `d` is less than the miss threshold: hence
`ASSUME Lag < MissThreshold`, and what happens without it is among the
disagreements above.

The reconcilers.  A count never exceeds the comparisons in a row that had a reason
to differ (`Inv` of `ReconciliationProofs`), because with every venue connected
the two reconcilers compare the same sums.  Of the sums themselves only their type
is needed.

Netting.  The shares truncated toward zero leave a rest of the fill's sign smaller
than the number of strategies (`LeftoverBounds`), so at most one unit goes to each of
those with the largest remainders (`LeadingCount`: exactly as many strategies precede
the cut as units are left, because `Precedes` is a strict order, `TurnIsStrict`).
Hence the shares add up (`SharesAddUp`) and none is a unit off (`SharesAreClose`); that
attributing a fill keeps the global position the sum of its parts is then one
`SumPlus`.  A fill without contributions moves the global position and the history of
those alike.  Nothing in this depends on when cycles run.

The execution algorithms.  `Agree` says that the two books share no child and that
the open orders are theirs, with what is left of each.  `Bounds` is why no parent is
exceeded: a book sends only what it neither filled nor works (`Room`), and what a
POV hands to its TWAP it does not work itself.  Past the deadline a POV that crossed
is out of these bounds, as the disagreements above say.  Each call of the code is a
fact about books (`FireWorks`, `CrossGrows`, `TimerGrows`, `HeldGrows`, `OwnGrows`:
the book grew by children with the next numbers, within its room), and `OrdersFollow`
carries it to the open orders, whatever submission and cancel failed.

Every safety invariant and every refinement that a run checks is proved, and so is
every action property.  Only model-checked, because beyond this prover: liveness under fairness
(`OrdersEventuallyEnd`, `BadVenueGoesDown`, `SilenceIsNoticed`, `TargetsAreReached`,
`LastingDriftIsActedOn`, `ParentEnds`) and `ENABLED`.

## 5. Not modelled

* `Metrics`, `Logging`, `Clock`, `Detail.h`: output and helpers; nothing in the
  program reads them back, and time is an age in the models.
* `MarketData.h` (an interface), the factories of `ExchangeRegistry`, the binary
  codec of the signals, the bit packing of the order id, what the benchmark and the
  demo report, the tests.
* Reentrant listeners.  Subscribers are called before `retire()` in the handlers
  that end an order, so an order submitted from a callback sees the slot not yet
  freed; the model lets subscribers act after the handler.
* Restarts beyond positions: `Reconciliation` crashes and starts again, but that the
  ids of an OMS are minted again from generation zero, and the sequence numbers of a
  producer start over, is not modelled; what venues and transports make of them is
  documented nowhere.
* Prices, but for the guard that drops a fill without a positive one: cross prices,
  average price and slippage steer no decision of the models; whether an order fills is
  the venue's choice.
* The order path inside `ExecutionAlgo` and `Reconciliation` is reduced to open
  quantities and reports; `OmsSim` and `OmsVenue` show what the full one does.

## 6. What could come next

The components of the plan are modelled and their safety properties proved.  Worth
adding with time: the order manager composed with the health model through `calls`, so that the
reports it makes are the events the breaker sees; reentrant listeners; ids across a
restart.
