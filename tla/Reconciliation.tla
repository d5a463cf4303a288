--------------------------- MODULE Reconciliation ---------------------------
(****************************************************************************)
(* The two reconcilers (src/Reconciliation.cpp) around the order path.  The *)
(* startup one decides whether a process may trade and which positions it   *)
(* adopts; the periodic one compares, on its own timer, what the connected  *)
(* venues hold with what the order manager booked, waits for a drift to     *)
(* persist, and corrects it by an order or halts.  Meanwhile fills are on   *)
(* their way or lost, venues are cut off, and the process crashes.  The     *)
(* order path is reduced to the quantities that are compared.  Writing the  *)
(* position snapshot and asking the venues at a start is the application's  *)
(* (README.md:288): whichever snapshot a start finds, stale or damaged, is  *)
(* an input, and what the venues answered may be out of date.               *)
(****************************************************************************)
EXTENDS Integers, Sequences, FiniteSetsExt, SequencesExt

CONSTANTS Venues,
          Instruments,      \* instrument numbers, in the order of the scan
          Threshold,        \* reconcile_threshold
          AutoHealBand,     \* auto_heal_band
          PersistCycles,    \* persist_cycles
          StartupHeal,      \* startup_auto_heal_threshold
          Snapshots,        \* position snapshots a start may find
          Quantities,       \* signed quantities of the strategies' fills
          MayDisconnect,    \* whether venues can be cut off
          MayCrash,         \* whether the process can crash
          MaxPosition,      \* bound: quantity a venue holds of an instrument
          MaxReports,       \* bound: fills on their way
          MaxLost           \* bound: quantity of the reports lost

ASSUME ReconciliationAssumption ==
  /\ IsFiniteSet(Venues) /\ Instruments \subseteq Nat /\ Quantities \subseteq Int
  /\ {Threshold, AutoHealBand, PersistCycles, StartupHeal} \subseteq Nat
  /\ {MaxPosition, MaxReports, MaxLost} \subseteq Nat
  /\ {MayDisconnect, MayCrash} \subseteq BOOLEAN

VARIABLES executed,    \* get_positions() of each venue
          booked,      \* positions_[i].net of the order manager
          reports,     \* fills on their way to the order manager
          connected,   \* is_connected() of each venue
          trading,     \* startup reconciliation let the process trade
          observed,    \* the venues' positions that a start has asked for
          corrective,  \* signed quantity of a corrective order still open
          persist,     \* persist_
          halted,      \* halted_
          streak       \* history: comparisons in a row with a reason to differ

processVars == <<trading, persist, halted, corrective, streak>>
vars == <<executed, booked, reports, connected, observed, processVars>>

NoState == <<>>
Nothing == [i \in Instruments |-> 0]

Magnitude(n) == IF n < 0 THEN -n ELSE n

Held(V, i) == SumFunction([v \in V |-> executed[v][i]])
Connected == {v \in Venues : connected[v]}

-----------------------------------------------------------------------------
(* StartupReconciler::reconcile() *)

Exchange(i) == Held(Venues, i)

(* The application asks all venues for their positions. *)
Fetch ==
  /\ ~trading /\ Connected = Venues
  /\ observed' = [i \in Instruments |-> Exchange(i)]
  /\ UNCHANGED <<executed, booked, reports, connected, processVars>>

HardStop(local, i) ==
  local # NoState /\ Magnitude(local[i] - observed[i]) > StartupHeal

CanStart(local) == observed # NoState /\ \A i \in Instruments : ~HardStop(local, i)

(* Without a snapshot, with one that matches and with one that is close,    *)
(* the positions to start from are the venues', as they were asked for.     *)
Startup(local) ==
  /\ ~trading /\ CanStart(local) /\ trading' = TRUE
  /\ booked' = observed /\ observed' = NoState
  /\ UNCHANGED <<executed, reports, connected, persist, halted, corrective, streak>>

-----------------------------------------------------------------------------
(* PeriodicReconciler::reconcile() *)

Drift(i)  == Held(Connected, i) - booked[i]
InSync(i) == Magnitude(Drift(i)) <= Threshold

(* The drift has now been seen in enough cycles. *)
Due(i) == ~InSync(i) /\ persist[i] + 1 >= PersistCycles
Halting(i) == Due(i) /\ Magnitude(Drift(i)) > AutoHealBand

(* Mutant: the scan stops at the first drift. *)
ScannedToDrift == {i \in Instruments : \A j \in Instruments : ~InSync(j) => i <= j}

(* The scan stops at the first instrument that halts. *)
Scanned == {i \in Instruments : \A j \in Instruments : Halting(j) => i <= j}
Corrected == {i \in Scanned : Due(i) /\ ~Halting(i)}

(* Mutants: a drift that ended still counts; the count is kept after acting. *)
PersistedOnceSeen(i) == IF Due(i) THEN 0
                        ELSE IF InSync(i) THEN persist[i] ELSE persist[i] + 1
PersistedForEver(i) == IF InSync(i) THEN 0 ELSE persist[i] + 1

Persisted(i) == IF InSync(i) \/ Due(i) THEN 0 ELSE persist[i] + 1

(* Outside the program nothing explains a drift: every fill of the venues,  *)
(* none of which is cut off, was reported.                                  *)
NoReason(i) == Connected = Venues /\ Magnitude(Exchange(i) - booked[i]) <= Threshold

(* Compared is what a venue reports or the manager tracks, "listed": both   *)
(* may or may not list an instrument without a position.  submit() takes    *)
(* the corrective orders in "taken"; it refuses the others (every venue     *)
(* down, kill switch), and the reconciler does not look.                    *)
Cycle == \E listed \in SUBSET Instruments, taken \in SUBSET Corrected :
  /\ trading /\ ~halted
  /\ \A i \in Instruments : Held(Connected, i) # 0 \/ booked[i] # 0 => i \in listed
  /\ persist' = [i \in Instruments |->
                   IF i \in Scanned \cap listed THEN Persisted(i) ELSE persist[i]]
  /\ halted' = \E i \in Instruments : Halting(i)
  /\ corrective' = [i \in Instruments |-> IF i \in taken THEN Drift(i) ELSE corrective[i]]
  /\ streak' = [i \in Instruments |->
                  IF i \notin Scanned \cap listed THEN streak[i]
                  ELSE IF NoReason(i) THEN 0 ELSE Min({streak[i] + 1, PersistCycles})]
  /\ UNCHANGED <<executed, booked, reports, connected, observed, trading>>

Rearm ==
  /\ halted /\ halted' = FALSE
  /\ UNCHANGED <<executed, booked, reports, connected, observed, trading,
                 persist, corrective, streak>>

-----------------------------------------------------------------------------
(* The order path.  An order of a dead process may still fill; its report   *)
(* finds no order.                                                          *)

Execution(v, i, qty) ==
  /\ Magnitude(executed[v][i] + qty) <= MaxPosition
  /\ executed' = [executed EXCEPT ![v][i] = @ + qty]
  /\ Len(reports) < MaxReports
  /\ reports' = IF trading THEN Append(reports, [venue |-> v, inst |-> i, qty |-> qty])
                ELSE reports
  /\ UNCHANGED <<booked, connected, observed, trading, persist, halted, streak>>

StrategyFill(v, i, qty) == Execution(v, i, qty) /\ UNCHANGED corrective

CorrectiveFill(v, i) ==
  /\ corrective[i] # 0 /\ connected[v]
  /\ Execution(v, i, corrective[i])
  /\ corrective' = [corrective EXCEPT ![i] = 0]

(* A corrective order is an IOC: what does not fill at once ends. *)
CorrectiveEnds(i) ==
  /\ corrective[i] # 0 /\ corrective' = [corrective EXCEPT ![i] = 0]
  /\ UNCHANGED <<executed, booked, reports, connected, observed,
                 trading, persist, halted, streak>>

(* The manager books a fill of any order, a corrective one too (on_fill).   *)
Report(k) ==
  /\ connected[reports[k].venue]
  /\ booked' = [booked EXCEPT ![reports[k].inst] = @ + reports[k].qty]
  /\ reports' = RemoveAt(reports, k)
  /\ UNCHANGED <<executed, connected, observed, processVars>>

(* What the manager will never hear of. *)
Gap(i) == Exchange(i) - booked[i]
            - FoldSeq(LAMBDA r, n : IF r.inst = i THEN n + r.qty ELSE n, 0, reports)

LoseReport(k) ==
  /\ Magnitude(Gap(reports[k].inst) + reports[k].qty) <= MaxLost
  /\ reports' = RemoveAt(reports, k)
  /\ UNCHANGED <<executed, booked, connected, observed, processVars>>

SetConnected(v) ==
  /\ MayDisconnect
  /\ connected' = [connected EXCEPT ![v] = ~@]
  /\ UNCHANGED <<executed, booked, reports, observed, processVars>>

-----------------------------------------------------------------------------
(* The process. *)

Crash ==
  /\ MayCrash /\ trading /\ trading' = FALSE /\ halted' = FALSE
  /\ booked' = Nothing /\ reports' = <<>>
  /\ persist' = Nothing /\ corrective' = Nothing /\ streak' = Nothing
  /\ UNCHANGED <<executed, connected, observed>>

Init ==
  /\ trading = FALSE /\ halted = FALSE /\ observed = NoState
  /\ booked = Nothing /\ reports = <<>>
  /\ persist = Nothing /\ corrective = Nothing /\ streak = Nothing
  /\ executed = [v \in Venues |-> Nothing] /\ connected = [v \in Venues |-> TRUE]

Next ==
  \/ Fetch \/ \E local \in Snapshots \cup {NoState} : Startup(local)
  \/ Cycle \/ Rearm \/ Crash
  \/ \E v \in Venues :
       \/ SetConnected(v)
       \/ \E i \in Instruments :
            CorrectiveFill(v, i) \/ \E qty \in Quantities : StrategyFill(v, i, qty)
  \/ \E i \in Instruments : CorrectiveEnds(i)
  \/ \E k \in DOMAIN reports : Report(k) \/ LoseReport(k)

Spec == Init /\ [][Next]_vars

(* The reconcile timer fires. *)
FairSpec == Spec /\ WF_vars(Cycle)

-----------------------------------------------------------------------------
(* Type correctness of the books and of the reconciler. *)
ReconTypeOK ==
  /\ booked \in [Instruments -> Int] /\ observed \in [Instruments -> Int] \cup {NoState}
  /\ reports \in Seq([venue : Venues, inst : Instruments, qty : Int])
  /\ persist \in [Instruments -> Nat] /\ corrective \in [Instruments -> Int]
  /\ \A i \in Instruments : persist[i] = 0 \/ persist[i] < PersistCycles
  /\ trading \in BOOLEAN /\ halted \in BOOLEAN

(* The reconciler never acts without a reason outside the program, and only *)
(* on one it met in PersistCycles comparisons in a row: matching books, and *)
(* a skew that ends in time, are never chased (reconcile).                  *)
ActsOnPersistentDrift ==
  [][Cycle => \A i \in Scanned : Due(i) => streak'[i] >= PersistCycles]_vars

(* A drift that stays is corrected or halts the system, again and again     *)
(* while it stays and the process runs: a lost fill, and what was executed  *)
(* between the answers of the venues and the start.                         *)
LastingDriftIsActedOn ==
  \A i \in Instruments :
    <>[](trading /\ ~InSync(i)) => []<>halted \/ []<><<Cycle /\ i \in Corrected>>_vars

(* A corrective order is "to move the OMS position toward exchange truth"   *)
(* (src/Reconciliation.cpp:132): when fills were lost, its own fill leaves  *)
(* less of the venues' position unknown to the manager than there was.      *)
CorrectionNarrowsGap ==
  [][\A v \in Venues, i \in Instruments :
       CorrectiveFill(v, i) /\ Gap(i) # 0 => Magnitude(Gap(i)') < Magnitude(Gap(i))]_vars
=============================================================================
