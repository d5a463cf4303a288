------------------------ MODULE ReconciliationProofs ------------------------
(****************************************************************************)
(* What the periodic reconciler promises whatever the venues, the           *)
(* thresholds and the number of instruments: it acts on no drift that has   *)
(* not lasted.                                                              *)
(****************************************************************************)
EXTENDS Reconciliation, SequenceTheorems, SumTheorems

(* The count of a drift is never more than the comparisons in a row that    *)
(* had a reason to differ.                                                  *)
Inv ==
  /\ persist \in [Instruments -> Nat] /\ streak \in [Instruments -> Nat]
  /\ \A i \in Instruments : persist[i] <= streak[i]

(* With every venue connected, the two reconcilers compare the same sums.   *)
LEMMA ReasonForDrift ==
  ASSUME NEW i \in Instruments, NoReason(i) PROVE InSync(i)
BY DEF NoReason, InSync, Drift, Exchange

(* One cycle, for an instrument it compares and for one it does not.        *)
LEMMA ComparedOnce ==
  ASSUME Inv, Cycle, NEW i \in Instruments
  PROVE  /\ persist'[i] \in Nat /\ streak'[i] \in Nat /\ persist'[i] <= streak'[i]
         /\ i \in Scanned /\ Due(i) => streak'[i] >= PersistCycles
<1>1. PersistCycles \in Nat /\ Threshold \in Nat
  BY ReconciliationAssumption DEF ReconciliationAssumption
<1>2. persist[i] \in Nat /\ streak[i] \in Nat /\ persist[i] <= streak[i]
  BY DEF Inv
<1>3. PICK listed \in SUBSET Instruments :
        /\ Held(Connected, i) # 0 \/ booked[i] # 0 => i \in listed
        /\ persist'[i] = IF i \in Scanned \cap listed THEN Persisted(i) ELSE persist[i]
        /\ streak'[i] = IF i \notin Scanned \cap listed THEN streak[i]
                        ELSE IF NoReason(i) THEN 0 ELSE Min({streak[i] + 1, PersistCycles})
  BY DEF Cycle
<1>4. CASE i \notin Scanned \cap listed
  <2>1. CASE i \in listed BY <1>2, <1>3, <1>4, <2>1
  <2>2. CASE i \notin listed
    <3>1. Held(Connected, i) = 0 /\ booked[i] = 0 BY <1>3, <2>2
    <3>2. Magnitude(Drift(i)) = 0 BY <3>1 DEF Drift, Magnitude
    <3>3. ~Due(i) BY <1>1, <3>2 DEF Due, InSync
    <3> QED BY <1>2, <1>3, <1>4, <3>3
  <2> QED BY <2>1, <2>2
<1>5. CASE i \in Scanned \cap listed /\ NoReason(i)
  <2>1. InSync(i) /\ ~Due(i) BY <1>5, ReasonForDrift DEF Due
  <2> QED BY <1>3, <1>5, <2>1 DEF Persisted
<1>6. CASE i \in Scanned \cap listed /\ ~NoReason(i)
  <2> DEFINE m == Min({streak[i] + 1, PersistCycles})
  <2>1. m \in {streak[i] + 1, PersistCycles}
    <3>1. streak[i] + 1 \in Int /\ PersistCycles \in Int BY <1>1, <1>2
    <3> QED BY <3>1, MinOfTwo
  <2> HIDE DEF m
  <2>2. streak'[i] = m BY <1>3, <1>6 DEF m
  <2>3. persist'[i] = IF InSync(i) \/ Due(i) THEN 0 ELSE persist[i] + 1
    BY <1>3, <1>6 DEF Persisted
  <2>4. CASE InSync(i) BY <1>1, <1>2, <2>1, <2>2, <2>3, <2>4 DEF Due
  <2>5. CASE ~InSync(i) /\ Due(i)
    BY <1>1, <1>2, <2>1, <2>2, <2>3, <2>5 DEF Due
  <2>6. CASE ~InSync(i) /\ ~Due(i)
    BY <1>1, <1>2, <2>1, <2>2, <2>3, <2>6 DEF Due
  <2> QED BY <2>4, <2>5, <2>6
<1> QED BY <1>4, <1>5, <1>6

LEMMA CycleKeepsInv ==
  ASSUME Inv, Cycle PROVE Inv'
<1>1. ASSUME NEW i \in Instruments
      PROVE  persist'[i] \in Nat /\ streak'[i] \in Nat /\ persist'[i] <= streak'[i]
  BY ComparedOnce
<1>2. DOMAIN persist' = Instruments /\ DOMAIN streak' = Instruments
  BY DEF Cycle
<1>3. /\ persist' = [i \in Instruments |-> persist'[i]]
      /\ streak' = [i \in Instruments |-> streak'[i]]
  BY DEF Cycle
<1> QED BY <1>1, <1>2, <1>3 DEF Inv

(* Of all steps only a cycle counts, and a crash forgets. *)
LEMMA StepKeepsInv ==
  ASSUME Inv, [Next]_vars PROVE Inv'
<1>1. CASE Cycle BY <1>1, CycleKeepsInv
<1>2. CASE Crash BY <1>2 DEF Inv, Crash, Nothing
<1>3. CASE persist' = persist /\ streak' = streak BY <1>3 DEF Inv
<1>4. Cycle \/ Crash \/ (persist' = persist /\ streak' = streak)
  <2>1. CASE UNCHANGED vars BY <2>1 DEF vars, processVars
  <2>2. ASSUME NEW local, Fetch \/ Startup(local) PROVE persist' = persist /\ streak' = streak
    BY <2>2 DEF Fetch, Startup, processVars
  <2>3. CASE Rearm BY <2>3 DEF Rearm
  <2>4. ASSUME NEW v \in Venues, SetConnected(v) PROVE persist' = persist /\ streak' = streak
    BY <2>4 DEF SetConnected, processVars
  <2>5. ASSUME NEW v \in Venues, NEW i \in Instruments,
               CorrectiveFill(v, i) \/ \E qty \in Quantities : StrategyFill(v, i, qty)
        PROVE  persist' = persist /\ streak' = streak
    BY <2>5 DEF CorrectiveFill, StrategyFill, Execution
  <2>6. ASSUME NEW i \in Instruments, CorrectiveEnds(i)
        PROVE  persist' = persist /\ streak' = streak
    BY <2>6 DEF CorrectiveEnds
  <2>7. ASSUME NEW k, Report(k) \/ LoseReport(k) PROVE persist' = persist /\ streak' = streak
    BY <2>7 DEF Report, LoseReport, processVars
  <2> QED BY <2>1, <2>2, <2>3, <2>4, <2>5, <2>6, <2>7 DEF Next
<1> QED BY <1>1, <1>2, <1>3, <1>4

(* Nothing is counted before the first cycle. *)
LEMMA InitInv == Init => Inv
BY DEF Init, Inv, Nothing

(* reconcile() corrects or halts only on a drift that it met, with a reason *)
(* outside the program, in persist_cycles comparisons in a row: a fill in   *)
(* flight or a venue out of touch that is back in time is never acted on.   *)
THEOREM OnlyPersistentDriftActed == Spec => ActsOnPersistentDrift
<1>1. ASSUME Inv, [Next]_vars
      PROVE  [Cycle => \A i \in Scanned : Due(i) => streak'[i] >= PersistCycles]_vars
  <2>1. Scanned \subseteq Instruments BY DEF Scanned
  <2> QED BY <1>1, <2>1, ComparedOnce
<1>2. Inv /\ [Next]_vars => Inv' BY StepKeepsInv
<1> QED BY <1>1, <1>2, InitInv, PTL DEF Spec, ActsOnPersistentDrift

-----------------------------------------------------------------------------
(* Type correctness: what the venues hold is a whole number, since they are *)
(* finitely many, so all the books that are set from it stay whole.         *)

FillType == [venue : Venues, inst : Instruments, qty : Int]

TypeInv ==
  /\ ReconTypeOK
  /\ executed \in [Venues -> [Instruments -> Int]]

LEMMA HeldIsInt ==
  ASSUME TypeInv, NEW V \in SUBSET Venues, NEW i \in Instruments
  PROVE  Held(V, i) \in Int
<1> DEFINE f == [v \in V |-> executed[v][i]]
<1>1. IsFiniteSet(V)
  BY ReconciliationAssumption, FS_Subset DEF ReconciliationAssumption
<1>2. \A v \in V : f[v] \in Int BY DEF TypeInv
<1>3. Held(V, i) = SumFunctionOnSet(f, V) BY DEF Held, SumFunction
<1> HIDE DEF f
<1> QED BY <1>1, <1>2, <1>3, SumInt

(* A report that leaves the queue leaves the others. *)
LEMMA RemovedOne ==
  ASSUME NEW S, NEW q \in Seq(S), NEW k \in DOMAIN q PROVE RemoveAt(q, k) \in Seq(S)
<1>1. Len(q) \in Nat /\ DOMAIN q = 1 .. Len(q) /\ k \in 1 .. Len(q) BY ElementOfSeq
<1>2. SubSeq(q, 1, k - 1) \in Seq(S) BY <1>1, SubSeqProperties
<1>3. SubSeq(q, k + 1, Len(q)) \in Seq(S) BY <1>1, SubSeqProperties
<1> QED BY <1>2, <1>3, ConcatProperties DEF RemoveAt

(* A venue executes; its report joins the queue. *)
LEMMA ExecutionKeepsTypes ==
  ASSUME TypeInv, NEW v \in Venues, NEW i \in Instruments, NEW qty \in Int,
         Execution(v, i, qty), corrective' \in [Instruments -> Int]
  PROVE  TypeInv'
<1>1. executed' \in [Venues -> [Instruments -> Int]]
  BY DEF Execution, TypeInv
<1>2. reports \in Seq(FillType) BY DEF TypeInv, ReconTypeOK, FillType
<1>3. [venue |-> v, inst |-> i, qty |-> qty] \in FillType BY DEF FillType
<1>4. reports' \in Seq(FillType) BY <1>2, <1>3, AppendProperties DEF Execution
<1> QED BY <1>1, <1>4 DEF Execution, TypeInv, ReconTypeOK, FillType

LEMMA StepKeepsTypes ==
  ASSUME TypeInv, [Next]_vars PROVE TypeInv'
<1>0. PersistCycles \in Nat /\ Quantities \subseteq Int
  BY ReconciliationAssumption DEF ReconciliationAssumption
<1>1. ASSUME NEW local, Startup(local) PROVE TypeInv'
  <2>1. booked' \in [Instruments -> Int] /\ observed' = NoState
    BY <1>1 DEF Startup, CanStart, TypeInv, ReconTypeOK
  <2> QED BY <1>1, <2>1 DEF Startup, TypeInv, ReconTypeOK
<1>2. CASE Cycle
  <2>1. ASSUME NEW i \in Instruments
        PROVE  /\ persist'[i] \in Nat /\ (persist'[i] = 0 \/ persist'[i] < PersistCycles)
               /\ corrective'[i] \in Int
    <3>1. persist[i] \in Nat /\ (persist[i] = 0 \/ persist[i] < PersistCycles)
      BY DEF TypeInv, ReconTypeOK
    <3>2. persist'[i] \in {0, persist[i], Persisted(i)}
      BY <1>2 DEF Cycle
    <3>3. Persisted(i) = 0 \/ (Persisted(i) = persist[i] + 1 /\ Persisted(i) < PersistCycles)
      BY <1>0, <3>1 DEF Persisted, Due
    <3>4. Drift(i) \in Int
      <4>1. Held(Connected, i) \in Int BY HeldIsInt DEF Connected
      <4>2. booked[i] \in Int BY DEF TypeInv, ReconTypeOK
      <4> QED BY <4>1, <4>2 DEF Drift
    <3>5. corrective'[i] \in {Drift(i), corrective[i]} /\ corrective[i] \in Int
      BY <1>2 DEF Cycle, TypeInv, ReconTypeOK
    <3> QED BY <3>1, <3>2, <3>3, <3>4, <3>5
  <2>2. /\ persist' = [i \in Instruments |-> persist'[i]]
        /\ corrective' = [i \in Instruments |-> corrective'[i]]
    BY <1>2 DEF Cycle
  <2>3. persist' \in [Instruments -> Nat] /\ corrective' \in [Instruments -> Int]
    BY <2>1, <2>2
  <2> QED BY <1>2, <2>1, <2>3 DEF Cycle, TypeInv, ReconTypeOK
<1>3. CASE Rearm BY <1>3 DEF Rearm, TypeInv, ReconTypeOK
<1>4. CASE Crash
  <2>1. Nothing \in [Instruments -> Int] /\ Nothing \in [Instruments -> Nat]
        /\ \A i \in Instruments : Nothing[i] = 0
    BY DEF Nothing
  <2>2. reports' \in Seq(FillType) BY <1>4 DEF Crash
  <2> QED BY <1>4, <2>1, <2>2 DEF Crash, TypeInv, ReconTypeOK, FillType
<1>5. ASSUME NEW v \in Venues, SetConnected(v) PROVE TypeInv'
  BY <1>5 DEF SetConnected, processVars, TypeInv, ReconTypeOK
<1>6. ASSUME NEW v \in Venues, NEW i \in Instruments, CorrectiveFill(v, i) PROVE TypeInv'
  <2>1. corrective[i] \in Int /\ corrective' \in [Instruments -> Int]
    BY <1>6 DEF CorrectiveFill, TypeInv, ReconTypeOK
  <2> QED BY <1>6, <2>1, ExecutionKeepsTypes DEF CorrectiveFill
<1>7. ASSUME NEW v \in Venues, NEW i \in Instruments, NEW qty \in Quantities,
             StrategyFill(v, i, qty)
      PROVE  TypeInv'
  <2>1. corrective' \in [Instruments -> Int]
    BY <1>7 DEF StrategyFill, TypeInv, ReconTypeOK
  <2> QED BY <1>0, <1>7, <2>1, ExecutionKeepsTypes DEF StrategyFill
<1>8. ASSUME NEW i \in Instruments, CorrectiveEnds(i) PROVE TypeInv'
  BY <1>8 DEF CorrectiveEnds, TypeInv, ReconTypeOK
<1>9. ASSUME NEW k \in DOMAIN reports, Report(k) \/ LoseReport(k) PROVE TypeInv'
  <2>1. reports \in Seq(FillType) BY DEF TypeInv, ReconTypeOK, FillType
  <2>2. reports' \in Seq(FillType) BY <1>9, <2>1, RemovedOne DEF Report, LoseReport
  <2>3. reports[k] \in FillType BY <2>1, ElementOfSeq
  <2>4. reports[k].inst \in Instruments /\ reports[k].qty \in Int BY <2>3 DEF FillType
  <2>5. booked \in [Instruments -> Int] BY DEF TypeInv, ReconTypeOK
  <2>6. booked' \in [Instruments -> Int]
    <3>1. CASE Report(k)
      <4>1. booked' = [booked EXCEPT ![reports[k].inst] = @ + reports[k].qty]
        BY <3>1 DEF Report
      <4> QED BY <2>4, <2>5, <4>1
    <3>2. CASE LoseReport(k) BY <2>5, <3>2 DEF LoseReport
    <3> QED BY <1>9, <3>1, <3>2
  <2>7. UNCHANGED <<executed, connected, observed, processVars>> BY <1>9 DEF Report, LoseReport
  <2> QED BY <2>2, <2>6, <2>7 DEF processVars, TypeInv, ReconTypeOK, FillType
<1>10. CASE Fetch
  <2>1. \A i \in Instruments : Exchange(i) \in Int BY HeldIsInt DEF Exchange
  <2>2. observed' \in [Instruments -> Int] BY <1>10, <2>1 DEF Fetch
  <2> QED BY <1>10, <2>2 DEF Fetch, processVars, TypeInv, ReconTypeOK
<1>11. CASE UNCHANGED vars BY <1>11 DEF vars, processVars, TypeInv, ReconTypeOK
<1> QED BY <1>1, <1>2, <1>3, <1>4, <1>5, <1>6, <1>7, <1>8, <1>9, <1>10, <1>11 DEF Next

(* The books, the queue of reports and the drift counters keep their types  *)
(* through crashes, lost reports and corrections, and no drift is counted   *)
(* up to persist_cycles: the cycle that would reach it acts.                *)
THEOREM ReconTypeCorrect == Spec => []ReconTypeOK
<1>1. Init => TypeInv
  <2> SUFFICES ASSUME Init PROVE TypeInv OBVIOUS
  <2>1. Nothing \in [Instruments -> Int] /\ Nothing \in [Instruments -> Nat]
        /\ \A i \in Instruments : Nothing[i] = 0
    BY DEF Nothing
  <2>2. reports \in Seq(FillType) BY DEF Init
  <2> QED BY <2>1, <2>2 DEF Init, TypeInv, ReconTypeOK, FillType
<1>2. TypeInv /\ [Next]_vars => TypeInv' BY StepKeepsTypes
<1>3. TypeInv => ReconTypeOK BY DEF TypeInv
<1> QED BY <1>1, <1>2, <1>3, PTL DEF Spec
=============================================================================
