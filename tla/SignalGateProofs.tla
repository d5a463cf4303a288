-------------------------- MODULE SignalGateProofs --------------------------
(****************************************************************************)
(* The gate against any number of strategies, books and wraps of the        *)
(* sequence number: targets never roll back if the transport delivers no    *)
(* book further behind than the miss threshold tells from a gap.            *)
(****************************************************************************)
EXTENDS SignalGate, TLAPS

(* What the gate knows of strategy s and what has reached it. *)
StrategyInv(s) ==
  /\ transit[s] \subseteq Books
  /\ arrived[s] \in Int /\ applied[s] \in Int /\ None <= applied[s] /\ applied[s] <= arrived[s]
  /\ producers[s].expected \in 0 .. SeqModulo - 1
  /\ IF producers[s].seen THEN /\ applied[s] >= 0
                               /\ producers[s].expected = (applied[s] + 1) % SeqModulo
     ELSE applied[s] = None
  /\ Lag < MissThreshold => ~regressed[s]

Inv ==
  /\ producers \in [Strategies -> Producer]
  /\ published \in [Strategies -> Nat]
  /\ DOMAIN transit = Strategies /\ DOMAIN arrived = Strategies
  /\ DOMAIN applied = Strategies /\ DOMAIN regressed = Strategies
  /\ trading \in BOOLEAN
  /\ \A s \in Strategies : StrategyInv(s)

-----------------------------------------------------------------------------
(* A remainder is what is left of any multiple. *)
LEMMA Remainder ==
  ASSUME NEW m \in Nat \ {0}, NEW q \in Int, NEW k \in 0 .. m - 1
  PROVE  (m * q + k) % m = k
<1> DEFINE n == m * q + k
           p == n \div m
           r == n % m
<1>1. n \in Int /\ p \in Int /\ r \in 0 .. m - 1 /\ n = m * p + r OBVIOUS
<1> HIDE DEF p, r
<1>2. m * (p - q) = k - r BY <1>1
<1>3. ASSUME p - q >= 1 PROVE FALSE
  <2>1. m * (p - q) >= m BY <1>1, <1>3
  <2> QED BY <1>1, <1>2, <2>1
<1>4. ASSUME q - p >= 1 PROVE FALSE
  <2>1. m * (q - p) >= m BY <1>1, <1>4
  <2>2. m * (q - p) = r - k BY <1>1, <1>2
  <2> QED BY <1>1, <2>1, <2>2
<1>5. p = q BY <1>1, <1>3, <1>4
<1>6. r = k BY <1>1, <1>2, <1>5
<1> QED BY <1>6 DEF r

(* A book d positions behind the last one applied is SeqModulo - d - 1      *)
(* behind the expected one, wherever the sequence number has wrapped.       *)
LEMMA OldBookIsBehind ==
  ASSUME NEW book, NEW p, NEW last \in Nat, NEW d \in 0 .. SeqModulo - 1,
         book.sequence = last - d, p.expected = (last + 1) % SeqModulo
  PROVE  Behind(book, p) = SeqModulo - 1 - d
<1> DEFINE m == SeqModulo
           q == (last + 1) \div m
           e == (last + 1) % m
<1>1. m \in Nat \ {0} BY GateAssumption
<1>2. q \in Int /\ e \in 0 .. m - 1 /\ last + 1 = m * q + e BY <1>1
<1> HIDE DEF q, e
<1>3. book.sequence + m - p.expected = m * q + (m - 1 - d) BY <1>1, <1>2 DEF e
<1>4. m - 1 - d \in 0 .. m - 1 BY <1>1
<1>5. (m * q + (m - 1 - d)) % m = m - 1 - d BY <1>1, <1>2, <1>4, Remainder
<1> QED BY <1>3, <1>5 DEF Behind

(* Of the books a transport within the threshold delivers, the gate accepts *)
(* only one newer than the last it applied.                                 *)
LEMMA AcceptedIsNewer ==
  ASSUME Lag < MissThreshold, NEW s \in Strategies, StrategyInv(s), NEW book \in transit[s],
         book.sequence + Lag >= arrived[s], Accepts(Verdict(book, producers[s]))
  PROVE  book.sequence > applied[s]
<1>1. /\ book.sequence \in Nat /\ arrived[s] \in Int /\ applied[s] \in Int /\ applied[s] <= arrived[s]
      /\ SeqModulo \in Nat \ {0} /\ MissThreshold \in 0 .. SeqModulo - 1 /\ Lag \in Nat
  BY GateAssumption DEF StrategyInv, Books
<1>2. CASE ~producers[s].seen BY <1>1, <1>2 DEF StrategyInv, None
<1>3. CASE producers[s].seen
  <2> SUFFICES ASSUME ~(book.sequence > applied[s]) PROVE FALSE OBVIOUS
  <2> DEFINE d == applied[s] - book.sequence
  <2>1. d \in 0 .. SeqModulo - 1 /\ d < MissThreshold /\ applied[s] \in Nat BY <1>1
  <2>2. producers[s].expected = (applied[s] + 1) % SeqModulo BY <1>3 DEF StrategyInv
  <2>3. book.sequence = applied[s] - d BY <1>1
  <2> HIDE DEF d
  <2>4. Behind(book, producers[s]) = SeqModulo - 1 - d
    BY <2>1, <2>2, <2>3, OldBookIsBehind
  <2>5. Behind(book, producers[s]) # 0 /\ Behind(book, producers[s]) >= SeqModulo - MissThreshold
    BY <1>1, <2>1, <2>4
  <2> QED BY <1>3, <2>5 DEF Accepts, Verdict
<1> QED BY <1>2, <1>3

-----------------------------------------------------------------------------
(* Nothing has been seen at the start. *)
LEMMA InitInv == Init => Inv
<1> SUFFICES ASSUME Init PROVE Inv OBVIOUS
<1>1. 0 \in 0 .. SeqModulo - 1 /\ 0 \in 0 .. HbDeadline + 1 BY GateAssumption
<1>2. [expected |-> 0, seen |-> FALSE, quiet |-> 0] \in Producer BY <1>1 DEF Producer
<1>3. producers \in [Strategies -> Producer] BY <1>2 DEF Init
<1>4. ASSUME NEW s \in Strategies PROVE StrategyInv(s)
  <2>1. /\ transit[s] = {} /\ arrived[s] = -1 /\ applied[s] = -1
        /\ producers[s] = [expected |-> 0, seen |-> FALSE, quiet |-> 0]
    BY DEF Init, None
  <2>2. ~regressed[s] BY Zenon DEF Init
  <2>3. /\ producers[s].expected \in 0 .. SeqModulo - 1 /\ producers[s].seen = FALSE
    BY <1>1, <2>1
  <2> QED BY <2>1, <2>2, <2>3 DEF StrategyInv, None
<1> QED BY <1>3, <1>4 DEF Init, Inv

(* A published book is of the right type. *)
LEMMA PublishKeepsInv ==
  ASSUME Inv, NEW s \in Strategies, Publish(s) PROVE Inv'
<1>1. PICK absurd \in BOOLEAN :
        transit' = [transit EXCEPT ![s] =
          @ \cup {[sequence |-> published[s], age |-> 0, absurd |-> absurd]}]
  BY DEF Publish
<1>2. [sequence |-> published[s], age |-> 0, absurd |-> absurd] \in Books
  BY GateAssumption DEF Inv, Books
<1>3. ASSUME NEW t \in Strategies PROVE transit'[t] \subseteq Books
  BY <1>1, <1>2 DEF Inv, StrategyInv
<1>4. published' \in [Strategies -> Nat] BY DEF Inv, Publish
<1> QED BY <1>1, <1>3, <1>4 DEF Inv, StrategyInv, Publish, history

(* The one step that applies books: an accepted one moves the expected      *)
(* number to its successor, a refused one changes nothing the gate knows.   *)
LEMMA DeliverKeepsInv ==
  ASSUME Inv, NEW s \in Strategies, NEW book \in transit[s], Deliver(s, book)
  PROVE  Inv'
<1>1. /\ StrategyInv(s) /\ book.sequence + Lag >= arrived[s] /\ Check(s, book)
      /\ book.sequence \in Nat /\ arrived[s] \in Int
  BY DEF Inv, StrategyInv, Books, Deliver
<1>2. DOMAIN transit' = Strategies /\ \A t \in Strategies : transit'[t] \subseteq Books
  BY DEF Deliver, Inv, StrategyInv
<1>3. /\ DOMAIN arrived' = Strategies
      /\ \A t \in Strategies :
           arrived'[t] = IF t = s /\ book.sequence > arrived[s] THEN book.sequence ELSE arrived[t]
  BY DEF Deliver, Inv
<1>4. CASE Accepts(Verdict(book, producers[s]))
  <2> DEFINE p == [expected |-> (book.sequence + 1) % SeqModulo, seen |-> TRUE, quiet |-> 0]
  <2>1. Lag < MissThreshold => book.sequence > applied[s]
    BY <1>1, <1>4, AcceptedIsNewer DEF Deliver
  <2>2. /\ producers' = [producers EXCEPT ![s] = p]
        /\ applied' = [applied EXCEPT ![s] = book.sequence]
        /\ regressed' = [regressed EXCEPT ![s] = @ \/ book.sequence <= applied[s]]
    BY <1>1, <1>4 DEF Check
  <2>3. (book.sequence + 1) % SeqModulo \in 0 .. SeqModulo - 1
    BY <1>1, GateAssumption
  <2>4. p \in Producer BY <2>3, GateAssumption DEF Producer
  <2>5. ASSUME NEW t \in Strategies PROVE StrategyInv(t)'
    <3>1. CASE t # s
      BY <1>2, <1>3, <2>2, <3>1 DEF Inv, StrategyInv
    <3>2. CASE t = s
      <4>1. producers'[s] = p /\ applied'[s] = book.sequence BY <2>2 DEF Inv
      <4>2. ASSUME Lag < MissThreshold PROVE ~regressed'[s]
        <5>1. ~(book.sequence <= applied[s]) /\ ~regressed[s]
          BY <1>1, <2>1, <4>2 DEF StrategyInv
        <5>2. regressed'[s] = (regressed[s] \/ book.sequence <= applied[s])
          BY <2>2, Zenon DEF Inv
        <5> QED BY <5>1, <5>2, Zenon
      <4>3. /\ arrived'[s] \in Int /\ book.sequence <= arrived'[s] BY <1>1, <1>3
      <4> QED BY <1>1, <1>2, <2>3, <3>2, <4>1, <4>2, <4>3 DEF StrategyInv, None
    <3> QED BY <3>1, <3>2
  <2> HIDE DEF p
  <2>6. producers' \in [Strategies -> Producer] BY <2>2, <2>4 DEF Inv
  <2> QED BY <1>2, <1>3, <2>2, <2>5, <2>6 DEF Inv, Deliver, Check
<1>5. CASE ~Accepts(Verdict(book, producers[s]))
  <2>1. producers' = producers /\ applied' = applied /\ regressed' = regressed
    BY <1>1, <1>5 DEF Check, history
  <2>2. ASSUME NEW t \in Strategies PROVE StrategyInv(t)'
    BY <1>1, <1>2, <1>3, <2>1 DEF Inv, StrategyInv
  <2> QED BY <1>2, <1>3, <2>1, <2>2 DEF Inv, Deliver, Check
<1> QED BY <1>4, <1>5

(* Time only ages. *)
LEMMA ElapseKeepsInv ==
  ASSUME Inv, Elapse PROVE Inv'
<1>1. MaxAge \in Nat /\ HbDeadline \in Nat BY GateAssumption
<1>2. ASSUME NEW t \in Strategies
      PROVE  /\ transit'[t] \subseteq Books
             /\ producers'[t] \in Producer
             /\ producers'[t].expected = producers[t].expected
             /\ producers'[t].seen = producers[t].seen
  <2>1. producers[t] \in Producer /\ transit[t] \subseteq Books BY DEF Inv, StrategyInv
  <2>2. /\ producers'[t] = [producers[t] EXCEPT !.quiet = Older(@, HbDeadline + 1)]
        /\ transit'[t] = {[book EXCEPT !.age = Older(@, MaxAge + 1)] : book \in transit[t]}
    BY DEF Elapse
  <2>3. ASSUME NEW book \in Books PROVE [book EXCEPT !.age = Older(@, MaxAge + 1)] \in Books
    <3>1. Older(book.age, MaxAge + 1) \in 0 .. MaxAge + 1 BY <1>1 DEF Books, Older
    <3> QED BY <3>1 DEF Books
  <2>4. Older(producers[t].quiet, HbDeadline + 1) \in 0 .. HbDeadline + 1
    BY <1>1, <2>1 DEF Producer, Older
  <2>5. /\ producers'[t] \in Producer /\ producers'[t].expected = producers[t].expected
        /\ producers'[t].seen = producers[t].seen
    BY <2>1, <2>2, <2>4 DEF Producer
  <2> QED BY <2>1, <2>2, <2>3, <2>5
<1>3. ASSUME NEW t \in Strategies PROVE StrategyInv(t)'
  BY <1>2 DEF Inv, StrategyInv, Elapse, history
<1>4. producers' \in [Strategies -> Producer] /\ DOMAIN transit' = Strategies
  BY <1>2 DEF Elapse
<1> QED BY <1>3, <1>4 DEF Inv, Elapse, history

(* Every step keeps the invariant. *)
LEMMA NextKeepsInv ==
  ASSUME Inv, [Next]_vars PROVE Inv'
<1>1. CASE UNCHANGED vars BY <1>1 DEF vars, history, Inv, StrategyInv
<1>2. ASSUME NEW on \in BOOLEAN, EnableTrading(on) PROVE Inv'
  BY <1>2 DEF EnableTrading, history, Inv, StrategyInv
<1>3. ASSUME NEW s \in Strategies, Publish(s) PROVE Inv' BY <1>3, PublishKeepsInv
<1>4. ASSUME NEW s \in Strategies, NEW book \in transit[s], Deliver(s, book) PROVE Inv'
  BY <1>4, DeliverKeepsInv
<1>5. ASSUME NEW s \in Strategies, NEW book \in transit[s], Lose(s, book) PROVE Inv'
  BY <1>5 DEF Lose, history, Inv, StrategyInv
<1>6. CASE Elapse BY <1>6, ElapseKeepsInv
<1> QED BY <1>1, <1>2, <1>3, <1>4, <1>5, <1>6 DEF Next

(* The gate's state stays within its ranges across every wrap (check()).    *)
THEOREM GateTypeCorrect == Spec => []GateTypeOK
<1>1. Inv => GateTypeOK BY DEF Inv, StrategyInv, GateTypeOK
<1>2. Inv /\ [Next]_vars => Inv' BY NextKeepsInv
<1> QED BY <1>1, <1>2, InitInv, PTL DEF Spec

(* check() applies no book twice and none after a newer one, as long as no  *)
(* book arrives miss_threshold or more positions behind the newest.         *)
THEOREM TargetsNeverRollBack ==
  ASSUME Lag < MissThreshold PROVE Spec => []NeverRollsBack
<1>1. Inv => NeverRollsBack BY DEF Inv, StrategyInv, NeverRollsBack
<1>2. Inv /\ [Next]_vars => Inv' BY NextKeepsInv
<1> QED BY <1>1, <1>2, InitInv, PTL DEF Spec
=============================================================================
