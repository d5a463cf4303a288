----------------------------- MODULE SignalGate -----------------------------
(****************************************************************************)
(* The signal gate (src/Signal.cpp) between a transport that may lose,      *)
(* duplicate, delay and reorder target books and the strategies that act on *)
(* them.  A book carries the position in which its producer published it    *)
(* (its sequence number), its age, and whether a target is absurd; the      *)
(* targets themselves do not steer the gate.  Ages replace timestamps and   *)
(* stop growing past the threshold they are compared with.                  *)
(****************************************************************************)
EXTENDS Integers, FiniteSets

CONSTANTS Strategies,
          MaxAge,          \* max_signal_age, in ticks
          SeqModulo,       \* seq_modulo
          MissThreshold,   \* miss_threshold
          HbDeadline,      \* hb_interval * hb_threshold, in ticks
          Lag,             \* how far behind a newer book one may arrive
          MaxInFlight,     \* bound: books in the transport, per strategy
          MaxPublished     \* bound: books a strategy publishes

ASSUME GateAssumption ==
  /\ MaxAge \in Nat /\ SeqModulo \in Nat \ {0} /\ HbDeadline \in Nat
  /\ MissThreshold \in 0 .. SeqModulo - 1
  /\ Lag \in Nat /\ MaxInFlight \in Nat /\ MaxPublished \in Nat

VARIABLES trading,     \* trading_enabled_
          producers,   \* producers_: what the gate knows of each strategy
          published,   \* books published so far, per strategy
          transit,     \* books in the transport, per strategy
          arrived,     \* newest book that has arrived, per strategy
          applied,     \* history: the last book applied, per strategy
          regressed    \* history: whether one was applied that was not newer

history == <<applied, regressed>>
vars == <<trading, producers, published, transit, arrived, history>>

Producer == [expected : 0 .. SeqModulo - 1, seen : BOOLEAN,
             quiet : 0 .. HbDeadline + 1]     \* now - last_accept

Books == [sequence : Nat, age : 0 .. MaxAge + 1, absurd : BOOLEAN]

None == -1

-----------------------------------------------------------------------------
(* check(): the four tests in order. *)

Behind(book, p) == (book.sequence + SeqModulo - p.expected) % SeqModulo

(* Mutant: one book too few is taken for a duplicate. *)
VerdictOffByOne(book, p) ==
  IF ~trading THEN "RejectDNT"
  ELSE IF book.absurd THEN "RejectAbsurd"
  ELSE IF book.age > MaxAge THEN "RejectAge"
  ELSE IF p.seen /\ Behind(book, p) > SeqModulo - MissThreshold THEN "DuplicateDropped"
  ELSE "Accept"

Verdict(book, p) ==
  IF ~trading THEN "RejectDNT"
  ELSE IF book.absurd THEN "RejectAbsurd"
  ELSE IF book.age > MaxAge THEN "RejectAge"
  ELSE IF ~p.seen \/ Behind(book, p) = 0 THEN "Accept"
  ELSE IF Behind(book, p) >= SeqModulo - MissThreshold THEN "DuplicateDropped"
  ELSE "GapAcceptedLogged"

Accepts(verdict) == verdict \in {"Accept", "GapAcceptedLogged"}

(* Mutants: the expected number does not wrap; a dropped book counts as a   *)
(* sign of life.                                                            *)
CheckUnwrapped(s, book) ==
  /\ producers' = IF Accepts(Verdict(book, producers[s]))
                  THEN [producers EXCEPT ![s] =
                          [expected |-> book.sequence + 1, seen |-> TRUE, quiet |-> 0]]
                  ELSE producers
  /\ UNCHANGED <<trading, history>>
CheckAlways(s, book) ==
  /\ producers' = IF Accepts(Verdict(book, producers[s]))
                  THEN [producers EXCEPT ![s] =
                          [expected |-> (book.sequence + 1) % SeqModulo,
                           seen |-> TRUE, quiet |-> 0]]
                  ELSE [producers EXCEPT ![s].quiet = 0]
  /\ UNCHANGED <<trading, history>>

(* The caller applies the targets of an accepted book (signal_demo.cpp). *)
Check(s, book) ==
  /\ IF Accepts(Verdict(book, producers[s]))
     THEN /\ producers' = [producers EXCEPT ![s] =
                [expected |-> (book.sequence + 1) % SeqModulo, seen |-> TRUE, quiet |-> 0]]
          /\ applied' = [applied EXCEPT ![s] = book.sequence]
          /\ regressed' = [regressed EXCEPT ![s] = @ \/ book.sequence <= applied[s]]
     ELSE UNCHANGED <<producers, history>>
  /\ UNCHANGED trading

-----------------------------------------------------------------------------
(* heartbeat_alive() *)
HeartbeatAlive(s) == producers[s].seen /\ producers[s].quiet <= HbDeadline

(* enable_trading(): startup reconciliation clears the gate. *)
EnableTrading(on) ==
  /\ trading' = on
  /\ UNCHANGED <<producers, published, transit, arrived, history>>

(* SignalProducer::produce_cycle: sequence numbers are consecutive. *)
Publish(s) ==
  /\ published[s] < MaxPublished /\ Cardinality(transit[s]) < MaxInFlight
  /\ \E absurd \in BOOLEAN :
       transit' = [transit EXCEPT ![s] =
         @ \cup {[sequence |-> published[s], age |-> 0, absurd |-> absurd]}]
  /\ published' = [published EXCEPT ![s] = @ + 1]
  /\ UNCHANGED <<trading, producers, arrived, history>>

(* The transport hands over any book that is not too far behind, and may    *)
(* keep a copy to hand over again.                                          *)
Deliver(s, book) ==
  /\ book \in transit[s] /\ book.sequence + Lag >= arrived[s]
  /\ Check(s, book)
  /\ arrived' = [arrived EXCEPT ![s] = IF book.sequence > @ THEN book.sequence ELSE @]
  /\ transit' \in {transit, [transit EXCEPT ![s] = @ \ {book}]}
  /\ UNCHANGED published

Lose(s, book) ==
  /\ book \in transit[s]
  /\ transit' = [transit EXCEPT ![s] = @ \ {book}]
  /\ UNCHANGED <<trading, producers, published, arrived, history>>

Older(age, limit) == IF age < limit THEN age + 1 ELSE age

Elapse ==
  /\ transit' = [s \in Strategies |->
       {[book EXCEPT !.age = Older(@, MaxAge + 1)] : book \in transit[s]}]
  /\ producers' = [s \in Strategies |->
       [producers[s] EXCEPT !.quiet = Older(@, HbDeadline + 1)]]
  /\ UNCHANGED <<trading, published, arrived, history>>

Init ==
  /\ trading = FALSE
  /\ producers = [s \in Strategies |-> [expected |-> 0, seen |-> FALSE, quiet |-> 0]]
  /\ published = [s \in Strategies |-> 0]
  /\ transit = [s \in Strategies |-> {}]
  /\ arrived = [s \in Strategies |-> None]
  /\ applied = [s \in Strategies |-> None]
  /\ regressed = [s \in Strategies |-> FALSE]

Next ==
  \/ \E on \in BOOLEAN : EnableTrading(on)
  \/ \E s \in Strategies :
       \/ Publish(s)
       \/ \E book \in transit[s] : Deliver(s, book) \/ Lose(s, book)
  \/ Elapse

Spec == Init /\ [][Next]_vars

(* Time passes. *)
FairSpec == Spec /\ WF_vars(Elapse)

-----------------------------------------------------------------------------
(* Type correctness of the gate and of the transport. *)
GateTypeOK ==
  /\ trading \in BOOLEAN
  /\ producers \in [Strategies -> Producer]
  /\ \A s \in Strategies : transit[s] \subseteq Books

(* Targets never roll back: a book is applied at most once, and none after  *)
(* a newer one, across the wrap of the sequence number ("at-least-once and  *)
(* may reorder or duplicate; the gate makes it effectively exactly-once").  *)
NeverRollsBack == \A s \in Strategies : ~regressed[s]

(* A producer that stopped publishing is presumed dead in the end, however  *)
(* often the transport hands over the books it left behind                  *)
(* (heartbeat_alive()).                                                     *)
SilenceIsNoticed == \A s \in Strategies : <>[]~HeartbeatAlive(s)
=============================================================================
