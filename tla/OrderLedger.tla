----------------------------- MODULE OrderLedger -----------------------------
(****************************************************************************)
(* What the order path promises a strategy, with no pool, ids that encode   *)
(* slots, statuses or events: an order is opened once under an id never     *)
(* used before; while it is open each trade moves the position of its       *)
(* instrument once, by at most what is left of it; once closed it never     *)
(* moves anything again.                                                    *)
(****************************************************************************)
EXTENDS Integers

CONSTANTS Id, Instrument, Trade, Size

VARIABLES open,      \* [id |-> instrument, side and quantity left] of open orders
          seen,      \* pairs <<id, trade>> booked for open orders
          used,      \* ids ever opened
          position   \* net executed quantity per instrument

vars == <<open, seen, used, position>>

Direction(side) == IF side = "Buy" THEN 1 ELSE -1

Contract == [inst : Instrument, side : {"Buy", "Sell"}, left : Nat]

Init ==
  /\ open = [id \in {} |-> 0]
  /\ seen = {} /\ used = {}
  /\ position = [i \in Instrument |-> 0]

Without(id) == [x \in DOMAIN open \ {id} |-> open[x]]
SeenWithout(id) == {p \in seen : p[1] # id}

OpenOrder(id, inst, side, size) ==
  /\ id \notin used /\ used' = used \cup {id}
  /\ UNCHANGED <<seen, position>>
  /\ id \notin DOMAIN open
  /\ open' = [x \in DOMAIN open \cup {id} |->
                IF x = id THEN [inst |-> inst, side |-> side, left |-> size]
                ELSE open[x]]

Book(id, trade, qty) ==
  /\ UNCHANGED used
  /\ id \in DOMAIN open
  /\ <<id, trade>> \notin seen
  /\ 0 < qty /\ qty <= open[id].left
  /\ position' = [position EXCEPT ![open[id].inst] =
                    @ + Direction(open[id].side) * qty]
  /\ IF qty = open[id].left
     THEN open' = Without(id) /\ seen' = SeenWithout(id)
     ELSE /\ open' = [open EXCEPT ![id].left = @ - qty]
          /\ seen' = seen \cup {<<id, trade>>}

Close(id) ==
  /\ UNCHANGED <<used, position>>
  /\ id \in DOMAIN open
  /\ open' = Without(id) /\ seen' = SeenWithout(id)

Next ==
  \/ \E id \in Id, inst \in Instrument, side \in {"Buy", "Sell"}, n \in Size :
       OpenOrder(id, inst, side, n)
  \/ \E id \in DOMAIN open : 
       \/ Close(id)
       \/ \E trade \in Trade, qty \in 1 .. open[id].left : Book(id, trade, qty)

Spec == Init /\ [][Next]_vars
=============================================================================
