----------------------------- MODULE OmsProofs -----------------------------
(****************************************************************************)
(* The order manager and the other side of its orders, for any number of    *)
(* orders, trades and reports in flight.  With a venue whose reports travel *)
(* (OmsVenue), what the manager books is what the venue executed: every     *)
(* executed trade is in exactly one of two places, the manager's books or a *)
(* report the manager has not heard yet.  With the simulator (OmsSim), both *)
(* sides book a trade when it is delivered, and agree after every delivery: *)
(* what is scheduled of an order makes up what is left of it.               *)
(****************************************************************************)
EXTENDS OmsVenue, OmsSim, OrderManagerProofs

(* The venue is one of the manager's, and reports any trade, quantity and   *)
(* price.                                                                   *)
Wired == /\ VenueNo \in Venues
         /\ Nat \subseteq Trades /\ Nat \subseteq Quantities /\ Nat \subseteq Prices

-----------------------------------------------------------------------------
(* What a step of the manager does to the orders, as the venue sees it. *)

Same(o, r) == r.id = o.id /\ r.inst = o.inst /\ r.side = o.side /\ r.size = o.size
              /\ r.filled = o.filled

(* No open order moves; a slot that is free or freed may be reused. *)
Unmoved ==
  /\ UNCHANGED <<live, trades, issued, position>>
  /\ \A s \in Slots : Same(orders[s], orders'[s]) \/ orders'[s].filled = 0
  /\ \A id \in live : Same(orders[id.slot], orders'[id.slot])

(* An order ends and keeps what was filled of it. *)
Ended(id) ==
  /\ id \in live /\ live' = live \ {id} /\ trades' = {t \in trades : t[1] # id}
  /\ UNCHANGED <<issued, position>>
  /\ \A s \in Slots : Same(orders[s], orders'[s])

(* A trade is booked: the order goes on with the rest, or is complete. *)
Booked(id, qty, trade) ==
  LET o == orders[id.slot]
      r == orders'[id.slot]
  IN /\ r.id = o.id /\ r.inst = o.inst /\ r.side = o.side /\ r.size = o.size
     /\ r.filled = o.filled + qty
     /\ \A s \in Slots \ {id.slot} : orders'[s] = orders[s]
     /\ position' = [position EXCEPT ![o.inst] = @ + Signed(o.side, qty)]
     /\ UNCHANGED issued
     /\ \/ /\ live' = live /\ trades' = trades \cup {<<id, trade>>}
           /\ r.filled # r.size
        \/ /\ live' = live \ {id} /\ trades' = {t \in trades : t[1] # id}
           /\ r.filled = r.size

(* The ids open at the manager are those that pass validate(). *)
LEMMA LiveIsOpen ==
  ASSUME IndInv, NEW id \in issued
  PROVE  Open(id) <=> id \in live
<1>1. id \in live => Open(id)
  BY DEF IndInv, Indexed, Owns, Open, Known, OrderOf
<1> QED BY <1>1, OpenIsLive

(* What an open order is. *)
LEMMA LiveIs ==
  ASSUME IndInv, NEW id \in live
  PROVE  /\ id \in Ids /\ id.slot \in Slots /\ orders[id.slot] \in OrderType
         /\ orders[id.slot].id = id /\ id.slot \in pool.allocated
         /\ orders[id.slot].filled <= orders[id.slot].size
<1>1. /\ id \in Ids /\ id.slot \in Slots /\ orders[id.slot] \in OrderType
  BY DEF IndInv, TypeOK, Ids
<1>2. orders[id.slot].id = id /\ id.slot \in pool.allocated
  BY DEF IndInv, Indexed, Owns, IsCurrent
<1> QED BY <1>1, <1>2 DEF IndInv, FillWithinOrder

(* A handler that changes neither id, terms nor fill of any order. *)
LEMMA SameIsUnmoved ==
  ASSUME IndInv, UNCHANGED <<live, trades, issued, position>>,
         \A s \in Slots : Same(orders[s], orders'[s])
  PROVE  Unmoved
BY LiveIs DEF Unmoved

(* An order rewritten with its terms and its fill. *)
LEMMA UpdateIsSame ==
  ASSUME IndInv, NEW id \in Ids, NEW r, Update(id, r), Same(OrderOf(id), r)
  PROVE  \A s \in Slots : Same(orders[s], orders'[s])
BY DEF IndInv, TypeOK, Update, OrderOf, Same

(* An event that is dropped moves nothing. *)
LEMMA DropIsUnmoved == ASSUME IndInv, UNCHANGED <<index, orders, books, ids>> PROVE Unmoved
BY SameIsUnmoved DEF index, books, ids, Same

(* An event that ends an open order. *)
LEMMA FinishIsEnd ==
  ASSUME IndInv, NEW id \in issued, Open(id), NEW r, Finish(id, r), Same(OrderOf(id), r)
  PROVE  Ended(id)
<1>1. id \in live /\ id \in Ids BY OpenIsLive
<1>2. /\ Update(id, r) /\ live' = live \ {id} /\ trades' = {t \in trades : t[1] # id}
      /\ UNCHANGED <<issued, position>>
  BY DEF Finish, Retire, ids
<1> QED BY <1>1, <1>2, UpdateIsSame DEF Ended

(* A place reject, a cancel-ack and an unsolicited cancel end the order if  *)
(* it is open, and do nothing else.                                         *)
LEMMA EndsMove ==
  ASSUME IndInv, NEW id \in issued,
         OnReject(id) \/ OnCancelAck(id) \/ OnUnsolicitedCancel(id)
  PROVE  IF id \in live THEN Ended(id) ELSE Unmoved
<1> DEFINE o == OrderOf(id)
           x == [o EXCEPT !.status = "Rejected"]
           y == [o EXCEPT !.pendingCancel = FALSE, !.status = "Cancelled"]
<1>1. CASE ~Open(id)
  <2>1. Drop BY <1>1 DEF OnReject, OnCancelAck, OnUnsolicitedCancel, FinishCancel
  <2> QED BY <1>1, <2>1, LiveIsOpen, DropIsUnmoved DEF Drop
<1>2. CASE Open(id)
  <2>1. o \in OrderType BY <1>2, OpenIsLive
  <2>2. Same(o, x) /\ Same(o, y) BY <2>1 DEF OrderType, Same
  <2>3. Finish(id, x) \/ Finish(id, y)
    BY <1>2 DEF OnReject, OnCancelAck, OnUnsolicitedCancel, FinishCancel
  <2> HIDE DEF x, y
  <2> QED BY <1>2, <2>2, <2>3, LiveIsOpen, FinishIsEnd
<1> QED BY <1>1, <1>2

(* A confirm and a cancel-reject move nothing. *)
LEMMA OthersMoveNothing ==
  ASSUME IndInv, NEW id \in issued, OnConfirm(id) \/ OnCancelReject(id) \/ Cancel(id)
  PROVE  Unmoved
<1> DEFINE o == OrderOf(id)
           a == IF o.status \in {"New", "Sent"} THEN "Confirmed" ELSE o.status
           b == IF o.filled > 0 THEN "PartiallyFilled" ELSE "Confirmed"
           x == [o EXCEPT !.status = a]
           y == [o EXCEPT !.pendingCancel = FALSE, !.status = b]
           z == [o EXCEPT !.pendingCancel = TRUE, !.status = "SentCancel"]
<1>1. \/ UNCHANGED <<live, trades, orders, books, ids>>
      \/ /\ Open(id) /\ UNCHANGED <<index, books, ids>>
         /\ Update(id, x) \/ Update(id, y) \/ Update(id, z)
  BY DEF OnConfirm, OnCancelReject, Cancel, Drop, index
<1>2. CASE UNCHANGED <<live, trades, orders, books, ids>>
  BY <1>2, SameIsUnmoved DEF books, ids, Same
<1>3. CASE /\ Open(id) /\ UNCHANGED <<index, books, ids>>
           /\ Update(id, x) \/ Update(id, y) \/ Update(id, z)
  <2>1. o \in OrderType /\ id \in Ids BY <1>3, OpenIsLive
  <2>2. Same(o, x) /\ Same(o, y) /\ Same(o, z) BY <2>1 DEF OrderType, Same
  <2>3. UNCHANGED <<live, trades, issued, position>> BY <1>3 DEF index, books, ids
  <2> HIDE DEF x, y, z
  <2> QED BY <1>3, <2>1, <2>2, <2>3, UpdateIsSame, SameIsUnmoved
<1> QED BY <1>1, <1>2, <1>3

(* A fill is booked if validate() passes it, and moves nothing otherwise. *)
LEMMA FillMoves ==
  ASSUME IndInv, NEW id \in issued, NEW qty \in Nat, NEW price, NEW trade,
         OnFill(id, qty, price, trade)
  PROVE  IF FillOk(id, qty, price, trade) THEN Booked(id, qty, trade) ELSE Unmoved
<1> DEFINE o  == OrderOf(id)
           st == IF o.filled + qty = o.size THEN "Filled" ELSE "PartiallyFilled"
           r  == [o EXCEPT !.filled = @ + qty, !.status = st]
<1>1. CASE ~FillOk(id, qty, price, trade)
  <2>1. UNCHANGED <<index, orders, books, ids>>
    BY <1>1 DEF OnFill, ApplyFill, UnknownFill, Drop
  <2> QED BY <1>1, <2>1, DropIsUnmoved
<1>2. CASE FillOk(id, qty, price, trade)
  <2>1. ApplyFill(id, qty, price, trade)
    BY <1>2 DEF OnFill, UnknownFill, FillOk, Open
  <2>2. id \in live /\ id.slot \in Slots /\ o \in OrderType /\ OrderOf(id).id = id
    BY <1>2, OpenIsLive DEF FillOk
  <2>3. /\ Update(id, r) /\ UNCHANGED issued
        /\ position' = [position EXCEPT ![o.inst] = @ + Signed(o.side, qty)]
    BY <2>1 DEF ApplyFill, ids
  <2>4. orders'[id.slot] = r /\ \A s \in Slots \ {id.slot} : orders'[s] = orders[s]
    BY <2>2, <2>3 DEF Update, IndInv, TypeOK
  <2>5. /\ r.id = o.id /\ r.inst = o.inst /\ r.side = o.side /\ r.size = o.size
        /\ r.filled = o.filled + qty
    BY <2>2 DEF OrderType
  <2>6. \/ /\ live' = live /\ trades' = trades \cup {<<id, trade>>}
           /\ o.filled + qty # o.size
        \/ /\ live' = live \ {id} /\ trades' = {t \in trades : t[1] # id}
           /\ o.filled + qty = o.size
    BY <2>1 DEF ApplyFill, Retire
  <2> HIDE DEF r
  <2> QED BY <1>2, <2>3, <2>4, <2>5, <2>6 DEF Booked, OrderOf
<1> QED BY <1>1, <1>2

(* Calls of the strategy and the timers move nothing, but for a submit that *)
(* is sent.                                                                 *)
LEMMA CallsMoveNothing ==
  ASSUME NoWrap, IndInv,
         \/ \E v \in Venues, req \in Requests : SubmitRejectedLocally(v, req)
         \/ SubmitExhausted
         \/ \E up \in SUBSET Venues : SubmitAllDown(up)
         \/ \E overdue \in SUBSET AwaitingAck, up \in SUBSET Venues :
              CheckAckTimeouts(overdue, up)
         \/ ResetRebalanceCycle \/ ClearReconcileRequest
  PROVE  Unmoved
<1>1. orders \in [Slots -> OrderType] /\ \A x \in live : x.slot \in Slots
  BY DEF IndInv, TypeOK, Ids
<1>2. ASSUME NEW v \in Venues, NEW req \in Requests, SubmitRejectedLocally(v, req)
      PROVE  Unmoved
  <2> DEFINE id == NewId(v)
  <2>1. /\ CanSubmit /\ WithinBounds(v) /\ Update(id, NewOrder(id, req, "Rejected"))
        /\ live' = live \ {id} /\ trades' = {t \in trades : t[1] # id}
        /\ UNCHANGED <<books, issued>>
    BY <1>2 DEF SubmitRejectedLocally, Retire
  <2>2. /\ id \notin live /\ id.slot \notin pool.allocated /\ id.slot \in Slots
        /\ orders'[id.slot] = NewOrder(id, req, "Rejected")
        /\ \A s \in Slots \ {id.slot} : orders'[s] = orders[s]
    BY <2>1, AcquireKeepsBooks, ManagerAssumption
  <2>3. live' = live /\ trades' = trades
    BY <2>1, <2>2 DEF IndInv
  <2>4. \A x \in live : x.slot \in Slots \ {id.slot}
    BY <2>2 DEF IndInv, TypeOK, Indexed, Owns, IsCurrent, PoolType
  <2>5. orders'[id.slot].filled = 0 BY <2>2 DEF NewOrder
  <2>6. UNCHANGED <<issued, position>> BY <2>1 DEF books
  <2> HIDE DEF id
  <2> QED BY <2>2, <2>3, <2>4, <2>5, <2>6 DEF Unmoved, Same
<1>3. ASSUME UNCHANGED <<index, orders, books, ids>> PROVE Unmoved
  BY <1>3, DropIsUnmoved
<1>4. ASSUME NEW up \in SUBSET Venues, SubmitAllDown(up) PROVE Unmoved
  <2>1. \A s \in Slots : Same(orders[s], orders'[s])
    BY <1>4, <1>1 DEF SubmitAllDown, MarkCancelled, Same, OrderType
  <2> QED BY <1>4, <2>1, SameIsUnmoved DEF SubmitAllDown, index, books, ids
<1>5. ASSUME NEW overdue \in SUBSET AwaitingAck, NEW up \in SUBSET Venues,
             CheckAckTimeouts(overdue, up)
      PROVE  Unmoved
  <2>1. ASSUME NEW s \in Slots PROVE Same(orders[s], orders'[s])
    <3>1. \/ orders'[s] = [orders[s] EXCEPT !.ackTimedOut = TRUE, !.pendingCancel = TRUE,
                                           !.status = "SentCancel"]
          \/ orders'[s] = [orders[s] EXCEPT !.ackTimedOut = TRUE]
          \/ orders'[s] = orders[s]
      BY <1>5 DEF CheckAckTimeouts
    <3> QED BY <1>1, <3>1 DEF Same, OrderType
  <2> QED BY <1>5, <2>1, SameIsUnmoved DEF CheckAckTimeouts, index, books, ids
<1> QED BY <1>2, <1>3, <1>4, <1>5
        DEF SubmitExhausted, ResetRebalanceCycle, ClearReconcileRequest

-----------------------------------------------------------------------------
(* Reports on their way. *)

(* The reports that end an order at the manager, and all that are sent of   *)
(* orders the venue is done with.                                           *)
EndKinds == {"Reject", "CancelAck", "Unsolicited"}
DeadKinds == EndKinds \cup {"CancelReject"}
ReportType == [type : DeadKinds \cup {"Confirm", "Fill"}, id : Ids,
               qty : Nat, price : {1}, trade : Nat, again : BOOLEAN]

(* The fills the manager has not heard of: not yet delivered a first time. *)
NewFill(r) == r.type = "Fill" /\ ~r.again
Unheard(q) == {r \in Elements(q) : NewFill(r)}

OneReportPerTrade(q) ==
  \A j, k \in DOMAIN q : NewFill(q[j]) /\ NewFill(q[k]) /\ q[j].trade = q[k].trade => j = k

(* The reports of an order's end are behind all its fills. *)
EndsLast(q) ==
  \A j, k \in DOMAIN q : j < k /\ q[j].type \in DeadKinds /\ q[j].id = q[k].id => ~NewFill(q[k])

(* There are finitely many reports. *)
LEMMA ReportsFinite ==
  ASSUME NEW q \in Seq(ReportType)
  PROVE  /\ IsFiniteSet(Elements(q)) /\ Elements(q) \subseteq ReportType
         /\ IsFiniteSet(Unheard(q)) /\ Unheard(q) \subseteq ReportType
<1>1. Len(q) \in Nat /\ DOMAIN q = 1 .. Len(q) OBVIOUS
<1>2. IsFiniteSet(1 .. Len(q)) BY <1>1, FS_Interval
<1> DEFINE f == [k \in 1 .. Len(q) |-> q[k]]
<1>3. f \in Surjection(1 .. Len(q), Elements(q)) BY <1>1 DEF Surjection, Elements
<1>4. IsFiniteSet(Elements(q)) BY <1>2, <1>3, FS_Surjection
<1>5. Elements(q) \subseteq ReportType BY <1>1 DEF Elements
<1>6. Unheard(q) \subseteq Elements(q) BY DEF Unheard
<1> QED BY <1>4, <1>5, <1>6, FS_Subset

(* One more report. *)
LEMMA ReportAdded ==
  ASSUME NEW q \in Seq(ReportType), NEW r \in ReportType
  PROVE  LET p == Append(q, r)
         IN  /\ p \in Seq(ReportType) /\ Elements(p) = Elements(q) \cup {r}
             /\ Unheard(p) = IF NewFill(r) THEN Unheard(q) \cup {r} ELSE Unheard(q)
             /\ OneReportPerTrade(q) /\ (NewFill(r) => \A x \in Unheard(q) : x.trade # r.trade)
                  => OneReportPerTrade(p)
             /\ EndsLast(q) /\ (NewFill(r) => \A x \in Elements(q) :
                                  x.type \in DeadKinds => x.id # r.id)
                  => EndsLast(p)
<1> DEFINE p == Append(q, r)
<1>1. /\ p \in Seq(ReportType) /\ Len(p) = Len(q) + 1 /\ Len(q) \in Nat
      /\ DOMAIN q = 1 .. Len(q) /\ DOMAIN p = 1 .. Len(q) + 1
      /\ \A k \in DOMAIN q : p[k] = q[k]
      /\ p[Len(q) + 1] = r
  BY AppendProperties
<1> HIDE DEF p
<1>2. Elements(p) = Elements(q) \cup {r} BY <1>1 DEF Elements
<1>3. Unheard(p) = IF NewFill(r) THEN Unheard(q) \cup {r} ELSE Unheard(q)
  BY <1>2 DEF Unheard
<1>4. \A k \in DOMAIN q : q[k] \in Elements(q) /\ (NewFill(q[k]) => q[k] \in Unheard(q))
  BY DEF Elements, Unheard
<1>5. \A k \in DOMAIN p : (k \in DOMAIN q /\ p[k] = q[k] /\ k < Len(q) + 1)
                          \/ (k = Len(q) + 1 /\ p[k] = r)
  BY <1>1
<1>6. ASSUME OneReportPerTrade(q), NewFill(r) => \A x \in Unheard(q) : x.trade # r.trade
      PROVE  OneReportPerTrade(p)
  BY <1>4, <1>5, <1>6 DEF OneReportPerTrade
<1>7. ASSUME EndsLast(q),
             NewFill(r) => \A x \in Elements(q) : x.type \in DeadKinds => x.id # r.id
      PROVE  EndsLast(p)
  BY <1>1, <1>4, <1>5, <1>7 DEF EndsLast
<1> QED BY <1>1, <1>2, <1>3, <1>6, <1>7 DEF p

(* One report less. *)
LEMMA ReportRemoved ==
  ASSUME NEW q \in Seq(ReportType), NEW k \in DOMAIN q
  PROVE  LET p == SubSeq(q, 1, k - 1) \o SubSeq(q, k + 1, Len(q))
         IN  /\ p \in Seq(ReportType) /\ Elements(p) \subseteq Elements(q)
             /\ OneReportPerTrade(q) => OneReportPerTrade(p) /\ Unheard(p) = Unheard(q) \ {q[k]}
             /\ EndsLast(q) => EndsLast(p)
<1> DEFINE a == SubSeq(q, 1, k - 1)
           b == SubSeq(q, k + 1, Len(q))
           p == a \o b
<1>1. /\ Len(q) \in Nat /\ DOMAIN q = 1 .. Len(q) /\ k \in 1 .. Len(q) OBVIOUS
<1>2. /\ a \in Seq(ReportType) /\ Len(a) = k - 1 /\ \A j \in 1 .. k - 1 : a[j] = q[j]
  <2>1. \A j \in 1 .. k - 1 : q[j] \in ReportType BY <1>1
  <2> QED BY <1>1, <2>1, SubSeqProperties
<1>3. /\ b \in Seq(ReportType) /\ Len(b) = Len(q) - k
      /\ \A j \in 1 .. Len(q) - k : b[j] = q[k + j]
  <2>1. \A j \in k + 1 .. Len(q) : q[j] \in ReportType BY <1>1
  <2> QED BY <1>1, <2>1, SubSeqProperties
<1> HIDE DEF a, b
<1>4. /\ p \in Seq(ReportType) /\ Len(p) = Len(q) - 1 /\ DOMAIN p = 1 .. Len(q) - 1
      /\ \A j \in 1 .. Len(q) - 1 : p[j] = IF j < k THEN q[j] ELSE q[j + 1]
  <2>1. p \in Seq(ReportType) /\ Len(p) = Len(a) + Len(b) BY <1>2, <1>3, ConcatProperties
  <2>2. \A j \in 1 .. Len(q) - 1 : p[j] = IF j <= k - 1 THEN a[j] ELSE b[j - (k - 1)]
    BY <1>1, <1>2, <1>3, ConcatProperties
  <2>4. Len(p) = Len(q) - 1 BY <1>1, <1>2, <1>3, <2>1
  <2> HIDE DEF p
  <2>3. \A j \in 1 .. Len(q) - 1 : p[j] = IF j < k THEN q[j] ELSE q[j + 1]
    <3> SUFFICES ASSUME NEW j \in 1 .. Len(q) - 1
                 PROVE  p[j] = IF j < k THEN q[j] ELSE q[j + 1]
      OBVIOUS
    <3>1. CASE j < k BY <1>1, <1>2, <2>2, <3>1
    <3>2. CASE ~(j < k)
      <4>1. j - (k - 1) \in 1 .. Len(q) - k /\ k + (j - (k - 1)) = j + 1 BY <1>1, <3>2
      <4>2. p[j] = b[j - (k - 1)]
        <5>1. ~(j <= k - 1) BY <1>1, <3>2
        <5> QED BY <2>2, <5>1
      <4>3. b[j - (k - 1)] = q[k + (j - (k - 1))] BY <1>3, <4>1
      <4> QED BY <3>2, <4>1, <4>2, <4>3
    <3> QED BY <3>1, <3>2
  <2>5. DOMAIN p = 1 .. Len(q) - 1 BY <2>1, <2>4
  <2> QED BY <2>1, <2>3, <2>4, <2>5
<1> HIDE DEF p
<1> DEFINE at == [j \in 1 .. Len(q) - 1 |-> IF j < k THEN j ELSE j + 1]
<1>5. /\ \A j \in DOMAIN p : at[j] \in DOMAIN q /\ p[j] = q[at[j]] /\ at[j] # k
      /\ \A i, j \in DOMAIN p : (at[i] = at[j] => i = j) /\ (i < j => at[i] < at[j])
      /\ \A m \in DOMAIN q : m # k => \E j \in DOMAIN p : at[j] = m
  <2>1. \A j \in DOMAIN p : at[j] \in DOMAIN q /\ p[j] = q[at[j]] /\ at[j] # k
    BY <1>1, <1>4
  <2>2. \A i, j \in DOMAIN p : (at[i] = at[j] => i = j) /\ (i < j => at[i] < at[j])
    BY <1>1, <1>4
  <2>3. ASSUME NEW m \in DOMAIN q, m # k PROVE \E j \in DOMAIN p : at[j] = m
    <3>1. CASE m < k
      <4>1. m \in DOMAIN p /\ at[m] = m BY <1>1, <1>4, <2>3, <3>1
      <4> QED BY <4>1
    <3>2. CASE ~(m < k)
      <4>1. m - 1 \in DOMAIN p /\ ~(m - 1 < k) /\ (m - 1) + 1 = m BY <1>1, <1>4, <2>3, <3>2
      <4>2. at[m - 1] = m BY <1>4, <4>1
      <4> QED BY <4>1, <4>2
    <3> QED BY <3>1, <3>2
  <2> QED BY <2>1, <2>2, <2>3
<1> HIDE DEF at
<1>6. Elements(p) \subseteq Elements(q) BY <1>5 DEF Elements
<1>7. ASSUME EndsLast(q) PROVE EndsLast(p) BY <1>5, <1>7 DEF EndsLast
<1>8. ASSUME OneReportPerTrade(q)
      PROVE  OneReportPerTrade(p) /\ Unheard(p) = Unheard(q) \ {q[k]}
  <2>1. OneReportPerTrade(p) BY <1>5, <1>8 DEF OneReportPerTrade
  <2>2. ASSUME NEW r \in Unheard(p) PROVE r \in Unheard(q) /\ r # q[k]
    <3>1. PICK j \in DOMAIN p : r = p[j] BY DEF Unheard, Elements
    <3>2. NewFill(q[at[j]]) /\ r = q[at[j]] BY <1>5, <3>1 DEF Unheard
    <3> QED BY <1>5, <1>8, <3>1, <3>2 DEF Unheard, Elements, OneReportPerTrade
  <2>3. ASSUME NEW r \in Unheard(q), r # q[k] PROVE r \in Unheard(p)
    <3>1. PICK m \in DOMAIN q : r = q[m] BY DEF Unheard, Elements
    <3>2. PICK j \in DOMAIN p : at[j] = m BY <1>5, <2>3, <3>1
    <3>3. r = p[j] BY <1>5, <3>1, <3>2
    <3> QED BY <3>3 DEF Unheard, Elements
  <2> QED BY <2>1, <2>2, <2>3
<1> QED BY <1>4, <1>6, <1>7, <1>8 DEF p, a, b

(* A report of an order the venue is done with, next to be delivered in     *)
(* order, leaves no unheard fill of that order behind.                      *)
LEMMA EndIsTheLast ==
  ASSUME NEW q \in Seq(ReportType), EndsLast(q), NEW k \in DOMAIN q,
         q[k].type \in DeadKinds, \A j \in 1 .. k - 1 : q[j].id # q[k].id
  PROVE  \A r \in Unheard(q) : r.id # q[k].id
<1> SUFFICES ASSUME NEW r \in Unheard(q), r.id = q[k].id PROVE FALSE OBVIOUS
<1>1. PICK j \in DOMAIN q : r = q[j] BY DEF Unheard, Elements
<1>2. NewFill(q[j]) BY <1>1 DEF Unheard
<1>3. j \in Nat /\ k \in Nat /\ DOMAIN q = 1 .. Len(q) OBVIOUS
<1>4. CASE j < k BY <1>1, <1>3, <1>4
<1>5. CASE k < j BY <1>1, <1>2, <1>5 DEF EndsLast
<1>6. CASE j = k BY <1>2, <1>6 DEF NewFill, EndKinds, DeadKinds
<1> QED BY <1>3, <1>4, <1>5, <1>6

-----------------------------------------------------------------------------
(* Quantities on their way: of an order, and of an instrument with its sign. *)

Quantity == [r \in ReportType |-> r.qty]
Waiting(U, id) == SumFunctionOnSet(Quantity, {r \in U : r.id = id})

Effect(b) == [r \in ReportType |-> Signed(b[r.id].side, r.qty)]
Owed(U, b, i) == SumFunctionOnSet(Effect(b), {r \in U : b[r.id].inst = i})

(* They are numbers, and a report waits for no more than all of its order.  *)
LEMMA WaitingIs ==
  ASSUME NEW U \in SUBSET ReportType, IsFiniteSet(U), NEW id
  PROVE  /\ Waiting(U, id) \in Nat
         /\ \A r \in U : r.id = id => r.qty <= Waiting(U, id)
         /\ (\A r \in U : r.id # id) => Waiting(U, id) = 0
<1> DEFINE S == {r \in U : r.id = id}
<1>1. IsFiniteSet(S) /\ \A r \in S : Quantity[r] \in Nat BY FS_Subset DEF Quantity, ReportType
<1>2. Waiting(U, id) = SumFunctionOnSet(Quantity, S) BY DEF Waiting
<1>3. ASSUME NEW r \in U, r.id = id PROVE r.qty <= Waiting(U, id)
  <2>1. r \in S /\ IsFiniteSet(S \ {r}) /\ Quantity[r] = r.qty
        /\ \A x \in S \ {r} : Quantity[x] \in Nat
    BY <1>1, <1>3, FS_Subset DEF Quantity
  <2> HIDE DEF S
  <2>2. /\ SumFunctionOnSet(Quantity, S) = Quantity[r] + SumFunctionOnSet(Quantity, S \ {r})
        /\ SumFunctionOnSet(Quantity, S \ {r}) \in Nat
    BY <1>1, <2>1, SumRemove, SumNat
  <2>3. r.qty \in Nat BY DEF ReportType
  <2> QED BY <1>2, <2>1, <2>2, <2>3
<1>4. ASSUME \A r \in U : r.id # id PROVE Waiting(U, id) = 0
  BY <1>4, <1>2, S = {}, SumEmpty
<1> HIDE DEF S
<1>5. Waiting(U, id) \in Nat BY <1>1, <1>2, SumNat
<1> QED BY <1>3, <1>4, <1>5

(* What waits without one of the reports. *)
LEMMA WaitingWithout ==
  ASSUME NEW U \in SUBSET ReportType, IsFiniteSet(U), NEW r \in U, NEW id
  PROVE  Waiting(U \ {r}, id) = Waiting(U, id) - IF r.id = id THEN r.qty ELSE 0
<1> DEFINE S == {x \in U : x.id = id}
           T == {x \in U \ {r} : x.id = id}
<1>1. IsFiniteSet(S) /\ IsFiniteSet(T) /\ \A x \in S : Quantity[x] \in Int
  BY FS_Subset DEF Quantity, ReportType
<1>2. Waiting(U, id) = SumFunctionOnSet(Quantity, S)
      /\ Waiting(U \ {r}, id) = SumFunctionOnSet(Quantity, T)
  BY DEF Waiting
<1>3. T = (IF r.id = id THEN S \ {r} ELSE S) /\ (r.id = id => r \in S) OBVIOUS
<1>4. Quantity[r] = r.qty BY DEF Quantity
<1>5. \A x \in T : Quantity[x] \in Int BY <1>1, <1>3
<1> HIDE DEF S, T
<1>6. SumFunctionOnSet(Quantity, S) \in Int /\ SumFunctionOnSet(Quantity, T) \in Int
  BY <1>1, <1>5, SumInt
<1>7. CASE r.id = id
  <2>1. SumFunctionOnSet(Quantity, S) = Quantity[r] + SumFunctionOnSet(Quantity, S \ {r})
    BY <1>1, <1>3, <1>7, SumRemove
  <2>2. r.qty \in Int BY DEF ReportType
  <2> QED BY <1>2, <1>3, <1>4, <1>6, <1>7, <2>1, <2>2
<1>8. CASE r.id # id BY <1>2, <1>3, <1>6, <1>8
<1> QED BY <1>7, <1>8

(* What an instrument is owed, without one of the reports. *)
LEMMA OwedWithout ==
  ASSUME NEW U \in SUBSET ReportType, IsFiniteSet(U), NEW r \in U, NEW b, NEW i
  PROVE  /\ Owed(U, b, i) \in Int
         /\ Owed(U \ {r}, b, i) =
              Owed(U, b, i) - IF b[r.id].inst = i THEN Signed(b[r.id].side, r.qty) ELSE 0
<1> DEFINE f == Effect(b)
           S == {x \in U : b[x.id].inst = i}
           T == {x \in U \ {r} : b[x.id].inst = i}
           e == Signed(b[r.id].side, r.qty)
<1>1. IsFiniteSet(S) /\ IsFiniteSet(T) /\ \A x \in S : f[x] \in Int
  BY FS_Subset DEF Effect, ReportType, Signed
<1>2. Owed(U, b, i) = SumFunctionOnSet(f, S) /\ Owed(U \ {r}, b, i) = SumFunctionOnSet(f, T)
  BY DEF Owed
<1>3. /\ T = (IF b[r.id].inst = i THEN S \ {r} ELSE S)
      /\ (b[r.id].inst = i => r \in S)
  OBVIOUS
<1>4. f[r] = e /\ e \in Int BY DEF Effect, ReportType, Signed
<1>5. \A x \in T : f[x] \in Int BY <1>1, <1>3
<1> HIDE DEF S, T, f, e
<1>6. SumFunctionOnSet(f, S) \in Int /\ SumFunctionOnSet(f, T) \in Int
  BY <1>1, <1>5, SumInt
<1>7. CASE b[r.id].inst = i
  <2>1. SumFunctionOnSet(f, S) = f[r] + SumFunctionOnSet(f, S \ {r})
    BY <1>1, <1>3, <1>7, SumRemove
  <2> QED BY <1>2, <1>3, <1>4, <1>6, <1>7, <2>1 DEF e
<1>8. CASE b[r.id].inst # i BY <1>2, <1>3, <1>6, <1>8
<1> QED BY <1>2, <1>6, <1>7, <1>8 DEF e

(* It only depends on the terms of the orders. *)
LEMMA OwedSame ==
  ASSUME NEW U \in SUBSET ReportType, IsFiniteSet(U), NEW b, NEW c, NEW i,
         \A r \in U : c[r.id].inst = b[r.id].inst /\ c[r.id].side = b[r.id].side
  PROVE  Owed(U, c, i) = Owed(U, b, i)
<1> DEFINE S == {x \in U : b[x.id].inst = i}
<1>1. {x \in U : c[x.id].inst = i} = S OBVIOUS
<1>2. IsFiniteSet(S) /\ \A x \in S : Effect(c)[x] = Effect(b)[x] BY FS_Subset DEF Effect
<1>3. Owed(U, b, i) = SumFunctionOnSet(Effect(b), S)
      /\ Owed(U, c, i) = SumFunctionOnSet(Effect(c), S)
  BY <1>1 DEF Owed
<1> HIDE DEF S
<1> QED BY <1>2, <1>3, SumSame

-----------------------------------------------------------------------------
(* The invariant. *)

BookType == [inst : Instruments, side : Sides, size : Nat, left : Nat, alive : BOOLEAN]

SysTyped ==
  /\ book \in [issued -> BookType] /\ executed \in [Instruments -> Int]
  /\ reports \in Seq(ReportType) /\ cancels \subseteq issued
  /\ tradeNo \in Nat /\ lost \in BOOLEAN

(* An order that can still execute has something left and is still open at  *)
(* the manager.                                                             *)
BookOK ==
  \A id \in issued : /\ book[id].left <= book[id].size
                     /\ book[id].alive => book[id].left > 0 /\ id \in live

(* A repeated report has been handled before; an end and a cancel's refusal *)
(* are reported of a dead order, a reject of one with something left; an    *)
(* unheard fill is not booked.                                              *)
ReportOK(r) ==
  /\ r.id \in issued /\ r.trade <= tradeNo
  /\ r.type \in DeadKinds => ~book[r.id].alive
  /\ r.type \in EndKinds /\ r.again => r.id \notin live
  /\ r.type = "Reject" => book[r.id].left > 0
  /\ r.type = "Fill" /\ r.again => r.id \notin live \/ <<r.id, r.trade>> \in trades
  /\ NewFill(r) => r.qty > 0 /\ <<r.id, r.trade>> \notin trades
ReportsOK == \A r \in Elements(reports) : ReportOK(r)

TradesOld == \A t \in trades : t[2] \in 0 .. tradeNo

(* In order, no fill is still unheard when its order has ended. *)
InOrder == ~Reorder => EndsLast(reports) /\ \A r \in Unheard(reports) : r.id \in live

(* The two sides know the same orders. *)
SameTerms ==
  \A id \in live :
    /\ id \in issued
    /\ orders[id.slot].inst = book[id].inst /\ orders[id.slot].side = book[id].side
    /\ orders[id.slot].size = book[id].size

NotAhead ==
  \A s \in Slots : orders[s].filled > 0 =>
    /\ orders[s].id \in issued
    /\ orders[s].filled <= orders[s].size - book[orders[s].id].left

(* What an open order executed is booked, on its way, or lost. *)
Accounted ==
  \A id \in live :
    LET heard == orders[id.slot].filled + Waiting(Unheard(reports), id)
        gone  == book[id].size - book[id].left
    IN heard <= gone /\ (~lost => heard = gone)

(* What was executed is booked or on its way, unless a fill can overtake    *)
(* the end of its order or was lost.                                        *)
Settled ==
  ~Reorder /\ ~lost =>
    \A i \in Instruments : position[i] + Owed(Unheard(reports), book, i) = executed[i]

SysInv == /\ IndInv /\ SysTyped /\ BookOK /\ ReportsOK /\ TradesOld
          /\ OneReportPerTrade(reports) /\ InOrder /\ SameTerms /\ NotAhead
          /\ Accounted /\ Settled

(* What the proofs of the steps need of the unheard fills. *)
LEMMA UnheardIs ==
  ASSUME SysInv
  PROVE  /\ Unheard(reports) \in SUBSET ReportType /\ IsFiniteSet(Unheard(reports))
         /\ \A r \in Unheard(reports) :
              /\ r \in Elements(reports) /\ NewFill(r) /\ r.id \in issued /\ r.qty > 0
              /\ r.trade <= tradeNo /\ <<r.id, r.trade>> \notin trades
         /\ \A r, x \in Unheard(reports) : r.trade = x.trade => r = x
         /\ \A id : Waiting(Unheard(reports), id) \in Nat
<1>1. /\ Unheard(reports) \in SUBSET ReportType /\ IsFiniteSet(Unheard(reports))
  BY ReportsFinite DEF SysInv, SysTyped
<1>2. \A r \in Unheard(reports) : r \in Elements(reports) /\ NewFill(r) BY DEF Unheard
<1>3. \A r, x \in Unheard(reports) : r.trade = x.trade => r = x
  BY <1>2 DEF SysInv, OneReportPerTrade, Elements
<1>4. \A id : Waiting(Unheard(reports), id) \in Nat BY <1>1, WaitingIs
<1> QED BY <1>1, <1>2, <1>3, <1>4 DEF SysInv, ReportsOK, ReportOK

(* The types of the parts, for arithmetic. *)
LEMMA PartsAre ==
  ASSUME SysInv
  PROVE  /\ \A id \in issued : /\ book[id] \in BookType /\ id \in Ids
                               /\ book[id].left \in Nat /\ book[id].size \in Nat
                               /\ book[id].alive \in BOOLEAN /\ book[id].inst \in Instruments
                               /\ book[id].side \in Sides
         /\ \A s \in Slots : orders[s] \in OrderType /\ orders[s].filled \in Nat
                             /\ orders[s].size \in Nat
         /\ \A id \in live : id \in issued /\ id.slot \in Slots /\ orders[id.slot].id = id
         /\ position \in [Instruments -> Int] /\ executed \in [Instruments -> Int]
<1>1. issued \subseteq Ids /\ orders \in [Slots -> OrderType] /\ position \in [Instruments -> Int]
  BY DEF SysInv, IndInv, TypeOK
<1>2. \A id \in issued : book[id] \in BookType /\ executed \in [Instruments -> Int]
  BY DEF SysInv, SysTyped
<1>3. \A id \in live : id \in issued /\ id.slot \in Slots /\ orders[id.slot].id = id
  BY LiveIs DEF SysInv, SameTerms
<1>4. executed \in [Instruments -> Int] BY DEF SysInv, SysTyped
<1> QED BY <1>1, <1>2, <1>3, <1>4 DEF BookType, OrderType

-----------------------------------------------------------------------------
(* Steps that only the strategy, a timer or the transport of cancels takes. *)

(* A step that moves no order of the manager and nothing of the venue but   *)
(* the cancels on their way.                                                *)
LEMMA CallKeepsInv ==
  ASSUME SysInv, IndInv', Unmoved, UNCHANGED <<book, executed, reports, tradeNo, lost>>,
         cancels' \subseteq issued
  PROVE  SysInv'
<1>1. /\ UNCHANGED <<live, trades, issued, position>>
      /\ \A s \in Slots : Same(orders[s], orders'[s]) \/ orders'[s].filled = 0
      /\ \A id \in live : Same(orders[id.slot], orders'[id.slot])
  BY DEF Unmoved
<1>2. SysTyped' /\ BookOK' /\ ReportsOK' /\ TradesOld' /\ OneReportPerTrade(reports)' /\ InOrder'
  BY <1>1 DEF SysInv, SysTyped, BookOK, ReportsOK, ReportOK, TradesOld, InOrder
<1>3. SameTerms' BY <1>1 DEF SysInv, SameTerms, Same
<1>4. NotAhead' BY <1>1 DEF SysInv, NotAhead, Same
<1>5. Accounted' BY <1>1 DEF SysInv, Accounted, Same
<1>6. Settled' BY <1>1 DEF SysInv, Settled
<1> QED BY <1>2, <1>3, <1>4, <1>5, <1>6 DEF SysInv

(* Before the first order nothing is open, on the book or on its way. *)
LEMMA InitHasInv == SysInit => SysInv
<1> SUFFICES ASSUME SysInit PROVE SysInv OBVIOUS
<1>1. /\ IndInv /\ live = {} /\ trades = {} /\ issued = {}
      /\ \A s \in Slots : orders[s].filled = 0
      /\ position = [i \in Instruments |-> 0]
  BY InitIndInv DEF SysInit, Init, BlankOrder
<1>2. /\ book = [id \in {} |-> 0] /\ cancels = {} /\ reports = <<>> /\ tradeNo = 0
      /\ executed = [i \in Instruments |-> 0] /\ lost = FALSE
  BY DEF SysInit, V!VenueInit
<1>3. reports \in Seq(ReportType) /\ Elements(reports) = {} /\ Unheard(reports) = {}
      /\ OneReportPerTrade(reports) /\ EndsLast(reports)
  BY <1>2 DEF Elements, Unheard, OneReportPerTrade, EndsLast
<1>4. SysTyped
  <2>1. book \in [issued -> BookType] BY <1>1, <1>2
  <2>2. executed \in [Instruments -> Int] BY <1>2
  <2> QED BY <1>1, <1>2, <1>3, <2>1, <2>2 DEF SysTyped
<1>5. \A i \in Instruments : Owed(Unheard(reports), book, i) = 0
  BY <1>3, SumEmpty DEF Owed
<1> QED BY <1>1, <1>2, <1>3, <1>4, <1>5
        DEF SysInv, BookOK, ReportsOK, TradesOld, InOrder, SameTerms, NotAhead, Accounted,
            Settled

(* Each step of the whole is a step of the manager, or leaves it alone. *)
LEMMA ManagerTakesSteps ==
  ASSUME Wired, SysInv, SysNext
  PROVE  [Next]_vars
<1>1. /\ VenueNo \in Venues /\ Nat \subseteq Trades /\ Nat \subseteq Quantities
      /\ Nat \subseteq Prices
  BY DEF Wired
<1>2. CASE Place \/ PlaceRefused \/ PlaceExhausted \/ AllDown
  BY <1>1, <1>2 DEF Place, PlaceRefused, PlaceExhausted, AllDown, Next, Submit
<1>3. CASE CancelOne \/ Timeouts \/ DrainFlags
  BY <1>1, <1>3 DEF CancelOne, Timeouts, DrainFlags, Next, AwaitingAck
<1>4. CASE VenueStep \/ LoseReport BY <1>4 DEF VenueStep, LoseReport
<1>5. CASE Deliver
  <2>1. PICK k \in DOMAIN reports : Handle(reports[k]) BY <1>5 DEF Deliver
  <2>2. reports[k] \in ReportType BY DEF SysInv, SysTyped
  <2>3. /\ reports[k].id \in issued /\ reports[k].qty \in Quantities
        /\ reports[k].price \in Prices /\ reports[k].trade \in Trades
    BY <1>1, <2>2 DEF SysInv, ReportsOK, ReportOK, Elements, ReportType
  <2> QED BY <2>1, <2>3 DEF Handle, Next, Inbound
<1> QED BY <1>2, <1>3, <1>4, <1>5 DEF SysNext

(* A report that moved no order, or was lost, is no longer on its way. *)
LEMMA IdleKeepsInv ==
  ASSUME SysInv, IndInv', Unmoved, UNCHANGED <<book, executed, cancels, tradeNo>>,
         NEW r \in Elements(reports), reports' \in Seq(ReportType),
         Unheard(reports') = Unheard(reports) \ {r}, OneReportPerTrade(reports'),
         EndsLast(reports) => EndsLast(reports'), ReportsOK',
         lost' \in BOOLEAN, lost => lost', NewFill(r) => lost' \/ r.id \notin live
  PROVE  SysInv'
<1> DEFINE U == Unheard(reports)
<1>1. /\ UNCHANGED <<live, trades, issued, position>>
      /\ \A s \in Slots : Same(orders[s], orders'[s]) \/ orders'[s].filled = 0
      /\ \A id \in live : Same(orders[id.slot], orders'[id.slot])
  BY DEF Unmoved
<1>2. SysTyped' /\ BookOK' /\ TradesOld' /\ OneReportPerTrade(reports)' /\ InOrder'
  BY <1>1 DEF SysInv, SysTyped, BookOK, TradesOld, InOrder
<1>3. SameTerms' BY <1>1 DEF SysInv, SameTerms, Same
<1>4. NotAhead' BY <1>1 DEF SysInv, NotAhead, Same
<1>5. U \in SUBSET ReportType /\ IsFiniteSet(U) /\ r \in ReportType
  BY UnheardIs, ReportsFinite DEF SysInv, SysTyped
<1>6. ASSUME NEW id
      PROVE  /\ Waiting(U, id) \in Nat /\ Waiting(U \ {r}, id) \in Nat
             /\ Waiting(U \ {r}, id) <= Waiting(U, id)
             /\ r \notin U \/ r.id # id => Waiting(U \ {r}, id) = Waiting(U, id)
  <2>1. Waiting(U, id) \in Nat BY <1>5, WaitingIs
  <2>2. CASE r \notin U
    <3>1. U \ {r} = U BY <2>2
    <3>2. Waiting(U \ {r}, id) = Waiting(U, id) BY <3>1
    <3> HIDE DEF U
    <3> DEFINE w == Waiting(U, id)
    <3>3. w \in Nat /\ Waiting(U \ {r}, id) = w BY <2>1, <3>2
    <3> HIDE DEF w
    <3>4. Waiting(U \ {r}, id) \in Nat /\ Waiting(U \ {r}, id) <= w BY <3>3
    <3> QED BY <2>1, <3>2, <3>4 DEF w
  <2>3. CASE r \in U
    <3>1. IsFiniteSet(U \ {r}) /\ U \ {r} \in SUBSET ReportType BY <1>5, FS_Subset
    <3>2. Waiting(U \ {r}, id) = Waiting(U, id) - IF r.id = id THEN r.qty ELSE 0
      BY <1>5, <2>3, WaitingWithout
    <3>3. Waiting(U \ {r}, id) \in Nat BY <3>1, WaitingIs
    <3>4. r.qty \in Nat BY <1>5 DEF ReportType
    <3> HIDE DEF U
    <3> QED BY <2>1, <2>3, <3>2, <3>3, <3>4
  <2> QED BY <2>2, <2>3
<1>7. NewFill(r) => r \in U BY DEF Unheard
<1>8. r \in U => NewFill(r) BY DEF Unheard
<1>9. Accounted'
  <2> SUFFICES ASSUME NEW id \in live
               PROVE  LET heard == orders'[id.slot].filled + Waiting(U \ {r}, id)
                          gone  == book[id].size - book[id].left
                      IN heard <= gone /\ (~lost' => heard = gone)
    BY <1>1 DEF Accounted
  <2>1. orders'[id.slot].filled = orders[id.slot].filled /\ orders[id.slot].filled \in Nat
    BY <1>1, PartsAre DEF Same
  <2>2. LET heard == orders[id.slot].filled + Waiting(U, id)
            gone  == book[id].size - book[id].left
        IN heard <= gone /\ (~lost => heard = gone)
    BY DEF SysInv, Accounted
  <2>3. book[id].size \in Nat /\ book[id].left \in Nat BY PartsAre
  <2>4. ~lost' => r \notin U \/ r.id # id BY <1>8
  <2> DEFINE w == Waiting(U, id)
             v == Waiting(U \ {r}, id)
  <2>5. w \in Nat /\ v \in Nat /\ v <= w /\ (~lost' => v = w) BY <1>6, <2>4
  <2> HIDE DEF U, w, v
  <2>6. LET heard == orders[id.slot].filled + w
            gone  == book[id].size - book[id].left
        IN heard <= gone /\ (~lost => heard = gone)
    BY <2>2 DEF w
  <2>7. orders'[id.slot].filled + v <= book[id].size - book[id].left
    BY <2>1, <2>3, <2>5, <2>6
  <2>8. ASSUME ~lost'
        PROVE  orders'[id.slot].filled + v = book[id].size - book[id].left
    <3>1. ~lost BY <2>8
    <3> QED BY <2>1, <2>3, <2>5, <2>6, <2>8, <3>1
  <2> QED BY <2>7, <2>8 DEF v
<1>10. Settled'
  <2> SUFFICES ASSUME ~Reorder, ~lost', NEW i \in Instruments
               PROVE  position[i] + Owed(U \ {r}, book, i) = executed[i]
    BY <1>1 DEF Settled
  <2>1. r \notin U BY <1>8 DEF SysInv, InOrder
  <2>2. U \ {r} = U BY <2>1
  <2> QED BY <2>2 DEF SysInv, Settled
<1> QED BY <1>2, <1>3, <1>4, <1>9, <1>10 DEF SysInv

(* What Take and Drop make of the reports: the one at k is heard or lost,   *)
(* and may be delivered again.                                              *)
LEMMA ReportTaken ==
  ASSUME SysInv, NEW k \in DOMAIN reports, NEW r, r = reports[k], V!Take(k) \/ V!Drop(k)
  PROVE  /\ UNCHANGED <<book, executed, cancels, tradeNo>>
         /\ r \in Elements(reports) /\ r \in ReportType
         /\ reports' \in Seq(ReportType)
         /\ \A x \in Elements(reports') :
              x \in Elements(reports) \/ (V!Take(k) /\ x = [r EXCEPT !.again = TRUE])
         /\ Unheard(reports') = Unheard(reports) \ {r} /\ OneReportPerTrade(reports')
         /\ EndsLast(reports) => EndsLast(reports')
<1> DEFINE p == SubSeq(reports, 1, k - 1) \o SubSeq(reports, k + 1, Len(reports))
           c == [r EXCEPT !.again = TRUE]
<1>1. reports \in Seq(ReportType) /\ OneReportPerTrade(reports) /\ r \in ReportType
  BY DEF SysInv, SysTyped
<1>2. /\ UNCHANGED <<book, executed, cancels, tradeNo>>
      /\ reports' = p \/ (V!Take(k) /\ reports' = Append(p, c))
  BY DEF V!Take, V!Drop, V!RemoveAt
<1>3. c \in ReportType /\ ~NewFill(c) BY <1>1 DEF ReportType, NewFill
<1>4. /\ p \in Seq(ReportType) /\ Elements(p) \subseteq Elements(reports)
      /\ OneReportPerTrade(p) /\ Unheard(p) = Unheard(reports) \ {r}
      /\ EndsLast(reports) => EndsLast(p)
  BY <1>1, ReportRemoved
<1>5. r \in Elements(reports) BY DEF Elements
<1> HIDE DEF p, c
<1>6. CASE reports' = p BY <1>1, <1>2, <1>4, <1>5, <1>6
<1>7. CASE V!Take(k) /\ reports' = Append(p, c)
  <2>1. /\ Append(p, c) \in Seq(ReportType) /\ Elements(Append(p, c)) = Elements(p) \cup {c}
        /\ Unheard(Append(p, c)) = Unheard(p) /\ OneReportPerTrade(Append(p, c))
        /\ EndsLast(p) => EndsLast(Append(p, c))
    BY <1>3, <1>4, ReportAdded
  <2> QED BY <1>1, <1>2, <1>4, <1>5, <1>7, <2>1 DEF c
<1> QED BY <1>2, <1>6, <1>7

(* A report that is lost. *)
LEMMA LossKeepsInv == ASSUME SysInv, IndInv', LoseReport PROVE SysInv'
<1>1. PICK k \in DOMAIN reports : V!Drop(k) BY DEF LoseReport
<1>2. lost' = TRUE /\ UNCHANGED vars BY DEF LoseReport
<1>3. PICK r : r = reports[k] OBVIOUS
<1>4. UNCHANGED <<live, trades, orders, books, ids>> BY <1>2 DEF vars, index
<1>5. Unmoved BY <1>4, SameIsUnmoved DEF SysInv, Same, books, ids
<1>6. /\ UNCHANGED <<book, executed, cancels, tradeNo>>
      /\ r \in Elements(reports) /\ reports' \in Seq(ReportType)
      /\ Unheard(reports') = Unheard(reports) \ {r} /\ OneReportPerTrade(reports')
      /\ EndsLast(reports) => EndsLast(reports')
  BY <1>1, <1>3, ReportTaken
<1>7. Elements(reports') \subseteq Elements(reports)
  <2>1. reports' = SubSeq(reports, 1, k - 1) \o SubSeq(reports, k + 1, Len(reports))
    BY <1>1 DEF V!Drop, V!RemoveAt
  <2> QED BY <2>1, ReportRemoved DEF SysInv, SysTyped
<1>8. ReportsOK' BY <1>4, <1>6, <1>7 DEF ids, SysInv, ReportsOK, ReportOK
<1> QED BY <1>2, <1>5, <1>6, <1>8, IdleKeepsInv

(* A report is heard and moves no order: the manager knows it already, or   *)
(* does not know its order any more.                                        *)
LEMMA HeardIdlyKeepsInv ==
  ASSUME SysInv, IndInv', Unmoved, UNCHANGED lost, NEW k \in DOMAIN reports,
         NEW r, r = reports[k], V!Take(k),
         r.type \in EndKinds => r.id \notin live, NewFill(r) => r.id \notin live
  PROVE  SysInv'
<1>1. /\ UNCHANGED <<book, executed, cancels, tradeNo>>
      /\ r \in Elements(reports) /\ r \in ReportType /\ reports' \in Seq(ReportType)
      /\ \A x \in Elements(reports') :
           x \in Elements(reports) \/ (V!Take(k) /\ x = [r EXCEPT !.again = TRUE])
      /\ Unheard(reports') = Unheard(reports) \ {r} /\ OneReportPerTrade(reports')
      /\ EndsLast(reports) => EndsLast(reports')
  BY ReportTaken
<1>2. UNCHANGED <<live, trades, issued>> BY DEF Unmoved
<1>3. ReportOK(r) BY <1>1 DEF SysInv, ReportsOK
<1>4. ReportOK([r EXCEPT !.again = TRUE])
  <2> DEFINE c == [r EXCEPT !.again = TRUE]
  <2>1. c.type = r.type /\ c.id = r.id /\ c.trade = r.trade /\ c.qty = r.qty /\ c.again
    BY <1>1 DEF ReportType
  <2>2. r.again \in BOOLEAN BY <1>1 DEF ReportType
  <2> HIDE DEF c
  <2> QED BY <1>3, <2>1, <2>2 DEF ReportOK, NewFill
<1>5. ReportsOK'
  <2>1. \A x \in Elements(reports') : ReportOK(x) BY <1>1, <1>4 DEF SysInv, ReportsOK
  <2> QED BY <1>1, <1>2, <2>1 DEF ReportsOK, ReportOK
<1>6. lost' \in BOOLEAN /\ (lost => lost') BY DEF SysInv, SysTyped
<1> QED BY <1>1, <1>5, <1>6, IdleKeepsInv

(* A reject, cancel-ack or unsolicited cancel ends its order: the venue is  *)
(* done with it, and in order every fill of it has been heard.              *)
LEMMA EndHeardKeepsInv ==
  ASSUME SysInv, IndInv', UNCHANGED lost, NEW k \in DOMAIN reports,
         NEW r, r = reports[k], V!Take(k), r.type \in EndKinds, Ended(r.id)
  PROVE  SysInv'
<1> DEFINE U == Unheard(reports)
<1>1. /\ UNCHANGED <<book, executed, cancels, tradeNo>>
      /\ r \in Elements(reports) /\ r \in ReportType /\ reports' \in Seq(ReportType)
      /\ \A x \in Elements(reports') :
           x \in Elements(reports) \/ (V!Take(k) /\ x = [r EXCEPT !.again = TRUE])
      /\ Unheard(reports') = U \ {r} /\ OneReportPerTrade(reports')
      /\ EndsLast(reports) => EndsLast(reports')
  BY ReportTaken
<1>2. /\ r.id \in live /\ live' = live \ {r.id} /\ trades' = {t \in trades : t[1] # r.id}
      /\ UNCHANGED <<issued, position>>
      /\ \A s \in Slots : Same(orders[s], orders'[s])
  BY DEF Ended
<1>3. Unheard(reports') = U BY <1>1 DEF Unheard, NewFill, EndKinds
<1>4. ReportOK(r) /\ r.type \in DeadKinds /\ ~book[r.id].alive
  BY <1>1 DEF SysInv, ReportsOK, ReportOK, DeadKinds
<1>5. SysTyped' BY <1>1, <1>2 DEF SysInv, SysTyped
<1>6. BookOK' BY <1>1, <1>2, <1>4 DEF SysInv, BookOK
<1>7. ReportsOK'
  <2> SUFFICES ASSUME NEW x \in Elements(reports') PROVE ReportOK(x)' BY DEF ReportsOK
  <2>1. CASE x \in Elements(reports)
    <3>1. ReportOK(x) BY <2>1 DEF SysInv, ReportsOK
    <3> QED BY <1>1, <1>2, <3>1 DEF ReportOK
  <2>2. CASE x = [r EXCEPT !.again = TRUE]
    <3>1. x.type = r.type /\ x.id = r.id /\ x.trade = r.trade BY <1>1, <2>2 DEF ReportType
    <3> QED BY <1>1, <1>2, <1>4, <3>1 DEF ReportOK, NewFill, EndKinds, DeadKinds
  <2> QED BY <1>1, <2>1, <2>2
<1>8. TradesOld' BY <1>1, <1>2 DEF SysInv, TradesOld
<1>9. InOrder'
  <2>1. ASSUME ~Reorder PROVE \A x \in U : x.id \in live'
    <3>1. \A j \in 1 .. k - 1 : reports[j].id # r.id BY <2>1 DEF V!Take, V!Deliverable
    <3>2. \A x \in U : x.id # r.id
      BY <1>4, <2>1, <3>1, EndIsTheLast DEF SysInv, SysTyped, InOrder
    <3> QED BY <1>2, <2>1, <3>2 DEF SysInv, InOrder
  <2> QED BY <1>1, <1>3, <2>1 DEF SysInv, InOrder
<1>10. SameTerms' /\ NotAhead' /\ Accounted'
  <2>1. \A id \in live : id.slot \in Slots BY PartsAre
  <2> HIDE DEF U
  <2>2. SameTerms' BY <1>1, <1>2, <2>1 DEF SysInv, SameTerms, Same
  <2>3. NotAhead' BY <1>1, <1>2 DEF SysInv, NotAhead, Same
  <2>4. Accounted' BY <1>1, <1>2, <1>3, <2>1 DEF SysInv, Accounted, Same, U
  <2> QED BY <2>2, <2>3, <2>4
<1>11. Settled' BY <1>1, <1>2, <1>3 DEF SysInv, Settled
<1> QED BY <1>1, <1>5, <1>6, <1>7, <1>8, <1>9, <1>10, <1>11 DEF SysInv

(* A fill heard for the first time passes validate(): the venue executed    *)
(* it, so the order has room for it.                                        *)
LEMMA FillHeardFits ==
  ASSUME SysInv, NEW r \in Unheard(reports), r.id \in live
  PROVE  FillOk(r.id, r.qty, r.price, r.trade)
<1>1. /\ r.qty > 0 /\ r.qty \in Nat /\ <<r.id, r.trade>> \notin trades /\ r.id \in issued
      /\ r.price > 0
      /\ Unheard(reports) \in SUBSET ReportType /\ IsFiniteSet(Unheard(reports))
  BY UnheardIs DEF ReportType
<1>2. Open(r.id) BY <1>1, LiveIsOpen DEF SysInv
<1> DEFINE w == Waiting(Unheard(reports), r.id)
<1>3. r.qty <= w /\ w \in Nat BY <1>1, WaitingIs
<1>4. orders[r.id.slot].filled + w <= book[r.id].size - book[r.id].left
  BY DEF SysInv, Accounted
<1>5. orders[r.id.slot].size = book[r.id].size BY DEF SysInv, SameTerms
<1>6. orders[r.id.slot].filled \in Nat /\ book[r.id].size \in Nat /\ book[r.id].left \in Nat
  BY <1>1, PartsAre
<1> HIDE DEF w
<1>7. r.qty <= orders[r.id.slot].size - orders[r.id.slot].filled
  BY <1>1, <1>3, <1>4, <1>5, <1>6
<1> QED BY <1>1, <1>2, <1>7 DEF FillOk, Remaining, OrderOf

(* Once booked, what was on its way is in the books, and an order it        *)
(* completes has nothing left at the venue.                                 *)
LEMMA FillHeardKeepsInv ==
  ASSUME SysInv, IndInv', UNCHANGED lost, NEW k \in DOMAIN reports,
         NEW r, r = reports[k], V!Take(k), NewFill(r), r.id \in live,
         Booked(r.id, r.qty, r.trade)
  PROVE  SysInv'
<1> DEFINE U == Unheard(reports)
           W == U \ {r}
           id == r.id
           o == orders[id.slot]
           b == book[id]
<1>1. /\ UNCHANGED <<book, executed, cancels, tradeNo>>
      /\ r \in Elements(reports) /\ r \in ReportType /\ reports' \in Seq(ReportType)
      /\ \A x \in Elements(reports') :
           x \in Elements(reports) \/ (V!Take(k) /\ x = [r EXCEPT !.again = TRUE])
      /\ Unheard(reports') = W /\ OneReportPerTrade(reports')
      /\ EndsLast(reports) => EndsLast(reports')
  BY ReportTaken
<1>2. /\ orders'[id.slot].id = o.id /\ orders'[id.slot].inst = o.inst
      /\ orders'[id.slot].side = o.side /\ orders'[id.slot].size = o.size
      /\ orders'[id.slot].filled = o.filled + r.qty
      /\ \A s \in Slots \ {id.slot} : orders'[s] = orders[s]
      /\ position' = [position EXCEPT ![o.inst] = @ + Signed(o.side, r.qty)]
      /\ UNCHANGED issued
      /\ \/ live' = live /\ trades' = trades \cup {<<id, r.trade>>}
         \/ /\ live' = live \ {id} /\ trades' = {t \in trades : t[1] # id}
            /\ orders'[id.slot].filled = orders'[id.slot].size
  BY DEF Booked
<1>3. /\ id \in issued /\ id.slot \in Slots /\ o.id = id
      /\ o.filled \in Nat /\ o.size \in Nat /\ r.qty \in Nat /\ r.trade \in Nat
      /\ b.left \in Nat /\ b.size \in Nat /\ b.inst \in Instruments /\ b.side \in Sides
  BY <1>1, PartsAre DEF ReportType
<1>4. o.inst = b.inst /\ o.side = b.side /\ o.size = b.size BY DEF SysInv, SameTerms
<1>5. \A x \in live : x # id => x.slot \in Slots \ {id.slot}
  BY PartsAre, OpenSlotsDiffer DEF SysInv
<1>6. /\ r \in U /\ r.qty > 0 /\ r.trade <= tradeNo
      /\ U \in SUBSET ReportType /\ IsFiniteSet(U)
      /\ \A x \in U : x.qty > 0 /\ (x.trade = r.trade => x = r)
  <2>1. r \in U BY <1>1 DEF Unheard
  <2> QED BY <2>1, UnheardIs
<1>7. W \in SUBSET ReportType /\ IsFiniteSet(W) BY <1>6, FS_Subset
<1>8. \A x : Waiting(U, x) \in Nat /\ Waiting(W, x) \in Nat
             /\ Waiting(W, x) = Waiting(U, x) - IF id = x THEN r.qty ELSE 0
  BY <1>6, <1>7, WaitingIs, WaitingWithout
<1>9. /\ o.filled + Waiting(U, id) <= b.size - b.left
      /\ ~lost => o.filled + Waiting(U, id) = b.size - b.left
  BY DEF SysInv, Accounted
<1> DEFINE w == Waiting(U, id)
           v == Waiting(W, id)
<1>10. w \in Nat /\ v \in Nat /\ w = v + r.qty
  <2>1. w \in Nat /\ v \in Nat /\ v = w - r.qty BY <1>8
  <2> HIDE DEF w, v
  <2> QED BY <1>3, <2>1
<1>11. o.filled + r.qty + v <= b.size - b.left
       /\ (~lost => o.filled + r.qty + v = b.size - b.left)
  <2>1. o.filled + w <= b.size - b.left /\ (~lost => o.filled + w = b.size - b.left)
    BY <1>9
  <2> HIDE DEF w, v, o, b
  <2> QED BY <1>3, <1>10, <2>1
<1>12. ASSUME id \notin live'
       PROVE  ~b.alive /\ \A x \in W : x.id # id
  <2>1. o.filled + r.qty = b.size BY <1>2, <1>4, <1>12
  <2>2. v = 0 /\ b.left = 0
    <3> HIDE DEF v, o, b
    <3> QED BY <1>3, <1>10, <1>11, <2>1
  <2>3. ~b.alive BY <1>3, <2>2, PartsAre DEF SysInv, BookOK
  <2>4. ASSUME NEW x \in W, x.id = id PROVE FALSE
    <3>1. x.qty <= v BY <1>7, <2>4, WaitingIs
    <3>2. x.qty > 0 /\ x.qty \in Nat BY <1>6, <1>7, <2>4 DEF ReportType
    <3> HIDE DEF v
    <3> QED BY <2>2, <3>1, <3>2
  <2> QED BY <2>3, <2>4
<1>13. live' \subseteq live /\ live \ {id} \subseteq live' BY <1>2
<1>14. \A t \in trades' : t \in trades \/ t = <<id, r.trade>> BY <1>2
<1>15. \A t \in trades : t[1] # id => t \in trades' BY <1>2
<1>16. id \in live' => <<id, r.trade>> \in trades' /\ trades \subseteq trades' BY <1>2
<1>17. SysTyped' BY <1>1, <1>2 DEF SysInv, SysTyped
<1>18. BookOK'
  <2> SUFFICES ASSUME NEW x \in issued
               PROVE  /\ book[x].left <= book[x].size
                      /\ book[x].alive => book[x].left > 0 /\ x \in live'
    BY <1>1, <1>2 DEF BookOK
  <2>1. /\ book[x].left <= book[x].size
        /\ book[x].alive => book[x].left > 0 /\ x \in live
    BY DEF SysInv, BookOK
  <2> QED BY <1>12, <1>13, <2>1
<1>19. ReportsOK'
  <2> SUFFICES ASSUME NEW x \in Elements(reports') PROVE ReportOK(x)' BY DEF ReportsOK
  <2>1. CASE x \in Elements(reports)
    <3>1. ReportOK(x) /\ x \in ReportType
      BY <2>1, ReportsFinite DEF SysInv, SysTyped, ReportsOK
    <3>2. NewFill(x) => x \in W
      <4>1. NewFill(x) => x \in Unheard(reports') BY DEF Unheard
      <4> QED BY <1>1, <4>1
    <3>3. NewFill(x) => x.trade # r.trade BY <1>6, <3>2
    <3>4. NewFill(x) => <<x.id, x.trade>> \notin trades' BY <1>14, <3>1, <3>3 DEF ReportOK
    <3>5. x.type = "Fill" /\ x.again => x.id \notin live' \/ <<x.id, x.trade>> \in trades'
      BY <1>13, <1>15, <1>16, <3>1 DEF ReportOK
    <3> QED BY <1>1, <1>2, <1>13, <3>1, <3>4, <3>5 DEF ReportOK
  <2>2. CASE x = [r EXCEPT !.again = TRUE]
    <3>1. x.type = "Fill" /\ x.id = id /\ x.trade = r.trade /\ x.again
      BY <1>1, <2>2 DEF ReportType, NewFill
    <3> QED BY <1>1, <1>2, <1>3, <1>6, <1>16, <3>1 DEF ReportOK, NewFill, EndKinds, DeadKinds
  <2> QED BY <1>1, <2>1, <2>2
<1>20. TradesOld' BY <1>1, <1>3, <1>6, <1>14 DEF SysInv, TradesOld
<1>21. InOrder'
  <2>1. ASSUME ~Reorder, NEW x \in W PROVE x.id \in live'
    <3>1. x.id \in live BY <2>1 DEF SysInv, InOrder
    <3> QED BY <1>12, <1>13, <2>1, <3>1
  <2> QED BY <1>1, <2>1 DEF SysInv, InOrder
<1>22. SameTerms'
  <2>1. ASSUME NEW x \in live'
        PROVE  /\ x \in issued /\ orders'[x.slot].inst = book[x].inst
               /\ orders'[x.slot].side = book[x].side /\ orders'[x.slot].size = book[x].size
    <3>1. CASE x = id BY <1>2, <1>3, <1>4, <3>1
    <3>2. CASE x # id BY <1>2, <1>5, <1>13, <3>2 DEF SysInv, SameTerms
    <3> QED BY <3>1, <3>2
  <2> QED BY <1>1, <1>2, <2>1 DEF SameTerms
<1>23. NotAhead'
  <2>1. ASSUME NEW s \in Slots, orders'[s].filled > 0
        PROVE  /\ orders'[s].id \in issued
               /\ orders'[s].filled <= orders'[s].size - book[orders'[s].id].left
    <3>1. CASE s = id.slot
      <4>1. o.filled + r.qty <= b.size - b.left
        <5> HIDE DEF w, v, o, b
        <5> QED BY <1>3, <1>10, <1>11
      <4> QED BY <1>2, <1>3, <1>4, <3>1, <4>1
    <3>2. CASE s # id.slot BY <1>2, <2>1, <3>2 DEF SysInv, NotAhead
    <3> QED BY <3>1, <3>2
  <2> QED BY <1>1, <1>2, <2>1 DEF NotAhead
<1>24. Accounted'
  <2> SUFFICES ASSUME NEW x \in live'
               PROVE  LET heard == orders'[x.slot].filled + Waiting(W, x)
                          gone  == book[x].size - book[x].left
                      IN heard <= gone /\ (~lost => heard = gone)
    BY <1>1 DEF Accounted
  <2>1. CASE x = id
    <3>1. orders'[x.slot].filled = o.filled + r.qty BY <1>2, <2>1
    <3> HIDE DEF W, o
    <3> QED BY <1>11, <2>1, <3>1
  <2>2. CASE x # id
    <3>1. orders'[x.slot] = orders[x.slot] /\ x \in live BY <1>2, <1>5, <1>13, <2>2
    <3>2. Waiting(W, x) = Waiting(U, x) - 0 /\ Waiting(U, x) \in Nat BY <1>8, <2>2
    <3>3. Waiting(W, x) = Waiting(U, x)
      <4> HIDE DEF U, W
      <4> QED BY <3>2
    <3> QED BY <3>1, <3>3 DEF SysInv, Accounted
  <2> QED BY <2>1, <2>2
<1>25. Settled'
  <2> SUFFICES ASSUME ~Reorder, ~lost, NEW i \in Instruments
               PROVE  position'[i] + Owed(W, book, i) = executed[i]
    BY <1>1 DEF Settled
  <2> DEFINE e == Signed(b.side, r.qty)
  <2>1. position[i] + Owed(U, book, i) = executed[i] BY DEF SysInv, Settled
  <2>2. /\ Owed(U, book, i) \in Int
        /\ Owed(W, book, i) = Owed(U, book, i) - IF b.inst = i THEN e ELSE 0
    BY <1>6, OwedWithout
  <2>3. position[i] \in Int /\ executed[i] \in Int /\ e \in Int
    BY <1>3, PartsAre DEF Signed
  <2>4. position'[i] = position[i] + IF b.inst = i THEN e ELSE 0
    BY <1>2, <1>4, <2>3, PartsAre
  <2> DEFINE n == Owed(U, book, i)
             m == Owed(W, book, i)
  <2> HIDE DEF e, n, m, b
  <2>5. position[i] + n = executed[i] /\ n \in Int /\ m = n - IF b.inst = i THEN e ELSE 0
    BY <2>1, <2>2 DEF n, m
  <2>6. position'[i] + m = executed[i] BY <2>3, <2>4, <2>5
  <2> QED BY <2>6 DEF m
<1> QED BY <1>1, <1>17, <1>18, <1>19, <1>20, <1>21, <1>22, <1>23, <1>24, <1>25 DEF SysInv

(* The delivery of a report, the first or the second time. *)
LEMMA DeliveryKeepsInv == ASSUME SysInv, IndInv', UNCHANGED lost, Deliver PROVE SysInv'
<1>1. PICK k \in DOMAIN reports : V!Take(k) /\ Handle(reports[k]) BY DEF Deliver
<1>2. PICK r : r = reports[k] OBVIOUS
<1>3. /\ r \in ReportType /\ r \in Elements(reports) /\ r.id \in issued /\ r.qty \in Nat
      /\ ReportOK(r) /\ IndInv
  <2>1. r \in ReportType /\ r \in Elements(reports) BY <1>2 DEF SysInv, SysTyped, Elements
  <2>2. ReportOK(r) BY <2>1 DEF SysInv, ReportsOK
  <2> QED BY <2>1, <2>2 DEF ReportOK, ReportType, SysInv
<1>4. /\ V!Take(k)
      /\ \/ OnConfirm(r.id) /\ r.type = "Confirm"
         \/ OnCancelReject(r.id) /\ r.type = "CancelReject"
         \/ OnFill(r.id, r.qty, r.price, r.trade) /\ r.type = "Fill"
         \/ /\ OnReject(r.id) \/ OnCancelAck(r.id) \/ OnUnsolicitedCancel(r.id)
            /\ r.type \in EndKinds
  BY <1>1, <1>2 DEF Handle, EndKinds
<1>5. CASE (OnConfirm(r.id) \/ OnCancelReject(r.id)) /\ r.type \in {"Confirm", "CancelReject"}
  <2>1. Unmoved BY <1>3, <1>5, OthersMoveNothing
  <2>2. r.type \notin EndKinds /\ ~NewFill(r) BY <1>5 DEF EndKinds, NewFill
  <2> QED BY <1>2, <1>4, <2>1, <2>2, HeardIdlyKeepsInv
<1>6. CASE OnFill(r.id, r.qty, r.price, r.trade) /\ r.type = "Fill"
  <2>1. IF FillOk(r.id, r.qty, r.price, r.trade) THEN Booked(r.id, r.qty, r.trade) ELSE Unmoved
    BY <1>3, <1>6, FillMoves
  <2>2. r.type \notin EndKinds BY <1>6 DEF EndKinds
  <2>3. Open(r.id) <=> r.id \in live BY <1>3, LiveIsOpen
  <2>4. CASE NewFill(r) /\ r.id \in live
    <3>1. r \in Unheard(reports) BY <1>3, <2>4 DEF Unheard
    <3>2. FillOk(r.id, r.qty, r.price, r.trade) BY <2>4, <3>1, FillHeardFits
    <3> QED BY <1>2, <1>4, <2>1, <2>4, <3>2, FillHeardKeepsInv
  <2>5. CASE ~(NewFill(r) /\ r.id \in live)
    <3>1. r.id \notin live \/ <<r.id, r.trade>> \in trades
      BY <1>3, <1>6, <2>5 DEF ReportOK, NewFill
    <3>2. Unmoved BY <2>1, <2>3, <3>1 DEF FillOk
    <3> QED BY <1>2, <1>4, <2>2, <2>5, <3>2, HeardIdlyKeepsInv
  <2> QED BY <2>4, <2>5
<1>7. CASE /\ OnReject(r.id) \/ OnCancelAck(r.id) \/ OnUnsolicitedCancel(r.id)
           /\ r.type \in EndKinds
  <2>1. IF r.id \in live THEN Ended(r.id) ELSE Unmoved BY <1>3, <1>7, EndsMove
  <2>2. ~NewFill(r) BY <1>7 DEF EndKinds, NewFill
  <2>3. CASE r.id \in live BY <1>2, <1>4, <1>7, <2>1, <2>3, EndHeardKeepsInv
  <2>4. CASE r.id \notin live BY <1>2, <1>4, <2>1, <2>2, <2>4, HeardIdlyKeepsInv
  <2> QED BY <2>3, <2>4
<1> QED BY <1>4, <1>5, <1>6, <1>7

-----------------------------------------------------------------------------
(* Steps of the venue. *)

(* What a venue's step leaves at the manager. *)
LEMMA ManagerStays ==
  ASSUME UNCHANGED vars
  PROVE  UNCHANGED <<live, trades, orders, issued, position>>
BY DEF vars, index, books, ids

(* A cancel, asked for or not, ends what is left of an order at the venue,  *)
(* and a cancel of a dead order is refused; the report of it follows all    *)
(* reports of the order's fills.                                            *)
LEMMA EndSentKeepsInv ==
  ASSUME SysInv, IndInv', UNCHANGED vars, UNCHANGED lost, NEW id \in issued,
         NEW r \in ReportType, r.id = id, r.trade = 0, ~r.again, r.type \notin {"Fill", "Reject"},
         reports' = Append(reports, r), book' = [book EXCEPT ![id].alive = FALSE],
         UNCHANGED <<executed, tradeNo>>, cancels' \subseteq issued
  PROVE  SysInv'
<1>1. UNCHANGED <<live, trades, orders, issued, position>> BY ManagerStays
<1>2. ~NewFill(r) BY DEF NewFill
<1>3. /\ reports' \in Seq(ReportType) /\ Elements(reports') = Elements(reports) \cup {r}
      /\ Unheard(reports') = Unheard(reports) /\ OneReportPerTrade(reports')
      /\ EndsLast(reports) => EndsLast(reports')
  BY <1>2, ReportAdded DEF SysInv, SysTyped
<1>4. /\ book' \in [issued -> BookType]
      /\ \A x \in issued : /\ book'[x].inst = book[x].inst /\ book'[x].side = book[x].side
                           /\ book'[x].size = book[x].size /\ book'[x].left = book[x].left
                           /\ book'[x].alive => book[x].alive /\ x # id
  BY DEF SysInv, SysTyped, BookType
<1>5. SysTyped' BY <1>1, <1>3, <1>4 DEF SysInv, SysTyped
<1>6. BookOK' BY <1>1, <1>4 DEF SysInv, BookOK
<1>7. ReportsOK'
  <2> SUFFICES ASSUME NEW x \in Elements(reports') PROVE ReportOK(x)' BY DEF ReportsOK
  <2>1. CASE x \in Elements(reports)
    <3>1. ReportOK(x) BY <2>1 DEF SysInv, ReportsOK
    <3> QED BY <1>1, <1>4, <3>1 DEF ReportOK
  <2>2. CASE x = r
    <3>1. r.trade <= tradeNo BY DEF SysInv, SysTyped
    <3> QED BY <1>1, <1>2, <1>4, <2>2, <3>1 DEF ReportOK
  <2> QED BY <1>3, <2>1, <2>2
<1>8. TradesOld' /\ OneReportPerTrade(reports)' /\ InOrder'
  BY <1>1, <1>3 DEF SysInv, TradesOld, InOrder
<1>9. SameTerms' BY <1>1, <1>4 DEF SysInv, SameTerms
<1>10. NotAhead' BY <1>1, <1>4 DEF SysInv, NotAhead
<1>11. Accounted' BY <1>1, <1>3, <1>4, PartsAre DEF SysInv, Accounted
<1>12. Settled'
  <2>1. /\ Unheard(reports) \in SUBSET ReportType /\ IsFiniteSet(Unheard(reports))
        /\ \A x \in Unheard(reports) : x.id \in issued
    BY UnheardIs
  <2> DEFINE U == Unheard(reports)
             c == book'
  <2>2. \A x \in U : c[x.id].inst = book[x.id].inst /\ c[x.id].side = book[x.id].side
    BY <1>4, <2>1
  <2> HIDE DEF U, c
  <2>3. \A i : Owed(U, c, i) = Owed(U, book, i) BY <2>1, <2>2, OwedSame DEF U
  <2> QED BY <1>1, <1>3, <2>3 DEF SysInv, Settled, U, c
<1> QED BY <1>5, <1>6, <1>7, <1>8, <1>9, <1>10, <1>11, <1>12 DEF SysInv

(* A fill at the venue: what it executes is on its way to the manager.      *)
LEMMA MatchKeepsInv ==
  ASSUME SysInv, IndInv', UNCHANGED vars, UNCHANGED lost, NEW id \in issued,
         NEW qty \in 1 .. book[id].left, V!Match(id, qty)
  PROVE  SysInv'
<1> DEFINE U == Unheard(reports)
           b == book[id]
           r == [type |-> "Fill", id |-> id, qty |-> qty, price |-> 1,
                 trade |-> tradeNo + 1, again |-> FALSE]
           W == U \cup {r}
<1>1. UNCHANGED <<live, trades, orders, issued, position>> BY ManagerStays
<1>2. /\ b.left \in Nat /\ b.size \in Nat /\ b.side \in Sides /\ b.inst \in Instruments
      /\ id \in Ids /\ b \in BookType
  BY PartsAre
<1>3. /\ qty \in Nat /\ qty > 0 /\ qty <= b.left /\ tradeNo \in Nat
  BY <1>2 DEF SysInv, SysTyped
<1>4. /\ b.alive /\ tradeNo' = tradeNo + 1 /\ UNCHANGED cancels
      /\ book' = [book EXCEPT ![id].left = @ - qty, ![id].alive = qty < b.left]
      /\ executed' = [executed EXCEPT ![b.inst] =
                        IF b.side = "Buy" THEN @ + qty ELSE @ - qty]
  BY DEF V!Match
<1>5. reports' = Append(reports, r)
  <2> DEFINE p == V!Report("Fill", id)
             x == [p EXCEPT !.qty = qty, !.trade = tradeNo + 1]
             T == [type : {"Fill"}, id : Ids, qty : Nat, price : {1}, trade : Nat,
                   again : BOOLEAN]
  <2>1. p = [type |-> "Fill", id |-> id, qty |-> 0, price |-> 1, trade |-> 0, again |-> FALSE]
    BY DEF V!Report
  <2> HIDE DEF p
  <2>2. /\ x.type = p.type /\ x.id = p.id /\ x.qty = qty /\ x.trade = tradeNo + 1
        /\ x.again = p.again /\ x \in T /\ x.price = 1
    <3>1. p \in T BY <1>2, <2>1
    <3> DEFINE n == tradeNo + 1
    <3>2. n \in Nat /\ qty \in Nat BY <1>3
    <3> HIDE DEF n
    <3>3. [p EXCEPT !.qty = qty, !.trade = n] \in T BY <3>1, <3>2
    <3>4. x \in T BY <3>3 DEF n
    <3>5. /\ x.type = p.type /\ x.id = p.id /\ x.qty = qty /\ x.trade = tradeNo + 1
          /\ x.again = p.again /\ x.price = 1
      BY <3>1
    <3> QED BY <3>4, <3>5
  <2>3. reports' = Append(reports, x) BY DEF V!Match, V!Send, p
  <2> HIDE DEF x
  <2>4. x = [type |-> x.type, id |-> x.id, qty |-> x.qty, price |-> x.price,
             trade |-> x.trade, again |-> x.again]
    BY <2>2
  <2>5. x = r BY <2>1, <2>2, <2>4
  <2> QED BY <2>3, <2>5
<1>6. r \in ReportType /\ NewFill(r) BY <1>2, <1>3 DEF ReportType, NewFill
<1>7. /\ r.id = id /\ r.qty = qty /\ r.trade = tradeNo + 1 /\ r.type = "Fill" OBVIOUS
<1>8. /\ id \in live /\ book[id].left <= book[id].size BY <1>4 DEF SysInv, BookOK
<1> HIDE DEF r
<1>9. /\ \A x \in Elements(reports) : x.trade # r.trade
      /\ \A x \in Elements(reports) : x.type \in DeadKinds => x.id # id
      /\ r \notin U
  <2>1. \A x \in Elements(reports) : ReportOK(x) /\ x.trade \in Nat
    BY ReportsFinite DEF SysInv, SysTyped, ReportsOK, ReportType
  <2>2. \A x \in Elements(reports) :
          x.trade <= tradeNo /\ (x.type \in DeadKinds => ~book[x.id].alive)
    BY <2>1 DEF ReportOK
  <2>3. \A x \in Elements(reports) : x.trade # r.trade BY <1>3, <1>7, <2>1, <2>2
  <2> QED BY <1>4, <2>2, <2>3 DEF Unheard
<1>10. /\ reports' \in Seq(ReportType) /\ Elements(reports') = Elements(reports) \cup {r}
       /\ Unheard(reports') = W /\ OneReportPerTrade(reports')
       /\ EndsLast(reports) => EndsLast(reports')
  <2>1. \A x \in U : x.trade # r.trade BY <1>9 DEF Unheard
  <2> QED BY <1>5, <1>6, <1>7, <1>9, <2>1, ReportAdded DEF SysInv, SysTyped
<1>11. /\ book' \in [issued -> BookType]
       /\ \A x \in issued : /\ book'[x].inst = book[x].inst /\ book'[x].side = book[x].side
                            /\ book'[x].size = book[x].size
                            /\ x # id => book'[x] = book[x]
       /\ book'[id].left = b.left - qty /\ (book'[id].alive <=> qty < b.left)
  <2>1. book \in [issued -> BookType] BY DEF SysInv, SysTyped
  <2> DEFINE c == [b EXCEPT !.left = @ - qty, !.alive = qty < b.left]
  <2>2. b.left - qty \in Nat BY <1>2, <1>3
  <2>3. /\ c \in BookType /\ c.inst = b.inst /\ c.side = b.side /\ c.size = b.size
        /\ c.left = b.left - qty /\ (c.alive <=> qty < b.left)
    <3> DEFINE l == b.left - qty
               a == qty < b.left
    <3>1. b \in BookType /\ l \in Nat /\ a \in BOOLEAN BY <1>2, <2>2
    <3>2. c = [b EXCEPT !.left = l, !.alive = a] BY <1>2 DEF BookType
    <3> HIDE DEF l, a, b, c
    <3>3. /\ c \in BookType /\ c.inst = b.inst /\ c.side = b.side /\ c.size = b.size
          /\ c.left = l /\ c.alive = a
      BY <3>1, <3>2 DEF BookType
    <3> QED BY <3>3 DEF l, a
  <2>4. book' = [book EXCEPT ![id] = c] BY <1>4, <2>1
  <2> HIDE DEF c
  <2> QED BY <2>1, <2>3, <2>4
<1>12. /\ executed' \in [Instruments -> Int]
       /\ \A i \in Instruments :
            executed'[i] = executed[i] + IF b.inst = i THEN Signed(b.side, qty) ELSE 0
  <2>1. executed \in [Instruments -> Int] BY PartsAre
  <2> QED BY <1>2, <1>3, <1>4, <2>1 DEF Signed
<1>13. U \in SUBSET ReportType /\ IsFiniteSet(U) /\ \A x \in U : x.id \in issued
  BY UnheardIs
<1>14. /\ W \in SUBSET ReportType /\ IsFiniteSet(W) /\ r \in W /\ W \ {r} = U
  BY <1>6, <1>9, <1>13, FS_AddElement
<1>15. SysTyped' BY <1>1, <1>3, <1>4, <1>10, <1>11, <1>12 DEF SysInv, SysTyped
<1>16. BookOK'
  <2>1. ASSUME NEW x \in issued
        PROVE  /\ book'[x].left <= book'[x].size
               /\ book'[x].alive => book'[x].left > 0 /\ x \in live
    <3>1. CASE x = id
      <4> HIDE DEF b
      <4> QED BY <1>2, <1>3, <1>8, <1>11, <3>1 DEF b
    <3>2. CASE x # id BY <1>11, <3>2 DEF SysInv, BookOK
    <3> QED BY <3>1, <3>2
  <2> QED BY <1>1, <2>1 DEF BookOK
<1>17. ReportsOK'
  <2> SUFFICES ASSUME NEW x \in Elements(reports') PROVE ReportOK(x)' BY DEF ReportsOK
  <2>1. CASE x \in Elements(reports)
    <3>1. ReportOK(x) /\ x.trade \in Nat
      BY <2>1, ReportsFinite DEF SysInv, SysTyped, ReportsOK, ReportType
    <3>2. x.trade <= tradeNo' BY <1>3, <1>4, <3>1 DEF ReportOK
    <3>3. x.type \in DeadKinds => x.id # id BY <1>9, <2>1
    <3> QED BY <1>1, <1>11, <3>1, <3>2, <3>3 DEF ReportOK, DeadKinds, EndKinds
  <2>2. CASE x = r
    <3>1. <<id, r.trade>> \notin trades BY <1>3, <1>7 DEF SysInv, TradesOld
    <3>2. r.trade <= tradeNo' BY <1>3, <1>4, <1>7
    <3> QED BY <1>1, <1>3, <1>6, <1>7, <2>2, <3>1, <3>2 DEF ReportOK, NewFill, EndKinds, DeadKinds
  <2> QED BY <1>10, <2>1, <2>2
<1>18. TradesOld' BY <1>1, <1>3, <1>4 DEF SysInv, TradesOld
<1>19. InOrder'
  <2>1. \A x \in W : ~Reorder => x.id \in live BY <1>7, <1>8 DEF SysInv, InOrder
  <2> QED BY <1>1, <1>10, <2>1 DEF SysInv, InOrder
<1>20. SameTerms' BY <1>1, <1>11, PartsAre DEF SysInv, SameTerms
<1>21. NotAhead'
  <2>1. ASSUME NEW s \in Slots, orders[s].filled > 0
        PROVE  /\ orders[s].id \in issued
               /\ orders[s].filled <= orders[s].size - book'[orders[s].id].left
    <3> DEFINE x == orders[s].id
    <3>1. /\ x \in issued /\ orders[s].filled <= orders[s].size - book[x].left
          /\ orders[s].filled \in Nat /\ orders[s].size \in Nat /\ book[x].left \in Nat
      BY <2>1, PartsAre DEF SysInv, NotAhead
    <3>2. book'[x].left <= book[x].left /\ book'[x].left \in Int
      BY <1>2, <1>3, <1>11, <3>1
    <3> HIDE DEF x
    <3>3. orders[s].filled <= orders[s].size - book'[x].left BY <3>1, <3>2
    <3> QED BY <3>1, <3>3 DEF x
  <2> QED BY <1>1, <2>1 DEF NotAhead
<1>22. ASSUME NEW x
       PROVE  /\ Waiting(U, x) \in Nat
              /\ Waiting(W, x) = Waiting(U, x) + IF id = x THEN qty ELSE 0
  <2>1. Waiting(U, x) \in Nat /\ Waiting(W, x) \in Nat BY <1>13, <1>14, WaitingIs
  <2>2. Waiting(W \ {r}, x) = Waiting(W, x) - IF r.id = x THEN r.qty ELSE 0
    BY <1>14, WaitingWithout
  <2>3. Waiting(U, x) = Waiting(W, x) - IF id = x THEN qty ELSE 0 BY <1>7, <1>14, <2>2
  <2> DEFINE u == Waiting(U, x)
             w == Waiting(W, x)
  <2>4. u \in Nat /\ w \in Nat /\ u = w - IF id = x THEN qty ELSE 0 BY <2>1, <2>3
  <2> HIDE DEF u, w
  <2>5. w = u + IF id = x THEN qty ELSE 0 BY <1>3, <2>4
  <2> QED BY <2>4, <2>5 DEF u, w
<1>23. Accounted'
  <2> SUFFICES ASSUME NEW x \in live
               PROVE  LET heard == orders[x.slot].filled + Waiting(W, x)
                          gone  == book'[x].size - book'[x].left
                      IN heard <= gone /\ (~lost => heard = gone)
    BY <1>1, <1>10 DEF Accounted
  <2> DEFINE u == Waiting(U, x)
             w == Waiting(W, x)
             f == orders[x.slot].filled
  <2>1. /\ f + u <= book[x].size - book[x].left
        /\ ~lost => f + u = book[x].size - book[x].left
    BY DEF SysInv, Accounted
  <2>2. /\ x \in issued /\ f \in Nat /\ book[x].size \in Nat /\ book[x].left \in Nat
        /\ book'[x].size = book[x].size
    BY <1>11, PartsAre
  <2>3. u \in Nat /\ w = u + IF id = x THEN qty ELSE 0 BY <1>22
  <2>4. book'[x].left = book[x].left - IF id = x THEN qty ELSE 0 BY <1>11, <2>2
  <2> HIDE DEF u, w, f
  <2>5. f + w <= book'[x].size - book'[x].left BY <1>3, <2>1, <2>2, <2>3, <2>4
  <2>6. ASSUME ~lost PROVE f + w = book'[x].size - book'[x].left
    BY <1>3, <2>1, <2>2, <2>3, <2>4, <2>6
  <2> QED BY <2>5, <2>6 DEF w, f
<1>24. Settled'
  <2> SUFFICES ASSUME ~Reorder, ~lost, NEW i \in Instruments
               PROVE  position[i] + Owed(W, book', i) = executed'[i]
    BY <1>1, <1>10 DEF Settled
  <2> DEFINE e == Signed(b.side, qty)
             n == Owed(U, book, i)
             m == Owed(W, book, i)
             c == book'
  <2>1. position[i] + n = executed[i] BY DEF SysInv, Settled
  <2>2. /\ m \in Int
        /\ Owed(W \ {r}, book, i) = m - IF b.inst = i THEN e ELSE 0
    <3>1. book[r.id] = b /\ Signed(book[r.id].side, r.qty) = e BY <1>7
    <3>2. /\ Owed(W, book, i) \in Int
          /\ Owed(W \ {r}, book, i) =
               Owed(W, book, i)
                 - IF book[r.id].inst = i THEN Signed(book[r.id].side, r.qty) ELSE 0
      BY <1>14, OwedWithout
    <3> HIDE DEF e
    <3> QED BY <3>1, <3>2
  <2>3. n = m - IF b.inst = i THEN e ELSE 0 BY <1>14, <2>2
  <2>4. /\ position[i] \in Int /\ e \in Int
        /\ executed'[i] = executed[i] + IF b.inst = i THEN e ELSE 0
        /\ executed[i] \in Int
    BY <1>2, <1>3, <1>12, PartsAre DEF Signed
  <2>5. \A x \in W : c[x.id].inst = book[x.id].inst /\ c[x.id].side = book[x.id].side
    BY <1>7, <1>11, <1>13
  <2> HIDE DEF W, c
  <2>6. Owed(W, c, i) = m BY <1>14, <2>5, OwedSame
  <2> HIDE DEF e, n, m, b
  <2>7. position[i] + m = executed'[i] BY <2>1, <2>2, <2>3, <2>4
  <2> QED BY <2>6, <2>7 DEF c
<1> QED BY <1>1, <1>10, <1>15, <1>16, <1>17, <1>18, <1>19, <1>20, <1>21, <1>23, <1>24
        DEF SysInv

(* Whatever the venue does by itself. *)
LEMMA VenueKeepsInv == ASSUME SysInv, IndInv', UNCHANGED lost, VenueStep PROVE SysInv'
<1>1. UNCHANGED vars BY DEF VenueStep
<1>2. DOMAIN book = issued /\ cancels \subseteq issued /\ issued \subseteq Ids
  BY DEF SysInv, SysTyped, IndInv, TypeOK
<1> DEFINE Of(type, id) ==
             [type |-> type, id |-> id, qty |-> 0, price |-> 1, trade |-> 0, again |-> FALSE]
<1>3. ASSUME NEW id \in issued, NEW type \in {"CancelAck", "CancelReject", "Unsolicited"},
             reports' = Append(reports, Of(type, id)),
             book' = [book EXCEPT ![id].alive = FALSE],
             UNCHANGED <<executed, tradeNo>>, cancels' \subseteq issued
      PROVE  SysInv'
  <2> DEFINE r == Of(type, id)
  <2>1. r \in ReportType BY <1>2 DEF ReportType, EndKinds, DeadKinds
  <2>2. r.id = id /\ r.trade = 0 /\ ~r.again /\ r.type \notin {"Fill", "Reject"} OBVIOUS
  <2> HIDE DEF r
  <2>3. reports' = Append(reports, r) BY <1>3 DEF r
  <2> HIDE DEF Of
  <2> QED BY <1>1, <1>3, <2>1, <2>2, <2>3, EndSentKeepsInv
<1>4. ASSUME NEW id \in issued, NEW qty \in 1 .. book[id].left, V!Match(id, qty)
      PROVE  SysInv'
  BY <1>1, <1>4, MatchKeepsInv
<1>5. ASSUME NEW id \in cancels, V!DoCancel(id) PROVE SysInv'
  <2> DEFINE type == IF book[id].alive THEN "CancelAck" ELSE "CancelReject"
  <2>1. /\ type \in {"CancelAck", "CancelReject", "Unsolicited"}
        /\ reports' = Append(reports, Of(type, id))
        /\ book' = [book EXCEPT ![id].alive = FALSE]
        /\ UNCHANGED <<executed, tradeNo>> /\ cancels' = cancels \ {id}
    BY <1>5 DEF V!DoCancel, V!Send, V!Report
  <2> HIDE DEF type, Of
  <2> QED BY <1>2, <1>3, <2>1
<1>6. ASSUME NEW id \in issued, V!CancelUnasked(id) PROVE SysInv'
  <2>1. /\ reports' = Append(reports, Of("Unsolicited", id))
        /\ book' = [book EXCEPT ![id].alive = FALSE]
        /\ UNCHANGED <<executed, tradeNo, cancels>>
    BY <1>6 DEF V!CancelUnasked, V!Send, V!Report
  <2> HIDE DEF Of
  <2> QED BY <1>2, <1>3, <2>1
<1> QED BY <1>2, <1>4, <1>5, <1>6 DEF VenueStep

-----------------------------------------------------------------------------
(* Steps of the strategy and of the timers. *)

(* An order is sent, and the venue takes it or will reject it: both sides   *)
(* know the same terms, and nothing is filled or on its way for its id,     *)
(* which no venue was given before.                                         *)
LEMMA PlaceKeepsInv ==
  ASSUME SysInv, IndInv', UNCHANGED lost, VenueNo \in Venues, Place
  PROVE  SysInv'
<1>1. PICK req \in Requests :
        SubmitAccepted(VenueNo, req) /\ V!Accept(NewId(VenueNo), req)
  BY DEF Place
<1> DEFINE id == NewId(VenueNo)
           U  == Unheard(reports)
<1>2. /\ CanSubmit /\ WithinBounds(VenueNo) /\ Update(id, NewOrder(id, req, "Sent"))
      /\ live' = live \cup {id} /\ issued' = issued \cup {id}
      /\ UNCHANGED <<trades, position>>
  BY <1>1 DEF SubmitAccepted
<1>3. /\ id \in Ids /\ id \notin live /\ id.slot \notin pool.allocated
      /\ id.slot \in Slots /\ id.gen = pool.generation[id.slot]
      /\ orders'[id.slot] = NewOrder(id, req, "Sent")
      /\ \A s \in Slots \ {id.slot} : orders'[s] = orders[s]
  BY <1>2, AcquireKeepsBooks, ManagerAssumption DEF NewId, SysInv
<1>4. id \notin issued
  <2>1. id.gen \in Int BY <1>3 DEF Ids, Generations
  <2> QED BY <1>3, <2>1 DEF SysInv, IndInv, IssuedOK, Owns, IsCurrent
<1>5. \A x \in live : x.slot \in Slots \ {id.slot} /\ x # id
  BY <1>3 DEF SysInv, IndInv, TypeOK, Indexed, Owns, IsCurrent, PoolType
<1>6. /\ req.inst \in Instruments /\ req.side \in Sides /\ req.size \in Nat /\ req.size > 0
  BY ManagerAssumption DEF ManagerAssumption, Sides
<1>7. PICK alive \in BOOLEAN :
        /\ book' = [x \in DOMAIN book \cup {id} |->
                      IF x = id THEN [inst |-> req.inst, side |-> req.side,
                                      size |-> req.size, left |-> req.size,
                                      alive |-> alive]
                      ELSE book[x]]
        /\ V!Send(V!Report(IF alive THEN "Confirm" ELSE "Reject", id))
        /\ UNCHANGED <<executed, cancels, tradeNo>>
  BY <1>1 DEF V!Accept
<1> DEFINE type == IF alive THEN "Confirm" ELSE "Reject"
           r == [type |-> type, id |-> id, qty |-> 0, price |-> 1, trade |-> 0, again |-> FALSE]
<1>8. reports' = Append(reports, r) BY <1>7 DEF V!Send, V!Report
<1>9. r \in ReportType BY <1>3 DEF ReportType, EndKinds, DeadKinds
<1>10. r.id = id /\ r.type = type /\ r.trade = 0 /\ ~r.again /\ ~NewFill(r) BY DEF NewFill
<1>11. /\ DOMAIN book = issued /\ \A x \in issued : book[x] \in BookType /\ x # id
  BY <1>4 DEF SysInv, SysTyped
<1>12. /\ book' \in [issued' -> BookType]
       /\ \A x \in issued : book'[x] = book[x]
       /\ book'[id].inst = req.inst /\ book'[id].side = req.side
       /\ book'[id].size = req.size /\ book'[id].left = req.size
       /\ book'[id].alive = alive
  <2> DEFINE e == [inst |-> req.inst, side |-> req.side, size |-> req.size,
                   left |-> req.size, alive |-> alive]
  <2>1. /\ e \in BookType /\ e.inst = req.inst /\ e.side = req.side /\ e.size = req.size
        /\ e.left = req.size /\ e.alive = alive
    BY <1>6 DEF BookType
  <2> HIDE DEF e, id
  <2>2. book' = [x \in issued \cup {id} |-> IF x = id THEN e ELSE book[x]]
    BY <1>7, <1>11 DEF e
  <2> QED BY <1>2, <1>11, <2>1, <2>2
<1> HIDE DEF r, id
<1>13. /\ reports' \in Seq(ReportType) /\ Elements(reports') = Elements(reports) \cup {r}
       /\ Unheard(reports') = U /\ OneReportPerTrade(reports')
       /\ EndsLast(reports) => EndsLast(reports')
  BY <1>8, <1>9, <1>10, ReportAdded DEF SysInv, SysTyped
<1>14. /\ U \in SUBSET ReportType /\ IsFiniteSet(U) /\ \A x \in U : x.id \in issued
  BY UnheardIs
<1>15. SysTyped' BY <1>2, <1>7, <1>12, <1>13 DEF SysInv, SysTyped
<1>16. BookOK'
  <2>1. ASSUME NEW x \in issued'
        PROVE  /\ book'[x].left <= book'[x].size
               /\ book'[x].alive => book'[x].left > 0 /\ x \in live'
    <3>1. CASE x = id BY <1>2, <1>6, <1>12, <3>1
    <3>2. CASE x \in issued BY <1>2, <1>12, <3>2 DEF SysInv, BookOK
    <3> QED BY <1>2, <3>1, <3>2
  <2> QED BY <2>1 DEF BookOK
<1>17. ReportsOK'
  <2> SUFFICES ASSUME NEW x \in Elements(reports') PROVE ReportOK(x)' BY DEF ReportsOK
  <2>1. CASE x \in Elements(reports)
    <3>1. ReportOK(x) BY <2>1 DEF SysInv, ReportsOK
    <3>2. x.id \in issued /\ x.id # id BY <1>4, <3>1 DEF ReportOK
    <3> QED BY <1>2, <1>7, <1>12, <3>1, <3>2 DEF ReportOK
  <2>2. CASE x = r
    <3>1. r.trade <= tradeNo BY <1>10 DEF SysInv, SysTyped
    <3>2. r.type \in DeadKinds => ~book'[r.id].alive BY <1>10, <1>12 DEF EndKinds, DeadKinds
    <3>3. r.type # "Fill" /\ book'[r.id].left > 0 BY <1>6, <1>10, <1>12
    <3> QED BY <1>2, <1>7, <1>10, <2>2, <3>1, <3>2, <3>3 DEF ReportOK
  <2> QED BY <1>13, <2>1, <2>2
<1>18. TradesOld' /\ OneReportPerTrade(reports)' /\ InOrder'
  BY <1>2, <1>7, <1>13 DEF SysInv, TradesOld, InOrder
<1>19. SameTerms'
  <2>1. ASSUME NEW x \in live'
        PROVE  /\ x \in issued' /\ orders'[x.slot].inst = book'[x].inst
               /\ orders'[x.slot].side = book'[x].side /\ orders'[x.slot].size = book'[x].size
    <3>1. CASE x = id BY <1>2, <1>3, <1>12, <3>1 DEF NewOrder
    <3>2. CASE x \in live BY <1>2, <1>3, <1>5, <1>12, <3>2 DEF SysInv, SameTerms
    <3> QED BY <1>2, <3>1, <3>2
  <2> QED BY <2>1 DEF SameTerms
<1>20. NotAhead'
  <2>1. ASSUME NEW s \in Slots, orders'[s].filled > 0
        PROVE  /\ orders'[s].id \in issued'
               /\ orders'[s].filled <= orders'[s].size - book'[orders'[s].id].left
    <3>1. s # id.slot BY <1>3, <2>1 DEF NewOrder
    <3> QED BY <1>2, <1>3, <1>12, <2>1, <3>1 DEF SysInv, NotAhead
  <2> QED BY <2>1 DEF NotAhead
<1>21. Accounted'
  <2> SUFFICES ASSUME NEW x \in live'
               PROVE  LET heard == orders'[x.slot].filled + Waiting(U, x)
                          gone  == book'[x].size - book'[x].left
                      IN heard <= gone /\ (~lost => heard = gone)
    BY <1>13 DEF Accounted
  <2>1. CASE x = id
    <3>1. Waiting(U, id) = 0 BY <1>4, <1>14, WaitingIs
    <3>2. orders'[id.slot].filled = 0 BY <1>3 DEF NewOrder
    <3> QED BY <1>6, <1>12, <2>1, <3>1, <3>2
  <2>2. CASE x \in live
    <3>1. orders'[x.slot] = orders[x.slot] /\ book'[x] = book[x]
      BY <1>3, <1>5, <1>12, <2>2, PartsAre
    <3> QED BY <2>2, <3>1 DEF SysInv, Accounted
  <2> QED BY <1>2, <2>1, <2>2
<1>22. Settled'
  <2> DEFINE c == book'
  <2>1. \A x \in U : c[x.id].inst = book[x.id].inst /\ c[x.id].side = book[x.id].side
    BY <1>12, <1>14
  <2> HIDE DEF U, c
  <2>2. \A i : Owed(U, c, i) = Owed(U, book, i) BY <1>14, <2>1, OwedSame
  <2> QED BY <1>2, <1>7, <1>13, <2>2 DEF SysInv, Settled, U, c
<1> QED BY <1>13, <1>15, <1>16, <1>17, <1>18, <1>19, <1>20, <1>21, <1>22 DEF SysInv

(* Every other call of the strategy, and the timers. *)
LEMMA StrategyKeepsInv ==
  ASSUME NoWrap, Wired, SysInv, IndInv', UNCHANGED lost,
         PlaceRefused \/ PlaceExhausted \/ AllDown \/ CancelOne \/ Timeouts \/ DrainFlags
  PROVE  SysInv'
<1>1. IndInv /\ VenueNo \in Venues /\ cancels \subseteq issued
  BY DEF SysInv, SysTyped, Wired
<1>2. live \subseteq issued BY PartsAre
<1>3. CASE PlaceRefused \/ PlaceExhausted \/ DrainFlags
  <2>1. UNCHANGED <<book, executed, reports, tradeNo, cancels>>
    BY <1>3 DEF PlaceRefused, PlaceExhausted, DrainFlags, venueVars
  <2>2. Unmoved
    BY <1>1, <1>3, CallsMoveNothing DEF PlaceRefused, PlaceExhausted, DrainFlags
  <2>3. UNCHANGED issued BY <2>2 DEF Unmoved
  <2> QED BY <1>1, <2>1, <2>2, CallKeepsInv
<1>4. CASE AllDown \/ Timeouts
  <2>1. /\ UNCHANGED <<book, executed, reports, tradeNo>>
        /\ \E S \in SUBSET live : cancels' = cancels \cup S
    BY <1>4 DEF AllDown, Timeouts, V!TakeCancels, Working, AwaitingAck
  <2>2. \A up \in SUBSET {VenueNo} : up \in SUBSET Venues BY <1>1
  <2>3. Unmoved BY <1>1, <1>4, <2>2, CallsMoveNothing DEF AllDown, Timeouts
  <2> QED BY <1>1, <1>2, <2>1, <2>3, CallKeepsInv
<1>5. CASE CancelOne
  <2>1. PICK id \in issued : Cancel(id) /\ V!TakeCancels({id}) BY <1>5 DEF CancelOne
  <2>2. Unmoved BY <1>1, <2>1, OthersMoveNothing
  <2>3. /\ UNCHANGED <<book, executed, reports, tradeNo>> /\ cancels' \subseteq issued
    BY <1>1, <2>1 DEF V!TakeCancels
  <2> QED BY <2>2, <2>3, CallKeepsInv
<1> QED BY <1>3, <1>4, <1>5

-----------------------------------------------------------------------------
(* All steps. *)
LEMMA NextKeepsSysInv ==
  ASSUME NoWrap, Wired, SysInv, [SysNext]_sysVars
  PROVE  SysInv'
<1>1. CASE UNCHANGED sysVars
  <2>1. UNCHANGED vars /\ UNCHANGED <<book, executed, cancels, reports, tradeNo, lost>>
    BY <1>1 DEF sysVars, venueVars
  <2>2. IndInv' BY <2>1, NextKeepsInv DEF SysInv
  <2>3. Unmoved BY <2>1, ManagerStays, SameIsUnmoved DEF SysInv, Same
  <2>4. cancels' \subseteq issued BY <2>1 DEF SysInv, SysTyped
  <2> QED BY <2>1, <2>2, <2>3, <2>4, CallKeepsInv
<1>2. CASE SysNext
  <2>1. IndInv'
    <3>1. [Next]_vars BY <1>2, ManagerTakesSteps
    <3> QED BY <3>1, NextKeepsInv DEF SysInv
  <2>2. CASE LoseReport BY <2>1, <2>2, LossKeepsInv
  <2>3. CASE UNCHANGED lost /\ Place BY <2>1, <2>3, PlaceKeepsInv DEF Wired
  <2>4. CASE /\ UNCHANGED lost
             /\ PlaceRefused \/ PlaceExhausted \/ AllDown \/ CancelOne \/ Timeouts \/ DrainFlags
    BY <2>1, <2>4, StrategyKeepsInv
  <2>5. CASE UNCHANGED lost /\ VenueStep BY <2>1, <2>5, VenueKeepsInv
  <2>6. CASE UNCHANGED lost /\ Deliver BY <2>1, <2>6, DeliveryKeepsInv
  <2> QED BY <1>2, <2>2, <2>3, <2>4, <2>5, <2>6 DEF SysNext
<1> QED BY <1>1, <1>2

(* The invariant holds in every run of the manager against a venue whose    *)
(* reports are reordered, repeated and lost in any way.                     *)
THEOREM SysInvariance == ASSUME NoWrap, Wired PROVE SysSpec => []SysInv
<1>1. SysInit => SysInv BY InitHasInv
<1>2. SysInv /\ [SysNext]_sysVars => SysInv' BY NextKeepsSysInv
<1> QED BY <1>1, <1>2, PTL DEF SysSpec

(* With such a venue the manager runs as OrderManager says: what is proved  *)
(* of it alone, the ledger's promise included, holds of it here.            *)
THEOREM VenueRunsManager == ASSUME NoWrap, Wired PROVE SysSpec => Spec
<1>1. SysInit => Init BY DEF SysInit
<1>2. SysInv /\ [SysNext]_sysVars => [Next]_vars
  <2>1. UNCHANGED sysVars => UNCHANGED vars BY DEF sysVars
  <2> QED BY <2>1, ManagerTakesSteps
<1> QED BY <1>1, <1>2, SysInvariance, PTL DEF SysSpec, Spec

(* However reports are repeated, lost or reordered, the manager books no    *)
(* more of an order than the venue executed of it (validate(), modes 5 and  *)
(* 6 of README.md).                                                         *)
THEOREM NeverAhead == ASSUME NoWrap, Wired PROVE SysSpec => []NeverAheadOfVenue
<1>1. SysInv => NeverAheadOfVenue BY DEF SysInv, NotAhead, NeverAheadOfVenue
<1> QED BY <1>1, SysInvariance, PTL

(* When the reports about an order come in order, repeated or not, then     *)
(* with none in flight and none lost the manager's positions are what the   *)
(* venue executed: no race of a fill with a cancel costs a trade (README.md *)
(* decision 3, "fill wins").                                                *)
THEOREM BooksSettle ==
  ASSUME NoWrap, Wired, ~Reorder PROVE SysSpec => []SettledBooksAgree
<1>1. ASSUME SysInv PROVE SettledBooksAgree
  <2> SUFFICES ASSUME reports = <<>>, ~lost PROVE position = executed
    BY DEF SettledBooksAgree
  <2>1. Unheard(reports) = {} BY DEF Unheard, Elements
  <2>2. \A i \in Instruments : Owed(Unheard(reports), book, i) = 0
    BY <2>1, SumEmpty DEF Owed
  <2>3. position \in [Instruments -> Int] /\ executed \in [Instruments -> Int]
    BY <1>1, PartsAre
  <2>4. \A i \in Instruments : position[i] = executed[i]
    BY <1>1, <2>2, <2>3 DEF SysInv, Settled
  <2> QED BY <2>3, <2>4
<1> QED BY <1>1, SysInvariance, PTL

-----------------------------------------------------------------------------
(* Rejects that reach the health model. *)

HealthReject(c) == c.to = "health" /\ c.op = "reject"

(* The last step's reject, if real, is of an order the venue is done with   *)
(* and did not fill; the order of a local reject was never sent.            *)
RealRejects ==
  ~Reorder /\ ~lost =>
    \A c \in calls : HealthReject(c) /\ c.id \in issued =>
      ~book[c.id].alive /\ book[c.id].left > 0

(* What is left of an order only ever shrinks, and not once it is dead. *)
LEMMA LeftShrinks ==
  ASSUME SysInv, VenueNo \in Venues, [SysNext]_sysVars
  PROVE  \A id \in issued :
           /\ id \in issued' /\ book'[id].left <= book[id].left
           /\ ~book[id].alive => ~book'[id].alive /\ book'[id].left = book[id].left
<1> USE DEF SysInv
<1>1. /\ book \in [issued -> BookType] /\ cancels \subseteq issued
      /\ \A id \in issued : book[id].left \in Nat
  BY PartsAre DEF SysTyped
<1>2. CASE UNCHANGED <<book, issued>> BY <1>1, <1>2
<1>3. CASE Place
  <2>1. PICK req \in Requests :
          SubmitAccepted(VenueNo, req) /\ V!Accept(NewId(VenueNo), req)
    BY <1>3 DEF Place
  <2> DEFINE id == NewId(VenueNo)
  <2>2. /\ CanSubmit /\ WithinBounds(VenueNo) /\ Update(id, NewOrder(id, req, "Sent"))
        /\ issued' = issued \cup {id}
    BY <2>1 DEF SubmitAccepted
  <2>3. /\ id \in Ids /\ id.slot \notin pool.allocated /\ id.slot \in Slots
        /\ id.gen = pool.generation[id.slot]
    BY <2>2, AcquireKeepsBooks, ManagerAssumption DEF NewId
  <2>4. id \notin issued
    <3>1. id.gen \in Int BY <2>3 DEF Ids, Generations
    <3> QED BY <2>3, <3>1 DEF IndInv, IssuedOK, Owns, IsCurrent
  <2>5. \A x \in issued : book'[x] = book[x] BY <1>1, <2>1, <2>4 DEF V!Accept
  <2> HIDE DEF id
  <2> QED BY <1>1, <2>2, <2>5
<1>4. CASE VenueStep
  <2>1. UNCHANGED issued BY <1>4, ManagerStays DEF VenueStep
  <2>2. ASSUME NEW id \in issued, book' = [book EXCEPT ![id].alive = FALSE]
        PROVE  \A x \in issued : /\ book'[x].left = book[x].left
                                 /\ ~book[x].alive => ~book'[x].alive
    BY <1>1, <2>2 DEF BookType
  <2>3. ASSUME NEW id \in issued, NEW qty \in 1 .. book[id].left, V!Match(id, qty)
        PROVE  \A x \in issued :
                 /\ book'[x].left <= book[x].left
                 /\ ~book[x].alive => ~book'[x].alive /\ book'[x].left = book[x].left
    <3>1. /\ book[id].alive /\ qty \in Nat
          /\ book' = [book EXCEPT ![id].left = @ - qty, ![id].alive = qty < book[id].left]
      BY <1>1, <2>3 DEF V!Match
    <3>2. book'[id].left = book[id].left - qty BY <1>1, <3>1 DEF BookType
    <3>3. \A x \in issued \ {id} : book'[x] = book[x] BY <1>1, <3>1
    <3> QED BY <1>1, <3>1, <3>2, <3>3
  <2>4. CASE \E id \in cancels : V!DoCancel(id)
    BY <1>1, <2>1, <2>2, <2>4 DEF V!DoCancel
  <2>5. CASE \E id \in DOMAIN book : V!CancelUnasked(id)
    BY <1>1, <2>1, <2>2, <2>5 DEF V!CancelUnasked
  <2>6. CASE \E id \in DOMAIN book : \E qty \in 1 .. book[id].left : V!Match(id, qty)
    BY <1>1, <2>1, <2>3, <2>6
  <2> QED BY <1>4, <2>4, <2>5, <2>6 DEF VenueStep
<1>5. CASE Deliver
  <2>1. PICK k \in DOMAIN reports : V!Take(k) /\ Handle(reports[k]) BY <1>5 DEF Deliver
  <2>2. UNCHANGED issued
    BY <2>1 DEF Handle, OnConfirm, OnFill, ApplyFill, UnknownFill, OnReject, OnCancelAck,
                OnCancelReject, OnUnsolicitedCancel, FinishCancel, Finish, Drop, ids
  <2> QED BY <1>2, <2>1, <2>2 DEF V!Take
<1>6. CASE PlaceRefused \/ PlaceExhausted \/ AllDown \/ CancelOne \/ Timeouts \/ DrainFlags
  <2>1. UNCHANGED book
    BY <1>6 DEF PlaceRefused, PlaceExhausted, AllDown, CancelOne, Timeouts, DrainFlags,
                venueVars, V!TakeCancels
  <2>2. UNCHANGED issued
    BY <1>6 DEF PlaceRefused, PlaceExhausted, AllDown, CancelOne, Timeouts, DrainFlags,
                SubmitRejectedLocally, SubmitExhausted, SubmitAllDown, Cancel,
                CheckAckTimeouts, ResetRebalanceCycle, ClearReconcileRequest, ids
  <2> QED BY <1>2, <2>1, <2>2
<1>7. CASE LoseReport \/ UNCHANGED sysVars
  <2>1. UNCHANGED <<book, issued>>
    BY <1>7, ManagerStays DEF LoseReport, V!Drop, sysVars, venueVars
  <2> QED BY <1>2, <2>1
<1> QED BY <1>3, <1>4, <1>5, <1>6, <1>7 DEF SysNext

(* In order and with nothing lost, a cancel is refused of an order that is  *)
(* still open only if something was left of it when the venue ended it: had *)
(* it filled, every fill would have been heard and booked before.           *)
LEMMA RefusedOfUnfilled ==
  ASSUME SysInv, ~Reorder, ~lost, NEW k \in DOMAIN reports, V!Take(k),
         NEW r, r = reports[k], r.type \in DeadKinds, Open(r.id)
  PROVE  ~book[r.id].alive /\ book[r.id].left > 0
<1> DEFINE id == r.id
           w  == Waiting(Unheard(reports), id)
<1>1. r \in Elements(reports) /\ ReportOK(r) BY DEF SysInv, ReportsOK, Elements
<1>2. id \in issued /\ ~book[id].alive BY <1>1 DEF ReportOK
<1>3. id \in live /\ IndInv BY <1>2, LiveIsOpen DEF SysInv
<1>4. \A j \in 1 .. k - 1 : reports[j].id # id BY DEF V!Take, V!Deliverable
<1>5. \A x \in Unheard(reports) : x.id # id
  BY <1>4, EndIsTheLast DEF SysInv, SysTyped, InOrder
<1>6. w = 0 BY <1>5, WaitingIs, UnheardIs
<1>7. /\ orders[id.slot].filled + w = book[id].size - book[id].left
      /\ orders[id.slot].size = book[id].size
  BY <1>3 DEF SysInv, Accounted, SameTerms
<1>8. /\ orders[id.slot].filled \in Nat /\ book[id].size \in Nat /\ book[id].left \in Nat
      /\ id.slot \in pool.allocated
  BY <1>2, <1>3, PartsAre, LiveIs
<1>9. orders[id.slot].filled # orders[id.slot].size
  BY <1>3, <1>8 DEF IndInv, FillWithinOrder, Open, IsTerminal, OrderOf, Terminal
<1> HIDE DEF w, id
<1>10. book[id].left > 0 BY <1>6, <1>7, <1>8, <1>9
<1> QED BY <1>2, <1>10 DEF id

(* A call is a reject of the health model only under that name. *)
LEMMA NoHealthReject ==
  ASSUME NEW op, op # "reject", NEW id
  PROVE  /\ ~HealthReject(ToVenue(op, id)) /\ ~HealthReject(ToHealth(op, id))
BY DEF HealthReject, ToVenue, ToHealth

(* The rejects reported to the health model stay real in every step. *)
LEMMA RealRejectsKept ==
  ASSUME NoWrap, Wired, SysInv, RealRejects, [SysNext]_sysVars
  PROVE  RealRejects'
<1> SUFFICES ASSUME ~Reorder, ~lost', NEW c \in calls', HealthReject(c), c.id \in issued'
             PROVE  ~book'[c.id].alive /\ book'[c.id].left > 0
  BY DEF RealRejects
<1>1. \A id \in issued :
        /\ id \in issued' /\ book'[id].left <= book[id].left
        /\ ~book[id].alive => ~book'[id].alive /\ book'[id].left = book[id].left
  BY LeftShrinks DEF Wired
<1>2. ~lost BY DEF SysNext, LoseReport, sysVars
<1>3. CASE VenueStep \/ UNCHANGED sysVars
  <2>1. UNCHANGED <<calls, issued>> BY <1>3 DEF VenueStep, sysVars, vars, ids
  <2> QED BY <1>1, <1>2, <2>1 DEF RealRejects
<1>4. CASE Place \/ PlaceExhausted \/ AllDown \/ CancelOne \/ Timeouts \/ DrainFlags
  <2>1. \E op, id : /\ op # "reject"
                    /\ c = ToVenue(op, id) \/ c = ToHealth(op, id)
    <3>1. CASE Place
      <4>1. PICK id : calls' = {ToVenue("place", id), ToHealth("sent", id)}
        BY <3>1 DEF Place, SubmitAccepted
      <4>2. "place" # "reject" /\ "sent" # "reject" OBVIOUS
      <4> QED BY <4>1, <4>2
    <3>2. CASE PlaceExhausted \/ DrainFlags
      BY <3>2 DEF PlaceExhausted, DrainFlags, SubmitExhausted, ResetRebalanceCycle,
                  ClearReconcileRequest
    <3>3. CASE AllDown
      <4>1. PICK up : calls' = {ToVenue("cancel", id) : id \in Working(up)}
        BY <3>3 DEF AllDown, SubmitAllDown
      <4>2. "cancel" # "reject" OBVIOUS
      <4> QED BY <4>1, <4>2
    <3>4. CASE CancelOne
      <4>1. PICK id : calls' = {ToVenue("cancel", id)} BY <3>4 DEF CancelOne, Cancel
      <4>2. "cancel" # "reject" OBVIOUS
      <4> QED BY <4>1, <4>2
    <3>5. CASE Timeouts
      <4>1. PICK S, T : calls' = {ToHealth("timeout", id) : id \in S}
                                   \cup {ToVenue("cancel", id) : id \in T}
        BY <3>5 DEF Timeouts, CheckAckTimeouts
      <4>2. "cancel" # "reject" /\ "timeout" # "reject" OBVIOUS
      <4> QED BY <4>1, <4>2
    <3> QED BY <1>4, <3>1, <3>2, <3>3, <3>4, <3>5
  <2> QED BY <2>1, NoHealthReject
<1>5. CASE PlaceRefused
  <2>1. PICK req \in Requests : SubmitRejectedLocally(VenueNo, req)
    BY <1>5 DEF PlaceRefused
  <2> DEFINE id == NewId(VenueNo)
  <2>2. /\ CanSubmit /\ WithinBounds(VenueNo) /\ Update(id, NewOrder(id, req, "Rejected"))
        /\ UNCHANGED issued
        /\ calls' = {ToVenue("refused", id), ToHealth("sent", id), ToHealth("reject", id)}
    BY <2>1 DEF SubmitRejectedLocally
  <2>3. /\ id \in Ids /\ id.slot \notin pool.allocated /\ id.slot \in Slots
        /\ id.gen = pool.generation[id.slot]
    BY <2>2, AcquireKeepsBooks, ManagerAssumption DEF NewId, SysInv, Wired
  <2>4. id \notin issued
    <3>1. id.gen \in Int BY <2>3 DEF Ids, Generations
    <3> QED BY <2>3, <3>1 DEF SysInv, IndInv, IssuedOK, Owns, IsCurrent
  <2> HIDE DEF id
  <2>5. c.id = id BY <2>2 DEF ToVenue, ToHealth, HealthReject
  <2> QED BY <2>2, <2>4, <2>5
<1>6. CASE Deliver
  <2>1. PICK k \in DOMAIN reports : V!Take(k) /\ Handle(reports[k]) BY <1>6 DEF Deliver
  <2>2. PICK r : r = reports[k] OBVIOUS
  <2>3. UNCHANGED book BY <2>1 DEF V!Take
  <2>4. r \in Elements(reports) /\ ReportOK(r) BY <2>2 DEF SysInv, ReportsOK, Elements
  <2>5. c.id = r.id /\ Open(r.id) /\ r.type \in {"Reject", "CancelReject"}
    <3>1. Handle(r) BY <2>1, <2>2
    <3> QED BY <3>1 DEF Handle, OnConfirm, OnFill, ApplyFill, UnknownFill, OnReject,
          OnCancelAck, OnCancelReject, OnUnsolicitedCancel, FinishCancel, Drop,
          HealthReject, ToHealth, Publish
  <2>6. r.type \in DeadKinds BY <2>5 DEF DeadKinds, EndKinds
  <2> QED BY <1>2, <2>1, <2>2, <2>3, <2>5, <2>6, RefusedOfUnfilled
<1> QED BY <1>3, <1>4, <1>5, <1>6 DEF SysNext, LoseReport

(* When the reports about an order come in order and none was lost, a       *)
(* reject counts against a venue only if the venue left something of that   *)
(* order unfilled: a cancel that lost its race with a fill stays benign     *)
(* (on_reject, expected_false_cancel_rejects_).                             *)
THEOREM LostRacesAreBenign ==
  ASSUME NoWrap, Wired, ~Reorder PROVE SysSpec => LostRacesStayBenign
<1> DEFINE Benign == ~lost' => \A c \in calls' :
             c.to = "health" /\ c.op = "reject" /\ c.id \in DOMAIN book
               => book[c.id].left > 0
<1>1. SysInit => SysInv /\ RealRejects
  <2>1. SysInit => RealRejects BY DEF SysInit, Init, RealRejects
  <2> QED BY <2>1, InitHasInv
<1>2. SysInv /\ RealRejects /\ [SysNext]_sysVars => (SysInv /\ RealRejects)'
  BY NextKeepsSysInv, RealRejectsKept
<1>3. ASSUME SysInv, RealRejects, [SysNext]_sysVars PROVE Benign
  <2> SUFFICES ASSUME ~lost', NEW c \in calls', HealthReject(c), c.id \in DOMAIN book
               PROVE  book[c.id].left > 0
    BY DEF HealthReject
  <2>1. DOMAIN book = issued BY <1>3 DEF SysInv, SysTyped
  <2>2. c.id \in issued' /\ book'[c.id].left <= book[c.id].left
    BY <1>3, <2>1, LeftShrinks DEF Wired
  <2>3. book'[c.id].left > 0 BY <1>3, <2>2, RealRejectsKept DEF RealRejects
  <2>4. SysInv' BY <1>3, NextKeepsSysInv
  <2>5. book'[c.id].left \in Nat /\ book[c.id].left \in Nat
    <3>1. book[c.id].left \in Nat BY <1>3, <2>1, PartsAre
    <3>2. book' \in [issued' -> BookType] BY <2>4 DEF SysInv, SysTyped
    <3> QED BY <2>2, <3>1, <3>2 DEF BookType
  <2> QED BY <2>2, <2>3, <2>5
<1>4. SysInv /\ RealRejects /\ [SysNext]_sysVars => [Benign]_sysVars BY <1>3
<1> HIDE DEF Benign
<1>5. SysSpec => [][Benign]_sysVars BY <1>1, <1>2, <1>4, PTL DEF SysSpec
<1> QED BY <1>5 DEF LostRacesStayBenign, Benign

-----------------------------------------------------------------------------
(* The manager and the simulator. *)

(* The simulator is one of the manager's venues, and any number may be a    *)
(* trade id, a quantity or a price of a fill.                               *)
SimWired == /\ Venue \in Venues
            /\ Nat \subseteq Trades /\ Nat \subseteq Quantities /\ Int \subseteq Prices

(* The fill that a test moves before the ack does not come after the last. *)
LastChunkIsLast ==
  ReorderFillBeforeAck /\ Chunks > 1 => AckLatency - 1 <= FillLatency + (Chunks - 1) * FillGap

(* Fills injected by a test are not the simulator's own. *)
OtherKinds == DeadKinds \cup {"Confirm"}
InjectsNoFill == Injected \subseteq OtherKinds

EventType == [in : Int, type : OtherKinds \cup {"Fill"}, id : Ids,
              qty : Nat, price : Int, trade : Nat, final : BOOLEAN]
WorkingType == [inst : Instruments, side : Sides, size : Nat, left : Int, price : Int,
                alive : BOOLEAN, seen : SUBSET Nat]

(* An event is of an order of the venue; a fill carries the order's price.  *)
EventOK(e, w) == e.id \in DOMAIN w /\ (e.type = "Fill" => e.price = w[e.id].price)

SimTyped ==
  /\ working \in [issued -> WorkingType] /\ simPosition \in [Instruments -> Int]
  /\ queue \in Seq(EventType) /\ tradeCounter \in Nat
  /\ \A e \in Elements(queue) : EventOK(e, working)
  /\ IsFiniteSet(issued) /\ live \subseteq issued

(* Of an open order with a price both sides know the same trades and the    *)
(* same rest; of one without, the manager has booked nothing.               *)
SameBook(id, o, w) ==
  /\ o.inst = w.inst /\ o.side = w.side /\ o.size - o.filled = w.left
  /\ \A t \in Trades : <<id, t>> \in trades <=> t \in w.seen
Agree(id, o, w) == IF w.price > 0 THEN w.alive /\ SameBook(id, o, w)
                   ELSE o.size = w.size /\ o.filled = 0

(* What is alive at the venue is open, both sides agree on every open       *)
(* order, and the positions differ by what only the venue booked.           *)
SameBooks ==
  /\ \A id \in issued : working[id].alive => id \in live
  /\ \A id \in live : Agree(id, orders[id.slot], working[id])
  /\ \A i \in Instruments : simPosition[i] - position[i] = DroppedFills(working, i)

(* Of one order, a trade is one quantity, and one trade is the last. *)
FillOf(e, id) == e.type = "Fill" /\ e.id = id
FillsAgree(q) ==
  \A j, k \in DOMAIN q : q[j].type = "Fill" /\ FillOf(q[k], q[j].id) =>
    /\ q[j].qty > 0
    /\ q[j].trade = q[k].trade => q[j].qty = q[k].qty /\ q[j].final = q[k].final
    /\ q[j].final /\ q[k].final => q[j].trade = q[k].trade

(* Delivered first: earlier, or scheduled first for the same time. *)
Sooner(q, j, k) == q[j].in < q[k].in \/ (q[j].in = q[k].in /\ j <= k)

(* Every other trade the venue has not seen comes before the last one. *)
LastIsLast(q, id, seen) ==
  \A j, k \in DOMAIN q :
    /\ FillOf(q[j], id) /\ ~q[j].final /\ q[j].trade \notin seen
    /\ FillOf(q[k], id) /\ q[k].final
    => \E m \in DOMAIN q : FillOf(q[m], id) /\ q[m].trade = q[j].trade /\ Sooner(q, m, k)

(* The trades of an order still to come, which make up what is left of it. *)
TradeType == [trade : Nat, qty : Nat]
TradeOf(e) == [trade |-> e.trade, qty |-> e.qty]
ToCome(q, id, seen) ==
  {TradeOf(e) : e \in {x \in Elements(q) : FillOf(x, id) /\ x.trade \notin seen}}
Unseen(T, seen) == {t \in T : t.trade \notin seen}
TradedQty == [t \in TradeType |-> t.qty]
Traded(T) == SumFunctionOnSet(TradedQty, T)
CoversRest(q, id, w) ==
  LET T == ToCome(q, id, w.seen) IN T # {} => Traded(T) = w.left

FillsToCome ==
  /\ FillsAgree(queue)
  /\ \A id \in live : working[id].price > 0 =>
       LastIsLast(queue, id, working[id].seen) /\ CoversRest(queue, id, working[id])

SimInv == IndInv /\ SimTyped /\ SameBooks /\ FillsToCome

-----------------------------------------------------------------------------
(* The simulator's queue. *)

(* A queue without the element at k: the others, in the same order. *)
WithoutEvent(q, k, S, p) ==
  /\ p \in Seq(S)
  /\ \E at : /\ \A j \in DOMAIN p : at[j] \in DOMAIN q /\ p[j] = q[at[j]] /\ at[j] # k
             /\ \A i, j \in DOMAIN p : (at[i] = at[j] => i = j) /\ (i < j => at[i] < at[j])
             /\ \A m \in DOMAIN q : m # k => \E j \in DOMAIN p : at[j] = m

LEMMA OneRemoved ==
  ASSUME NEW S, NEW q \in Seq(S), NEW k \in DOMAIN q
  PROVE  WithoutEvent(q, k, S, SubSeq(q, 1, k - 1) \o SubSeq(q, k + 1, Len(q)))
<1> DEFINE a == SubSeq(q, 1, k - 1)
           b == SubSeq(q, k + 1, Len(q))
           p == a \o b
<1>1. /\ Len(q) \in Nat /\ DOMAIN q = 1 .. Len(q) /\ k \in 1 .. Len(q) OBVIOUS
<1>2. /\ a \in Seq(S) /\ Len(a) = k - 1 /\ \A j \in 1 .. k - 1 : a[j] = q[j]
  <2>1. \A j \in 1 .. k - 1 : q[j] \in S BY <1>1
  <2> QED BY <1>1, <2>1, SubSeqProperties
<1>3. /\ b \in Seq(S) /\ Len(b) = Len(q) - k
      /\ \A j \in 1 .. Len(q) - k : b[j] = q[k + j]
  <2>1. \A j \in k + 1 .. Len(q) : q[j] \in S BY <1>1
  <2> QED BY <1>1, <2>1, SubSeqProperties
<1> HIDE DEF a, b
<1>4. /\ p \in Seq(S) /\ Len(p) = Len(q) - 1 /\ DOMAIN p = 1 .. Len(q) - 1
      /\ \A j \in 1 .. Len(q) - 1 : p[j] = IF j < k THEN q[j] ELSE q[j + 1]
  <2>1. p \in Seq(S) /\ Len(p) = Len(a) + Len(b) BY <1>2, <1>3, ConcatProperties
  <2>2. \A j \in 1 .. Len(q) - 1 : p[j] = IF j <= k - 1 THEN a[j] ELSE b[j - (k - 1)]
    BY <1>1, <1>2, <1>3, ConcatProperties
  <2>4. Len(p) = Len(q) - 1 BY <1>1, <1>2, <1>3, <2>1
  <2> HIDE DEF p
  <2>3. \A j \in 1 .. Len(q) - 1 : p[j] = IF j < k THEN q[j] ELSE q[j + 1]
    <3> SUFFICES ASSUME NEW j \in 1 .. Len(q) - 1
                 PROVE  p[j] = IF j < k THEN q[j] ELSE q[j + 1]
      OBVIOUS
    <3>1. CASE j < k BY <1>1, <1>2, <2>2, <3>1
    <3>2. CASE ~(j < k)
      <4>1. j - (k - 1) \in 1 .. Len(q) - k /\ k + (j - (k - 1)) = j + 1 BY <1>1, <3>2
      <4>2. p[j] = b[j - (k - 1)]
        <5>1. ~(j <= k - 1) BY <1>1, <3>2
        <5> QED BY <2>2, <5>1
      <4>3. b[j - (k - 1)] = q[k + (j - (k - 1))] BY <1>3, <4>1
      <4> QED BY <3>2, <4>1, <4>2, <4>3
    <3> QED BY <3>1, <3>2
  <2>5. DOMAIN p = 1 .. Len(q) - 1 BY <2>1, <2>4
  <2> QED BY <2>1, <2>3, <2>4, <2>5
<1> HIDE DEF p
<1> DEFINE at == [j \in 1 .. Len(q) - 1 |-> IF j < k THEN j ELSE j + 1]
<1>5. /\ \A j \in DOMAIN p : at[j] \in DOMAIN q /\ p[j] = q[at[j]] /\ at[j] # k
      /\ \A i, j \in DOMAIN p : (at[i] = at[j] => i = j) /\ (i < j => at[i] < at[j])
      /\ \A m \in DOMAIN q : m # k => \E j \in DOMAIN p : at[j] = m
  <2>1. \A j \in DOMAIN p : at[j] \in DOMAIN q /\ p[j] = q[at[j]] /\ at[j] # k
    BY <1>1, <1>4
  <2>2. \A i, j \in DOMAIN p : (at[i] = at[j] => i = j) /\ (i < j => at[i] < at[j])
    BY <1>1, <1>4
  <2>3. ASSUME NEW m \in DOMAIN q, m # k PROVE \E j \in DOMAIN p : at[j] = m
    <3>1. CASE m < k
      <4>1. m \in DOMAIN p /\ at[m] = m BY <1>1, <1>4, <2>3, <3>1
      <4> QED BY <4>1
    <3>2. CASE ~(m < k)
      <4>1. m - 1 \in DOMAIN p /\ ~(m - 1 < k) /\ (m - 1) + 1 = m BY <1>1, <1>4, <2>3, <3>2
      <4>2. at[m - 1] = m BY <1>4, <4>1
      <4> QED BY <4>1, <4>2
    <3> QED BY <3>1, <3>2
  <2> QED BY <2>1, <2>2, <2>3
<1> HIDE DEF at
<1> QED BY <1>4, <1>5 DEF WithoutEvent, p, a, b

(* An event leaves the queue, whose trade, if it is a fill, is then seen:   *)
(* what is said of the fills to come stays true of the others.              *)
LEMMA EventRemoved ==
  ASSUME NEW q \in Seq(EventType), FillsAgree(q), NEW k \in DOMAIN q
  PROVE  LET p == Sim!RemoveAt(q, k)
         IN  /\ p \in Seq(EventType) /\ Elements(p) \subseteq Elements(q) /\ FillsAgree(p)
             /\ \A id, a, b :
                  a \subseteq b /\ (FillOf(q[k], id) => q[k].trade \in b) =>
                    /\ LastIsLast(q, id, a) => LastIsLast(p, id, b)
                    /\ ToCome(p, id, b) = Unseen(ToCome(q, id, a), b)
<1> DEFINE p == Sim!RemoveAt(q, k)
<1>1. p = SubSeq(q, 1, k - 1) \o SubSeq(q, k + 1, Len(q)) BY DEF Sim!RemoveAt
<1> HIDE DEF p
<1>2. WithoutEvent(q, k, EventType, p) BY <1>1, OneRemoved
<1>3. PICK at : /\ \A j \in DOMAIN p : at[j] \in DOMAIN q /\ p[j] = q[at[j]] /\ at[j] # k
                /\ \A i, j \in DOMAIN p : (at[i] = at[j] => i = j) /\ (i < j => at[i] < at[j])
                /\ \A m \in DOMAIN q : m # k => \E j \in DOMAIN p : at[j] = m
  BY <1>2 DEF WithoutEvent
<1>4. Elements(p) \subseteq Elements(q) BY <1>3 DEF Elements
<1>5. FillsAgree(p)
  <2> SUFFICES ASSUME NEW i \in DOMAIN p, NEW j \in DOMAIN p, p[i].type = "Fill",
                      FillOf(p[j], p[i].id)
               PROVE  /\ p[i].qty > 0
                      /\ p[i].trade = p[j].trade => p[i].qty = p[j].qty /\ p[i].final = p[j].final
                      /\ p[i].final /\ p[j].final => p[i].trade = p[j].trade
    BY DEF FillsAgree
  <2>1. at[i] \in DOMAIN q /\ at[j] \in DOMAIN q /\ p[i] = q[at[i]] /\ p[j] = q[at[j]] BY <1>3
  <2> QED BY <2>1 DEF FillsAgree
<1>6. ASSUME NEW id, NEW a, NEW b, a \subseteq b, FillOf(q[k], id) => q[k].trade \in b
      PROVE  ToCome(p, id, b) = Unseen(ToCome(q, id, a), b)
  <2>1. ASSUME NEW t \in ToCome(p, id, b) PROVE t \in ToCome(q, id, a) /\ t.trade \notin b
    <3>1. PICK e \in Elements(p) : FillOf(e, id) /\ e.trade \notin b /\ t = TradeOf(e)
      BY DEF ToCome
    <3>2. e \in Elements(q) /\ e.trade \notin a BY <1>4, <1>6, <3>1
    <3> QED BY <3>1, <3>2 DEF ToCome, TradeOf
  <2>2. ASSUME NEW t \in ToCome(q, id, a), t.trade \notin b PROVE t \in ToCome(p, id, b)
    <3>1. PICK e \in Elements(q) : FillOf(e, id) /\ t = TradeOf(e) BY DEF ToCome
    <3>2. PICK m \in DOMAIN q : e = q[m] BY DEF Elements
    <3>3. e.trade \notin b BY <2>2, <3>1 DEF TradeOf
    <3>4. m # k BY <1>6, <3>1, <3>2, <3>3
    <3>5. PICK j \in DOMAIN p : at[j] = m BY <1>3, <3>4
    <3>6. e \in Elements(p) BY <1>3, <3>2, <3>5 DEF Elements
    <3> QED BY <3>1, <3>3, <3>6 DEF ToCome
  <2> QED BY <2>1, <2>2 DEF Unseen
<1>7. ASSUME NEW id, NEW a, NEW b, a \subseteq b, FillOf(q[k], id) => q[k].trade \in b,
             LastIsLast(q, id, a)
      PROVE  LastIsLast(p, id, b)
  <2> SUFFICES ASSUME NEW i \in DOMAIN p, NEW j \in DOMAIN p,
                      FillOf(p[i], id), ~p[i].final, p[i].trade \notin b,
                      FillOf(p[j], id), p[j].final
               PROVE  \E m \in DOMAIN p : FillOf(p[m], id) /\ p[m].trade = p[i].trade
                                          /\ Sooner(p, m, j)
    BY DEF LastIsLast
  <2>1. at[i] \in DOMAIN q /\ at[j] \in DOMAIN q /\ p[i] = q[at[i]] /\ p[j] = q[at[j]] BY <1>3
  <2>2. PICK n \in DOMAIN q : FillOf(q[n], id) /\ q[n].trade = p[i].trade /\ Sooner(q, n, at[j])
    BY <1>7, <2>1 DEF LastIsLast
  <2>3. n # k BY <1>7, <2>2
  <2>4. PICK m \in DOMAIN p : at[m] = n BY <1>3, <2>3
  <2>5. p[m] = q[n] BY <1>3, <2>4
  <2>6. n <= at[j] => m <= j
    <3>1. m \in Nat /\ j \in Nat /\ n \in Nat /\ at[j] \in Nat BY <1>2, <2>1 DEF WithoutEvent
    <3>2. j < m => at[j] < at[m] BY <1>3
    <3> QED BY <2>4, <3>1, <3>2
  <2>7. Sooner(p, m, j) BY <2>1, <2>2, <2>5, <2>6 DEF Sooner
  <2> QED BY <2>2, <2>5, <2>7
<1> QED BY <1>2, <1>4, <1>5, <1>6, <1>7 DEF p, WithoutEvent

(* The events of one queue behind those of another. *)
LEMMA EventsAdded ==
  ASSUME NEW q \in Seq(EventType), NEW s \in Seq(EventType)
  PROVE  LET p == q \o s
         IN  /\ p \in Seq(EventType) /\ Elements(p) = Elements(q) \cup Elements(s)
             /\ Len(q) \in Nat
             /\ \A i \in DOMAIN q : i \in DOMAIN p /\ p[i] = q[i]
             /\ \A i \in DOMAIN s : Len(q) + i \in DOMAIN p /\ p[Len(q) + i] = s[i]
             /\ \A i \in DOMAIN p : \/ i \in DOMAIN q
                                    \/ \E j \in DOMAIN s : i = Len(q) + j
<1> DEFINE p == q \o s
<1>1. /\ p \in Seq(EventType) /\ Len(p) = Len(q) + Len(s) /\ Len(q) \in Nat /\ Len(s) \in Nat
      /\ \A i \in 1 .. Len(p) : p[i] = IF i <= Len(q) THEN q[i] ELSE s[i - Len(q)]
  BY ConcatProperties
<1>2. DOMAIN p = 1 .. Len(q) + Len(s) /\ DOMAIN q = 1 .. Len(q) /\ DOMAIN s = 1 .. Len(s)
  BY <1>1
<1> HIDE DEF p
<1>3. \A i \in DOMAIN q : i \in DOMAIN p /\ p[i] = q[i] BY <1>1, <1>2
<1>4. ASSUME NEW i \in DOMAIN s PROVE Len(q) + i \in DOMAIN p /\ p[Len(q) + i] = s[i]
  <2>1. Len(q) + i \in 1 .. Len(p) /\ ~(Len(q) + i <= Len(q)) /\ (Len(q) + i) - Len(q) = i
    BY <1>1, <1>2
  <2> QED BY <1>1, <1>2, <2>1
<1>5. ASSUME NEW i \in DOMAIN p PROVE i \in DOMAIN q \/ \E j \in DOMAIN s : i = Len(q) + j
  <2>1. CASE i <= Len(q) BY <1>1, <1>2, <2>1
  <2>2. CASE ~(i <= Len(q))
    <3>1. i - Len(q) \in DOMAIN s /\ i = Len(q) + (i - Len(q)) BY <1>1, <1>2, <2>2
    <3> QED BY <3>1
  <2> QED BY <2>1, <2>2
<1>6. Elements(p) = Elements(q) \cup Elements(s)
  <2>1. ASSUME NEW i \in DOMAIN p PROVE p[i] \in Elements(q) \cup Elements(s)
    BY <1>3, <1>4, <1>5 DEF Elements
  <2> QED BY <1>3, <1>4, <2>1 DEF Elements
<1> QED BY <1>1, <1>3, <1>4, <1>5, <1>6 DEF p

(* What is said of the fills to come is said of each order's own events.    *)
LEMMA OwnFills ==
  ASSUME NEW q \in Seq(EventType), NEW s \in Seq(EventType),
         \A x \in Elements(q), y \in Elements(s) : x.type = "Fill" => ~FillOf(y, x.id)
  PROVE  LET p == q \o s
         IN  /\ FillsAgree(q) /\ FillsAgree(s) => FillsAgree(p)
             /\ \A id, seen :
                  (\A y \in Elements(s) : ~FillOf(y, id)) =>
                     /\ LastIsLast(q, id, seen) => LastIsLast(p, id, seen)
                     /\ ToCome(p, id, seen) = ToCome(q, id, seen)
             /\ \A id, seen :
                  (\A x \in Elements(q) : ~FillOf(x, id)) =>
                     /\ LastIsLast(s, id, seen) => LastIsLast(p, id, seen)
                     /\ ToCome(p, id, seen) = ToCome(s, id, seen)
<1> DEFINE p == q \o s
           n == Len(q)
<1>1. /\ p \in Seq(EventType) /\ Elements(p) = Elements(q) \cup Elements(s)
      /\ n \in Nat
      /\ \A i \in DOMAIN q : i \in DOMAIN p /\ p[i] = q[i] /\ p[i] \in Elements(q)
      /\ \A i \in DOMAIN s : n + i \in DOMAIN p /\ p[n + i] = s[i] /\ s[i] \in Elements(s)
      /\ \A i \in DOMAIN p : \/ i \in DOMAIN q
                             \/ \E j \in DOMAIN s : i = n + j
  BY EventsAdded DEF Elements
<1>2. DOMAIN q \subseteq Nat /\ DOMAIN s \subseteq Nat BY <1>1
<1> HIDE DEF p, n
<1>3. ASSUME FillsAgree(q), FillsAgree(s) PROVE FillsAgree(p)
  <2> SUFFICES ASSUME NEW i \in DOMAIN p, NEW j \in DOMAIN p, p[i].type = "Fill",
                      FillOf(p[j], p[i].id)
               PROVE  /\ p[i].qty > 0
                      /\ p[i].trade = p[j].trade => p[i].qty = p[j].qty /\ p[i].final = p[j].final
                      /\ p[i].final /\ p[j].final => p[i].trade = p[j].trade
    BY DEF FillsAgree
  <2>1. CASE i \in DOMAIN q /\ j \in DOMAIN q
    <3>1. p[i] = q[i] /\ p[j] = q[j] BY <1>1, <2>1
    <3> QED BY <1>3, <2>1, <3>1 DEF FillsAgree
  <2>2. CASE i \notin DOMAIN q /\ j \notin DOMAIN q
    <3>1. PICK a \in DOMAIN s, b \in DOMAIN s : i = n + a /\ j = n + b BY <1>1, <2>2
    <3>2. p[i] = s[a] /\ p[j] = s[b] BY <1>1, <3>1
    <3> QED BY <1>3, <3>2 DEF FillsAgree
  <2>3. CASE i \in DOMAIN q /\ j \notin DOMAIN q
    <3>1. PICK b \in DOMAIN s : j = n + b BY <1>1, <2>3
    <3>2. p[i] \in Elements(q) /\ p[j] \in Elements(s) BY <1>1, <2>3, <3>1
    <3> QED BY <3>2
  <2>4. CASE i \notin DOMAIN q /\ j \in DOMAIN q
    <3>1. PICK a \in DOMAIN s : i = n + a BY <1>1, <2>4
    <3>2. p[i] \in Elements(s) /\ p[j] \in Elements(q) BY <1>1, <2>4, <3>1
    <3> QED BY <3>2 DEF FillOf
  <2> QED BY <2>1, <2>2, <2>3, <2>4
<1>4. ASSUME NEW id, NEW seen, \A y \in Elements(s) : ~FillOf(y, id)
      PROVE  /\ LastIsLast(q, id, seen) => LastIsLast(p, id, seen)
             /\ ToCome(p, id, seen) = ToCome(q, id, seen)
  <2>1. \A i \in DOMAIN p : FillOf(p[i], id) => i \in DOMAIN q BY <1>1, <1>4
  <2>2. ASSUME LastIsLast(q, id, seen) PROVE LastIsLast(p, id, seen)
    <3> SUFFICES ASSUME NEW i \in DOMAIN p, NEW j \in DOMAIN p,
                        FillOf(p[i], id), ~p[i].final, p[i].trade \notin seen,
                        FillOf(p[j], id), p[j].final
                 PROVE  \E m \in DOMAIN p : FillOf(p[m], id) /\ p[m].trade = p[i].trade
                                            /\ Sooner(p, m, j)
      BY DEF LastIsLast
    <3>1. i \in DOMAIN q /\ j \in DOMAIN q BY <2>1
    <3>2. p[i] = q[i] /\ p[j] = q[j] BY <1>1, <3>1
    <3>3. PICK m \in DOMAIN q : FillOf(q[m], id) /\ q[m].trade = q[i].trade /\ Sooner(q, m, j)
      BY <2>2, <3>1, <3>2 DEF LastIsLast
    <3>4. m \in DOMAIN p /\ p[m] = q[m] BY <1>1
    <3>5. Sooner(p, m, j) BY <3>2, <3>3, <3>4 DEF Sooner
    <3> QED BY <3>2, <3>3, <3>4, <3>5
  <2> QED BY <1>1, <1>4, <2>2 DEF ToCome
<1>5. ASSUME NEW id, NEW seen, \A x \in Elements(q) : ~FillOf(x, id)
      PROVE  /\ LastIsLast(s, id, seen) => LastIsLast(p, id, seen)
             /\ ToCome(p, id, seen) = ToCome(s, id, seen)
  <2>1. \A i \in DOMAIN p : FillOf(p[i], id) => \E j \in DOMAIN s : i = n + j BY <1>1, <1>5
  <2>2. ASSUME LastIsLast(s, id, seen) PROVE LastIsLast(p, id, seen)
    <3> SUFFICES ASSUME NEW i \in DOMAIN p, NEW j \in DOMAIN p,
                        FillOf(p[i], id), ~p[i].final, p[i].trade \notin seen,
                        FillOf(p[j], id), p[j].final
                 PROVE  \E m \in DOMAIN p : FillOf(p[m], id) /\ p[m].trade = p[i].trade
                                            /\ Sooner(p, m, j)
      BY DEF LastIsLast
    <3>1. PICK a \in DOMAIN s, b \in DOMAIN s : i = n + a /\ j = n + b BY <2>1
    <3>2. p[i] = s[a] /\ p[j] = s[b] BY <1>1, <3>1
    <3>3. PICK m \in DOMAIN s : FillOf(s[m], id) /\ s[m].trade = s[a].trade /\ Sooner(s, m, b)
      BY <2>2, <3>2 DEF LastIsLast
    <3>4. n + m \in DOMAIN p /\ p[n + m] = s[m] BY <1>1
    <3>5. Sooner(p, n + m, j)
      <4>1. m \in Nat /\ b \in Nat /\ n \in Nat BY <1>1, <1>2
      <4>2. m <= b => n + m <= j BY <3>1, <4>1
      <4> QED BY <3>2, <3>3, <3>4, <4>2 DEF Sooner
    <3> QED BY <3>2, <3>3, <3>4, <3>5
  <2> QED BY <1>1, <1>5, <2>2 DEF ToCome
<1> QED BY <1>3, <1>4, <1>5 DEF p

-----------------------------------------------------------------------------
(* The fills of an order. *)

(* The table FlattenSeq fills: row i ends with the i-th sequence. *)
Row(s, f, i) == IF i = 1 THEN s[i] ELSE f[i - 1] \o s[i]
IsFlat(s, n, f) == f = [i \in 1 .. n |-> Row(s, f, i)]

(* What the definition says of the sequences joined. *)
LEMMA FlattenIsTable ==
  \A s : Len(s) # 0 => Sim!FlattenSeq(s) = (CHOOSE f : IsFlat(s, Len(s), f))[Len(s)]
BY Zenon DEF Sim!FlattenSeq, IsFlat, Row

(* There is such a table. *)
LEMMA FlatExists ==
  ASSUME NEW s, NEW n \in Nat PROVE \E f : IsFlat(s, n, f)
<1> DEFINE Good == {m \in Nat : \E f : IsFlat(s, m, f)}
<1>1. 0 \in Good
  <2> DEFINE f == [i \in 1 .. 0 |-> 0]
  <2>1. f = [i \in 1 .. 0 |-> Row(s, f, i)]
    <3> HIDE DEF f
    <3>1. \A i \in 1 .. 0 : FALSE OBVIOUS
    <3> QED BY <3>1 DEF f
  <2> HIDE DEF f
  <2>2. IsFlat(s, 0, f) BY <2>1 DEF IsFlat
  <2> QED BY <2>2
<1>2. ASSUME NEW m \in Nat, m \in Good PROVE m + 1 \in Good
  <2>1. PICK f : IsFlat(s, m, f) BY <1>2
  <2> DEFINE D == 1 .. m
             E == 1 .. m + 1
             last == Row(s, f, m + 1)
             g == [i \in E |-> IF i = m + 1 THEN last ELSE f[i]]
  <2>2. /\ \A i \in D : i \in E /\ i # m + 1
        /\ \A i \in E : i = m + 1 \/ i \in D
        /\ \A i \in E : i # 1 => i - 1 \in D
    OBVIOUS
  <2>3. \A i \in D : f[i] = Row(s, f, i) BY <2>1 DEF IsFlat
  <2> HIDE DEF D, E, last
  <2>4. \A i \in E : i # 1 => g[i - 1] = f[i - 1] BY <2>2
  <2>5. \A i \in E : Row(s, g, i) = Row(s, f, i) BY <2>4 DEF Row
  <2>6. \A i \in E : g[i] = Row(s, f, i) BY <2>2, <2>3 DEF last
  <2>7. g = [i \in E |-> g[i]] OBVIOUS
  <2> HIDE DEF g
  <2>8. g = [i \in E |-> Row(s, g, i)] BY <2>5, <2>6, <2>7
  <2>9. IsFlat(s, m + 1, g) BY <2>8 DEF IsFlat, E
  <2> QED BY <2>9
<1> HIDE DEF Good
<1>3. \A m \in Nat : m \in Good BY <1>1, <1>2, NumberInduction
<1> QED BY <1>3 DEF Good

(* The elements of the first m sequences, those of each behind those of the *)
(* ones before.                                                             *)
InRows(s, m, p, row) ==
  /\ \A k \in DOMAIN p : row[k] \in 1 .. m /\ p[k] \in Elements(s[row[k]])
  /\ \A k, l \in DOMAIN p : k < l => row[k] <= row[l]
  /\ \A i \in 1 .. m : \A e \in Elements(s[i]) :
       \E k \in DOMAIN p : row[k] = i /\ p[k] = e
Joined(s, m, S, p) == p \in Seq(S) /\ \E row : InRows(s, m, p, row)

(* One more sequence is joined. *)
LEMMA JoinOne ==
  ASSUME NEW S, NEW s, NEW m \in Nat, NEW p, Joined(s, m, S, p), s[m + 1] \in Seq(S)
  PROVE  Joined(s, m + 1, S, p \o s[m + 1])
<1> DEFINE t == s[m + 1]
           r == p \o t
           n == Len(p)
<1>1. /\ r \in Seq(S) /\ Len(r) = n + Len(t) /\ n \in Nat /\ Len(t) \in Nat
      /\ \A i \in 1 .. n + Len(t) : r[i] = IF i <= n THEN p[i] ELSE t[i - n]
      /\ DOMAIN r = 1 .. n + Len(t) /\ DOMAIN p = 1 .. n /\ DOMAIN t = 1 .. Len(t)
  BY ConcatProperties DEF Joined
<1> HIDE DEF r, n
<1>2. PICK row : InRows(s, m, p, row) BY DEF Joined
<1> DEFINE new == [k \in 1 .. n + Len(t) |-> IF k <= n THEN row[k] ELSE m + 1]
<1>3. ASSUME NEW k \in DOMAIN r
      PROVE  \/ /\ k \in DOMAIN p /\ k <= n /\ r[k] = p[k] /\ new[k] = row[k]
             \/ /\ ~(k <= n) /\ k - n \in DOMAIN t /\ r[k] = t[k - n] /\ new[k] = m + 1
  BY <1>1
<1> HIDE DEF t
<1>4. /\ \A k \in DOMAIN p : k \in DOMAIN r /\ r[k] = p[k] /\ new[k] = row[k] /\ row[k] \in 1 .. m
      /\ \A k \in DOMAIN t : n + k \in DOMAIN r /\ r[n + k] = t[k] /\ new[n + k] = m + 1
  <2>1. ASSUME NEW k \in DOMAIN p
        PROVE  k \in DOMAIN r /\ r[k] = p[k] /\ new[k] = row[k] /\ row[k] \in 1 .. m
    BY <1>1, <1>2 DEF InRows
  <2>2. ASSUME NEW k \in DOMAIN t PROVE n + k \in DOMAIN r /\ r[n + k] = t[k] /\ new[n + k] = m + 1
    <3>1. n + k \in 1 .. n + Len(t) /\ ~(n + k <= n) /\ (n + k) - n = k BY <1>1
    <3> QED BY <1>1, <3>1
  <2> QED BY <2>1, <2>2
<1> HIDE DEF new
<1>5. ASSUME NEW k \in DOMAIN r PROVE new[k] \in 1 .. m + 1 /\ r[k] \in Elements(s[new[k]])
  <2>1. CASE k \in DOMAIN p BY <1>2, <1>4, <2>1 DEF InRows
  <2>2. CASE k \notin DOMAIN p
    <3>1. k - n \in DOMAIN t /\ r[k] = t[k - n] /\ new[k] = m + 1 BY <1>3, <2>2
    <3> QED BY <3>1 DEF Elements, t
  <2> QED BY <2>1, <2>2
<1>6. ASSUME NEW k \in DOMAIN r, NEW l \in DOMAIN r, k < l PROVE new[k] <= new[l]
  <2>1. k \in Nat /\ l \in Nat BY <1>1
  <2>2. CASE l <= n
    <3>1. k \in DOMAIN p /\ l \in DOMAIN p BY <1>1, <1>6, <2>1, <2>2
    <3> QED BY <1>2, <1>4, <1>6, <3>1 DEF InRows
  <2>3. CASE ~(l <= n)
    <3>1. new[l] = m + 1 BY <1>3, <2>3
    <3> QED BY <1>5, <3>1
  <2> QED BY <2>2, <2>3
<1>7. ASSUME NEW i \in 1 .. m + 1, NEW e \in Elements(s[i])
      PROVE  \E k \in DOMAIN r : new[k] = i /\ r[k] = e
  <2>1. CASE i \in 1 .. m
    <3>1. PICK k \in DOMAIN p : row[k] = i /\ p[k] = e BY <1>2, <2>1 DEF InRows
    <3> QED BY <1>4, <3>1
  <2>2. CASE i \notin 1 .. m
    <3>1. i = m + 1 BY <2>2
    <3>2. PICK k \in DOMAIN t : e = t[k] BY <1>7, <3>1 DEF Elements, t
    <3> QED BY <1>4, <3>1, <3>2
  <2> QED BY <2>1, <2>2
<1>8. InRows(s, m + 1, r, new) BY <1>5, <1>6, <1>7 DEF InRows
<1>9. Joined(s, m + 1, S, r) BY <1>1, <1>8 DEF Joined
<1> QED BY <1>9 DEF r, t

(* The sequences joined. *)
LEMMA FlattenJoins ==
  ASSUME NEW S, NEW n \in Nat \ {0}, NEW s, s = [i \in 1 .. n |-> s[i]],
         \A i \in 1 .. n : s[i] \in Seq(S)
  PROVE  Joined(s, n, S, Sim!FlattenSeq(s))
<1>1. Len(s) = n
  <2>1. s \in Seq(Seq(S)) OBVIOUS
  <2> QED BY <2>1
<1> DEFINE f == CHOOSE f : IsFlat(s, n, f)
<1>2. Sim!FlattenSeq(s) = f[n] BY <1>1, FlattenIsTable
<1>3. IsFlat(s, n, f) BY FlatExists
<1> HIDE DEF f
<1>4. \A i \in 1 .. n : f[i] = Row(s, f, i) BY <1>3 DEF IsFlat
<1> DEFINE Good == {m \in Nat : m \in 1 .. n => Joined(s, m, S, f[m])}
<1>5. 0 \in Good OBVIOUS
<1>6. ASSUME NEW m \in Nat, m \in Good, m + 1 \in 1 .. n PROVE Joined(s, m + 1, S, f[m + 1])
  <2>1. s[m + 1] \in Seq(S) BY <1>6
  <2>2. CASE m = 0
    <3>1. f[1] = s[1] /\ s[1] \in Seq(S) BY <1>4, <1>6, <2>2 DEF Row
    <3> DEFINE p == s[1]
               row == [k \in DOMAIN p |-> 1]
    <3>2. InRows(s, 1, p, row) BY DEF InRows, Elements
    <3> HIDE DEF row
    <3>3. Joined(s, 1, S, p) BY <3>1, <3>2 DEF Joined
    <3> QED BY <2>2, <3>1, <3>3
  <2>3. CASE m # 0
    <3>1. m \in 1 .. n /\ m + 1 # 1 /\ (m + 1) - 1 = m BY <1>6, <2>3
    <3>2. f[m + 1] = f[m] \o s[m + 1] BY <1>4, <1>6, <3>1 DEF Row
    <3>3. Joined(s, m, S, f[m]) BY <1>6, <3>1
    <3> QED BY <2>1, <3>2, <3>3, JoinOne
  <2> QED BY <2>2, <2>3
<1>7. \A m \in Nat : m \in Good => m + 1 \in Good BY <1>6
<1> HIDE DEF Good
<1>8. \A m \in Nat : m \in Good BY <1>5, <1>7, NumberInduction
<1> QED BY <1>2, <1>8 DEF Good

(* The chunks of an order: none is empty, those before the last are equal   *)
(* and leave the rest to the last, and none is due after the last.          *)
LEMMA ChunksAre ==
  ASSUME NEW size \in Nat \ {0}
  PROVE  LET first == Sim!FirstChunk(size)
             base  == Sim!Base(size)
         IN /\ base \in Nat /\ Chunks \in Nat \ {0} /\ first \in 1 .. Chunks
            /\ \A i \in first .. Chunks : Sim!ChunkQty(size, i) \in Nat \ {0}
            /\ \A i \in first .. Chunks - 1 : Sim!ChunkQty(size, i) = base
            /\ (Chunks - first) * base + Sim!ChunkQty(size, Chunks) = size
            /\ \A i \in 1 .. Chunks : Sim!ChunkAt(i) \in Int
            /\ LastChunkIsLast => \A i \in 1 .. Chunks : Sim!ChunkAt(i) <= Sim!ChunkAt(Chunks)
<1> DEFINE first == Sim!FirstChunk(size)
           base  == Sim!Base(size)
           rest  == base * (Chunks - 1)
<1>1. /\ Chunks \in Nat \ {0} /\ AckLatency \in Nat /\ FillLatency \in Nat /\ FillGap \in Nat
      /\ ReorderFillBeforeAck \in BOOLEAN
  BY SimAssumption
<1>2. base = size \div Chunks BY DEF Sim!Base
<1>3. base \in Nat /\ base * Chunks <= size BY <1>1, <1>2
<1>4. first = IF base > 0 THEN 1 ELSE Chunks BY DEF Sim!FirstChunk
<1>5. first \in 1 .. Chunks BY <1>1, <1>3, <1>4
<1> HIDE DEF first, base
<1>6. rest \in Nat /\ rest = base * Chunks - base
  <2>1. \A b, c \in Int : b * (c - 1) = b * c - b OBVIOUS
  <2>2. \A b, c \in Nat : b * c \in Nat OBVIOUS
  <2> QED BY <1>1, <1>3, <2>1, <2>2
<1>7. /\ base * Chunks \in Nat /\ rest < size
  <2>1. base * Chunks \in Nat
    <3>1. \A b, c \in Nat : b * c \in Nat OBVIOUS
    <3> QED BY <1>1, <1>3, <3>1
  <2>2. CASE base = 0
    <3>1. base * Chunks = 0 BY <1>1, <2>2
    <3> QED BY <1>6, <2>1, <2>2, <3>1
  <2>3. CASE base # 0 BY <1>3, <1>6, <2>1, <2>3
  <2> QED BY <2>2, <2>3
<1>8. \A i \in 1 .. Chunks : Sim!ChunkQty(size, i) = IF i = Chunks THEN size - rest ELSE base
  BY DEF Sim!ChunkQty, base
<1>9. (Chunks - first) * base = rest
  <2>1. \A b, c \in Int : (c - 1) * b = b * (c - 1) OBVIOUS
  <2>2. CASE base > 0 BY <1>1, <1>3, <1>4, <2>1, <2>2
  <2>3. CASE ~(base > 0)
    <3>1. base = 0 BY <1>3, <2>3
    <3>2. \A c \in Int : c * 0 = 0 /\ 0 * c = 0 OBVIOUS
    <3>3. Chunks - first \in Int /\ Chunks - 1 \in Int BY <1>1, <1>5
    <3>4. (Chunks - first) * base = 0 BY <3>1, <3>2, <3>3
    <3>5. rest = 0 BY <3>1, <3>2, <3>3
    <3> QED BY <3>4, <3>5
  <2> QED BY <2>2, <2>3
<1> HIDE DEF rest
<1>10. \A i \in first .. Chunks : Sim!ChunkQty(size, i) \in Nat \ {0}
  <2> SUFFICES ASSUME NEW i \in first .. Chunks PROVE Sim!ChunkQty(size, i) \in Nat \ {0}
    OBVIOUS
  <2>1. i \in 1 .. Chunks BY <1>1, <1>5
  <2>2. CASE i = Chunks BY <1>6, <1>7, <1>8, <2>1, <2>2
  <2>3. CASE i # Chunks
    <3>1. first # Chunks BY <1>1, <1>5, <2>3
    <3>2. base > 0 BY <1>4, <3>1
    <3> QED BY <1>3, <1>8, <2>1, <2>3, <3>2
  <2> QED BY <2>2, <2>3
<1>11. \A i \in first .. Chunks - 1 : Sim!ChunkQty(size, i) = base
  <2>1. \A i \in first .. Chunks - 1 : i \in 1 .. Chunks /\ i # Chunks BY <1>1, <1>5
  <2> QED BY <1>8, <2>1
<1>12. (Chunks - first) * base + Sim!ChunkQty(size, Chunks) = size
  <2>1. Chunks \in 1 .. Chunks BY <1>1
  <2> QED BY <1>6, <1>8, <1>9, <2>1
<1>13. ASSUME NEW i \in 1 .. Chunks
       PROVE  /\ Sim!ChunkAt(i) \in Int
              /\ LastChunkIsLast => Sim!ChunkAt(i) <= Sim!ChunkAt(Chunks)
  <2>1. \A j \in 1 .. Chunks : Sim!ChunkAt(j) =
          IF ReorderFillBeforeAck /\ j = 1 THEN AckLatency - 1 ELSE FillLatency + (j - 1) * FillGap
    BY DEF Sim!ChunkAt
  <2>2. \A a, b, c \in Nat : a * c \in Nat /\ (a <= b => a * c <= b * c) OBVIOUS
  <2>3. i - 1 \in Nat /\ Chunks - 1 \in Nat /\ i - 1 <= Chunks - 1 BY <1>1
  <2> DEFINE x == (i - 1) * FillGap
             y == (Chunks - 1) * FillGap
  <2>4. x \in Nat /\ y \in Nat /\ x <= y BY <1>1, <2>2, <2>3
  <2>5. Sim!ChunkAt(i) = IF ReorderFillBeforeAck /\ i = 1 THEN AckLatency - 1 ELSE FillLatency + x
    BY <2>1
  <2>6. Sim!ChunkAt(Chunks) = IF ReorderFillBeforeAck /\ Chunks = 1 THEN AckLatency - 1 ELSE FillLatency + y
    BY <1>1, <2>1
  <2>7. LastChunkIsLast => (ReorderFillBeforeAck /\ Chunks > 1 => AckLatency - 1 <= FillLatency + y)
    BY DEF LastChunkIsLast
  <2> HIDE DEF x, y
  <2> QED BY <1>1, <2>4, <2>5, <2>6, <2>7
<1> QED BY <1>1, <1>3, <1>5, <1>10, <1>11, <1>12, <1>13 DEF first, base

(* The fill that carries chunk i, at a time. *)
ChunkFill(id, size, price, i, at) ==
  Sim!FillEvent(at, id, Sim!ChunkQty(size, i), price,
                tradeCounter + 1 + i - Sim!FirstChunk(size), i = Chunks)

(* The fills scheduled for an order: its chunks in order, each at its time  *)
(* and perhaps once more right after.                                       *)
ScheduledAs(id, size, price, p, row) ==
  LET first == Sim!FirstChunk(size)
  IN /\ \A k \in DOMAIN p :
          /\ row[k] \in first .. Chunks
          /\ \/ p[k] = ChunkFill(id, size, price, row[k], Sim!ChunkAt(row[k]))
             \/ p[k] = ChunkFill(id, size, price, row[k], Sim!ChunkAt(row[k]) + 1)
     /\ \A k, l \in DOMAIN p : k < l => row[k] <= row[l]
     /\ \A i \in first .. Chunks : \E k \in DOMAIN p :
          row[k] = i /\ p[k] = ChunkFill(id, size, price, i, Sim!ChunkAt(i))

LEMMA FillsAreChunks ==
  ASSUME NEW id \in Ids, NEW size \in Nat \ {0}, NEW price \in Int, NEW dups,
         tradeCounter \in Nat
  PROVE  LET p == Sim!Fills(id, size, price, dups)
         IN  p \in Seq(EventType) /\ \E row : ScheduledAs(id, size, price, p, row)
<1> DEFINE first == Sim!FirstChunk(size)
           at(i) == Sim!ChunkAt(i)
           e(i) == ChunkFill(id, size, price, i, at(i))
           d(i) == ChunkFill(id, size, price, i, at(i) + 1)
           rows == [i \in 1 .. Chunks |-> IF i < first THEN <<>>
                                          ELSE IF i \in dups THEN <<e(i), d(i)>> ELSE <<e(i)>>]
           p == Sim!Fills(id, size, price, dups)
<1>1. p = Sim!FlattenSeq(rows) BY DEF Sim!Fills, ChunkFill
<1>2. /\ Chunks \in Nat \ {0} /\ first \in 1 .. Chunks
      /\ \A i \in first .. Chunks : Sim!ChunkQty(size, i) \in Nat \ {0}
      /\ \A i \in 1 .. Chunks : at(i) \in Int
  BY ChunksAre
<1> HIDE DEF p, first
<1>3. ASSUME NEW i \in 1 .. Chunks, ~(i < first)
      PROVE  i \in first .. Chunks /\ e(i) \in EventType /\ d(i) \in EventType
  <2>1. i \in first .. Chunks BY <1>2, <1>3
  <2>2. tradeCounter + 1 + i - first \in Nat BY <1>2, <2>1
  <2>3. at(i) \in Int /\ at(i) + 1 \in Int BY <1>2
  <2>4. Sim!ChunkQty(size, i) \in Nat BY <1>2, <2>1
  <2> HIDE DEF at
  <2>5. ASSUME NEW t \in Int PROVE ChunkFill(id, size, price, i, t) \in EventType
    BY <2>2, <2>4 DEF ChunkFill, Sim!FillEvent, EventType, first
  <2> QED BY <2>1, <2>3, <2>5
<1> HIDE DEF e, d, at
<1>4. ASSUME NEW i \in 1 .. Chunks
      PROVE  /\ rows[i] \in Seq(EventType)
             /\ \A x \in Elements(rows[i]) : i \in first .. Chunks /\ (x = e(i) \/ x = d(i))
             /\ ~(i < first) => e(i) \in Elements(rows[i])
  <2>1. CASE i < first
    <3>1. rows[i] = <<>> BY <2>1
    <3> QED BY <2>1, <3>1 DEF Elements
  <2>2. CASE ~(i < first) /\ i \in dups
    <3>1. rows[i] = <<e(i), d(i)>> BY <2>2
    <3> QED BY <1>3, <2>2, <3>1 DEF Elements
  <2>3. CASE ~(i < first) /\ i \notin dups
    <3>1. rows[i] = <<e(i)>> BY <2>3
    <3> QED BY <1>3, <2>3, <3>1 DEF Elements
  <2> QED BY <2>1, <2>2, <2>3
<1>5. rows = [i \in 1 .. Chunks |-> rows[i]] OBVIOUS
<1> HIDE DEF rows
<1>6. Joined(rows, Chunks, EventType, p) BY <1>1, <1>2, <1>4, <1>5, FlattenJoins
<1>7. PICK row : InRows(rows, Chunks, p, row) BY <1>6 DEF Joined
<1>8. ASSUME NEW k \in DOMAIN p
      PROVE  row[k] \in first .. Chunks /\ (p[k] = e(row[k]) \/ p[k] = d(row[k]))
  <2>1. row[k] \in 1 .. Chunks /\ p[k] \in Elements(rows[row[k]]) BY <1>7 DEF InRows
  <2> QED BY <1>4, <2>1
<1>9. \A k, l \in DOMAIN p : k < l => row[k] <= row[l] BY <1>7 DEF InRows
<1>10. ASSUME NEW i \in first .. Chunks PROVE \E k \in DOMAIN p : row[k] = i /\ p[k] = e(i)
  <2>1. i \in 1 .. Chunks /\ ~(i < first) BY <1>2
  <2>2. e(i) \in Elements(rows[i]) BY <1>4, <2>1
  <2> QED BY <1>7, <2>1, <2>2 DEF InRows
<1>11. ScheduledAs(id, size, price, p, row) BY <1>8, <1>9, <1>10 DEF ScheduledAs, first, e, d, at
<1> QED BY <1>6, <1>11 DEF p, Joined

(* The trades of an order's chunks from "first" on, n of them. *)
ChunkTrade(size, i) ==
  [trade |-> tradeCounter + 1 + i - Sim!FirstChunk(size), qty |-> Sim!ChunkQty(size, i)]
ChunkTrades(size, n) ==
  {ChunkTrade(size, i) : i \in Sim!FirstChunk(size) .. Sim!FirstChunk(size) + n - 1}

(* The chunks add up to the order. *)
LEMMA ChunksAddUp ==
  ASSUME NEW size \in Nat \ {0}, tradeCounter \in Nat
  PROVE  LET T == {ChunkTrade(size, i) : i \in Sim!FirstChunk(size) .. Chunks}
         IN  IsFiniteSet(T) /\ T \subseteq TradeType /\ Traded(T) = size
<1> DEFINE first == Sim!FirstChunk(size)
           base  == Sim!Base(size)
           last  == Chunks - first
           T     == {ChunkTrade(size, i) : i \in first .. Chunks}
<1>1. /\ base \in Nat /\ Chunks \in Nat \ {0} /\ first \in 1 .. Chunks
      /\ \A i \in first .. Chunks : Sim!ChunkQty(size, i) \in Nat \ {0}
      /\ \A i \in first .. Chunks - 1 : Sim!ChunkQty(size, i) = base
      /\ last * base + Sim!ChunkQty(size, Chunks) = size
  BY ChunksAre
<1>2. \A i \in first .. Chunks : ChunkTrade(size, i) = [trade |-> tradeCounter + 1 + i - first,
                                                        qty |-> Sim!ChunkQty(size, i)]
  BY DEF ChunkTrade
<1>3. \A n \in Nat : ChunkTrades(size, n) = {ChunkTrade(size, i) : i \in first .. first + n - 1}
  BY DEF ChunkTrades
<1> HIDE DEF first, base
<1>4. /\ last \in Nat
      /\ \A i \in first .. Chunks : /\ ChunkTrade(size, i) \in TradeType
                                    /\ ChunkTrade(size, i).trade = tradeCounter + 1 + i - first
                                    /\ ChunkTrade(size, i).qty = Sim!ChunkQty(size, i)
  BY <1>1, <1>2 DEF TradeType
<1> DEFINE C(n) == ChunkTrades(size, n)
           Good == {n \in Nat : n <= last =>
                      IsFiniteSet(C(n)) /\ C(n) \subseteq TradeType /\ Traded(C(n)) = n * base}
<1>5. 0 \in Good
  <2>1. C(0) = {} BY <1>1, <1>3
  <2>2. Traded({}) = 0 BY SumEmpty DEF Traded
  <2>3. 0 * base = 0 BY <1>1
  <2> HIDE DEF C
  <2> QED BY <2>1, <2>2, <2>3, FS_EmptySet
<1>6. ASSUME NEW n \in Nat, n <= last,
             IsFiniteSet(C(n)), C(n) \subseteq TradeType
      PROVE  LET c == ChunkTrade(size, first + n)
             IN  /\ C(n + 1) = C(n) \cup {c} /\ IsFiniteSet(C(n + 1)) /\ C(n + 1) \subseteq TradeType
                 /\ Traded(C(n + 1)) = Sim!ChunkQty(size, first + n) + Traded(C(n))
  <2> DEFINE c == ChunkTrade(size, first + n)
  <2>1. first + n \in first .. Chunks /\ first .. first + (n + 1) - 1 = (first .. first + n - 1) \cup {first + n}
    BY <1>1, <1>6
  <2>2. C(n + 1) = C(n) \cup {c}
    <3>1. n + 1 \in Nat OBVIOUS
    <3> QED BY <1>3, <2>1, <3>1
  <2>3. c \in TradeType /\ c.trade = tradeCounter + 1 + (first + n) - first
        /\ c.qty = Sim!ChunkQty(size, first + n)
    BY <1>4, <2>1
  <2>4. c \notin C(n)
    <3> SUFFICES ASSUME NEW i \in first .. first + n - 1, c = ChunkTrade(size, i) PROVE FALSE
      BY <1>3
    <3>1. i \in first .. Chunks BY <1>1, <1>6
    <3>2. c.trade = tradeCounter + 1 + i - first BY <1>4, <3>1
    <3> QED BY <1>1, <2>3, <3>2
  <2> HIDE DEF C, c
  <2>5. IsFiniteSet(C(n + 1)) BY <1>6, <2>2, FS_AddElement
  <2>6. C(n + 1) \subseteq TradeType BY <1>6, <2>2, <2>3
  <2>7. \A t \in TradeType : TradedQty[t] = t.qty /\ TradedQty[t] \in Int BY DEF TradedQty, TradeType
  <2>8. Traded(C(n + 1)) = TradedQty[c] + Traded(C(n))
    <3>1. /\ \A x \in C(n) : TradedQty[x] \in Int
          /\ TradedQty[c] \in Int
      BY <1>6, <2>3, <2>7
    <3> QED BY <1>6, <2>2, <2>4, <3>1, SumAdd DEF Traded
  <2> QED BY <2>2, <2>3, <2>5, <2>6, <2>7, <2>8 DEF c
<1> HIDE DEF C, last
<1>7. ASSUME NEW n \in Nat, n \in Good PROVE n + 1 \in Good
  <2> SUFFICES ASSUME n + 1 <= last
               PROVE  /\ IsFiniteSet(C(n + 1)) /\ C(n + 1) \subseteq TradeType
                      /\ Traded(C(n + 1)) = (n + 1) * base
    OBVIOUS
  <2>1. n <= last BY <1>4
  <2>2. IsFiniteSet(C(n)) /\ C(n) \subseteq TradeType /\ Traded(C(n)) = n * base BY <1>7, <2>1
  <2>3. Sim!ChunkQty(size, first + n) = base
    <3>1. first + n \in first .. Chunks - 1 BY <1>1 DEF last
    <3> QED BY <1>1, <3>1
  <2>4. (n + 1) * base = base + n * base BY <1>1
  <2> QED BY <1>6, <2>1, <2>2, <2>3, <2>4
<1> HIDE DEF Good
<1>8. last \in Good BY <1>4, <1>5, <1>7, NumberInduction
<1>9. IsFiniteSet(C(last)) /\ C(last) \subseteq TradeType /\ Traded(C(last)) = last * base
  BY <1>4, <1>8 DEF Good
<1>10. first + last = Chunks /\ first + (last + 1) - 1 = Chunks BY <1>1 DEF last
<1>11. T = C(last + 1)
  <2>1. last + 1 \in Nat BY <1>4
  <2> QED BY <1>3, <1>10, <2>1 DEF C
<1> HIDE DEF T
<1>12. /\ IsFiniteSet(T) /\ T \subseteq TradeType
       /\ Traded(T) = Sim!ChunkQty(size, Chunks) + last * base
  BY <1>4, <1>6, <1>9, <1>10, <1>11
<1>13. Sim!ChunkQty(size, Chunks) \in Int /\ last * base \in Int
  <2>1. \A a, b \in Nat : a * b \in Int OBVIOUS
  <2>2. Sim!ChunkQty(size, Chunks) \in Nat BY <1>1
  <2> QED BY <1>1, <1>4, <2>1, <2>2
<1>14. Traded(T) = size BY <1>1, <1>12, <1>13 DEF last
<1> QED BY <1>12, <1>14 DEF T, first

(* The fills scheduled for an order are of that order; of each trade they   *)
(* say the same; the last trade comes last; they add up to the order.       *)
LEMMA FillsMakeUpOrder ==
  ASSUME NEW id \in Ids, NEW size \in Nat \ {0}, NEW price \in Int, NEW dups,
         tradeCounter \in Nat, LastChunkIsLast
  PROVE  LET p == Sim!Fills(id, size, price, dups)
         IN  /\ p \in Seq(EventType)
             /\ \A e \in Elements(p) : FillOf(e, id) /\ e.price = price
             /\ FillsAgree(p) /\ LastIsLast(p, id, {}) /\ Traded(ToCome(p, id, {})) = size
<1> DEFINE p == Sim!Fills(id, size, price, dups)
           first == Sim!FirstChunk(size)
<1>1. p \in Seq(EventType) BY FillsAreChunks
<1>2. PICK row : ScheduledAs(id, size, price, p, row) BY FillsAreChunks
<1> HIDE DEF p
<1>3. /\ Chunks \in Nat \ {0} /\ first \in 1 .. Chunks
      /\ \A i \in first .. Chunks : Sim!ChunkQty(size, i) \in Nat \ {0}
      /\ \A i \in 1 .. Chunks : Sim!ChunkAt(i) \in Int
      /\ \A i \in 1 .. Chunks : Sim!ChunkAt(i) <= Sim!ChunkAt(Chunks)
  BY ChunksAre
<1>4. ASSUME NEW i \in first .. Chunks, NEW t
      PROVE  LET e == ChunkFill(id, size, price, i, t)
             IN  /\ FillOf(e, id) /\ e.type = "Fill" /\ e.in = t /\ e.qty = Sim!ChunkQty(size, i)
                 /\ e.trade = tradeCounter + 1 + i - first /\ (e.final <=> i = Chunks)
                 /\ TradeOf(e) = ChunkTrade(size, i) /\ e.price = price
  BY DEF ChunkFill, Sim!FillEvent, FillOf, TradeOf, ChunkTrade
<1>5. ASSUME NEW k \in DOMAIN p
      PROVE  /\ row[k] \in first .. Chunks /\ FillOf(p[k], id) /\ p[k].type = "Fill"
             /\ p[k].qty = Sim!ChunkQty(size, row[k])
             /\ p[k].trade = tradeCounter + 1 + row[k] - first /\ (p[k].final <=> row[k] = Chunks)
             /\ p[k].in = Sim!ChunkAt(row[k]) \/ p[k].in = Sim!ChunkAt(row[k]) + 1
             /\ TradeOf(p[k]) = ChunkTrade(size, row[k]) /\ p[k].price = price
  <2>1. /\ row[k] \in first .. Chunks
        /\ \/ p[k] = ChunkFill(id, size, price, row[k], Sim!ChunkAt(row[k]))
           \/ p[k] = ChunkFill(id, size, price, row[k], Sim!ChunkAt(row[k]) + 1)
    BY <1>2 DEF ScheduledAs
  <2> HIDE DEF first
  <2> QED BY <1>4, <2>1
<1>6. /\ \A k, l \in DOMAIN p : k < l => row[k] <= row[l]
      /\ \A i \in first .. Chunks : \E k \in DOMAIN p :
           row[k] = i /\ p[k] = ChunkFill(id, size, price, i, Sim!ChunkAt(i))
  BY <1>2 DEF ScheduledAs
<1> HIDE DEF first
<1>7. \A e \in Elements(p) : FillOf(e, id) /\ e.price = price BY <1>5 DEF Elements
<1>8. FillsAgree(p)
  <2> SUFFICES ASSUME NEW j \in DOMAIN p, NEW k \in DOMAIN p
               PROVE  /\ p[j].qty > 0
                      /\ p[j].trade = p[k].trade => p[j].qty = p[k].qty /\ p[j].final = p[k].final
                      /\ p[j].final /\ p[k].final => p[j].trade = p[k].trade
    BY DEF FillsAgree
  <2>1. p[j].qty > 0
    <3>1. Sim!ChunkQty(size, row[j]) \in Nat \ {0} BY <1>3, <1>5
    <3> QED BY <1>5, <3>1
  <2>2. row[j] \in Int /\ row[k] \in Int /\ first \in Int BY <1>3, <1>5
  <2>3. p[j].trade = p[k].trade => row[j] = row[k] BY <1>5, <2>2
  <2>4. row[j] = row[k] => p[j].qty = p[k].qty /\ (p[j].final <=> p[k].final)
                           /\ p[j].trade = p[k].trade
    BY <1>5
  <2>5. p[j].final \in BOOLEAN /\ p[k].final \in BOOLEAN
    <3>1. p[j] \in EventType /\ p[k] \in EventType BY <1>1
    <3> QED BY <3>1 DEF EventType
  <2>6. p[j].final /\ p[k].final => row[j] = row[k] BY <1>5
  <2> QED BY <2>1, <2>3, <2>4, <2>5, <2>6
<1>9. LastIsLast(p, id, {})
  <2> SUFFICES ASSUME NEW j \in DOMAIN p, NEW k \in DOMAIN p, ~p[j].final, p[k].final
               PROVE  \E m \in DOMAIN p : FillOf(p[m], id) /\ p[m].trade = p[j].trade
                                          /\ Sooner(p, m, k)
    BY DEF LastIsLast
  <2>1. row[j] \in first .. Chunks /\ row[j] # Chunks /\ row[k] = Chunks BY <1>5
  <2>2. PICK m \in DOMAIN p : row[m] = row[j] /\ p[m] = ChunkFill(id, size, price, row[j], Sim!ChunkAt(row[j]))
    BY <1>6, <2>1
  <2>3. p[m].in = Sim!ChunkAt(row[j]) BY <1>4, <2>1, <2>2
  <2>4. FillOf(p[m], id) /\ p[m].trade = p[j].trade BY <1>5, <2>2
  <2>5. m <= k
    <3>1. m \in Nat /\ k \in Nat BY <1>1
    <3>2. ~(k < m)
      <4>1. k < m => row[k] <= row[m] BY <1>6
      <4> QED BY <1>3, <2>1, <2>2, <4>1
    <3> QED BY <3>1, <3>2
  <2>6. p[m].in <= p[k].in /\ p[m].in \in Int /\ p[k].in \in Int
    <3>1. row[j] \in 1 .. Chunks /\ Chunks \in 1 .. Chunks BY <1>3, <2>1
    <3>2. Sim!ChunkAt(row[j]) <= Sim!ChunkAt(Chunks) /\ Sim!ChunkAt(row[j]) \in Int
          /\ Sim!ChunkAt(Chunks) \in Int
      BY <1>3, <3>1
    <3>3. p[k].in = Sim!ChunkAt(Chunks) \/ p[k].in = Sim!ChunkAt(Chunks) + 1 BY <1>5, <2>1
    <3> QED BY <2>3, <3>2, <3>3
  <2>7. Sooner(p, m, k) BY <2>5, <2>6 DEF Sooner
  <2> QED BY <2>4, <2>7
<1>10. ToCome(p, id, {}) = {ChunkTrade(size, i) : i \in first .. Chunks}
  <2>1. ASSUME NEW t \in ToCome(p, id, {}) PROVE \E i \in first .. Chunks : t = ChunkTrade(size, i)
    <3>1. PICK e \in Elements(p) : t = TradeOf(e) BY DEF ToCome
    <3>2. PICK k \in DOMAIN p : e = p[k] BY DEF Elements
    <3> QED BY <1>5, <3>1, <3>2
  <2>2. ASSUME NEW i \in first .. Chunks PROVE ChunkTrade(size, i) \in ToCome(p, id, {})
    <3>1. PICK k \in DOMAIN p : row[k] = i BY <1>6
    <3>2. p[k] \in Elements(p) /\ FillOf(p[k], id) /\ TradeOf(p[k]) = ChunkTrade(size, i)
      BY <1>5, <3>1 DEF Elements
    <3> QED BY <3>2 DEF ToCome
  <2> QED BY <2>1, <2>2
<1>11. Traded(ToCome(p, id, {})) = size BY <1>10, ChunksAddUp DEF first
<1> QED BY <1>1, <1>7, <1>8, <1>9, <1>11 DEF p

-----------------------------------------------------------------------------
(* The steps of the driver. *)

(* The event that is delivered next is the soonest of all. *)
LEMMA NextDueIsSoonest ==
  ASSUME queue \in Seq(EventType), Sim!DueIndexes # {}
  PROVE  /\ Sim!NextDue \in DOMAIN queue
         /\ \A j \in DOMAIN queue : Sooner(queue, Sim!NextDue, j)
<1> DEFINE D == Sim!DueIndexes
           Best(T, k) == k \in T /\ \A j \in T : Sooner(queue, k, j)
           Good == {T \in SUBSET D : T # {} => \E k \in T : Best(T, k)}
<1>1. /\ DOMAIN queue = 1 .. Len(queue) /\ Len(queue) \in Nat
      /\ \A k \in DOMAIN queue : k \in Int /\ queue[k].in \in Int
  <2>1. \A k \in DOMAIN queue : k \in Int /\ queue[k] \in EventType OBVIOUS
  <2> QED BY <2>1 DEF EventType
<1>2. D = {k \in DOMAIN queue : queue[k].in <= 0} BY DEF Sim!DueIndexes
<1> HIDE DEF D
<1>3. IsFiniteSet(D)
  <2>1. IsFiniteSet(1 .. Len(queue)) BY <1>1, FS_Interval
  <2> QED BY <1>1, <1>2, <2>1, FS_Subset
<1>4. {} \in Good OBVIOUS
<1>5. ASSUME NEW T \in SUBSET D, NEW x \in D \ T, T \in Good PROVE T \cup {x} \in Good
  <2>1. x \in Int /\ queue[x].in \in Int /\ \A j \in T : j \in Int /\ queue[j].in \in Int
    BY <1>1, <1>2
  <2>2. CASE T = {}
    <3>1. Best(T \cup {x}, x) BY <2>1, <2>2 DEF Sooner
    <3> QED BY <3>1
  <2>3. CASE T # {}
    <3>1. PICK k \in T : Best(T, k) BY <1>5, <2>3
    <3>2. CASE Sooner(queue, k, x)
      <4>1. Best(T \cup {x}, k) BY <3>1, <3>2
      <4> QED BY <4>1
    <3>3. CASE ~Sooner(queue, k, x)
      <4>1. Sooner(queue, x, k) BY <2>1, <3>3 DEF Sooner
      <4>2. \A j \in T : Sooner(queue, x, j) BY <2>1, <3>1, <4>1 DEF Sooner
      <4>3. Best(T \cup {x}, x) BY <2>1, <4>2 DEF Sooner
      <4> QED BY <4>3
    <3> QED BY <3>2, <3>3
  <2> QED BY <2>2, <2>3
<1> HIDE DEF Good
<1>6. D \in Good BY <1>3, <1>4, <1>5, ElementInduction
<1>7. PICK k \in D : Best(D, k) BY <1>6 DEF Good, D
<1>8. Sim!NextDue = CHOOSE m \in D : \A j \in D :
        \/ queue[m].in < queue[j].in
        \/ queue[m].in = queue[j].in /\ m <= j
  BY DEF Sim!NextDue, D
<1>9. \A j \in D : queue[k].in < queue[j].in \/ (queue[k].in = queue[j].in /\ k <= j)
  BY <1>7 DEF Sooner
<1>10. Sim!NextDue \in D /\ \A j \in D : Sooner(queue, Sim!NextDue, j)
  BY <1>8, <1>9 DEF Sooner
<1>11. ASSUME NEW j \in DOMAIN queue, j \notin D PROVE Sooner(queue, Sim!NextDue, j)
  BY <1>1, <1>2, <1>10, <1>11 DEF Sooner
<1> QED BY <1>2, <1>10, <1>11

(* The last trade of an order, delivered to an open order that has not seen *)
(* it, is all that is to come of it.                                        *)
LEMMA FinalIsTheRest ==
  ASSUME queue \in Seq(EventType), Sim!DueIndexes # {}, FillsAgree(queue), NEW id, NEW seen,
         LastIsLast(queue, id, seen),
         NEW ev, ev = queue[Sim!NextDue], FillOf(ev, id), ev.trade \notin seen
  PROVE  /\ TradeOf(ev) \in ToCome(queue, id, seen) /\ ev.qty > 0
         /\ ev.final => ToCome(queue, id, seen) = {TradeOf(ev)}
<1> DEFINE n == Sim!NextDue
<1>1. /\ n \in DOMAIN queue /\ \A j \in DOMAIN queue : Sooner(queue, n, j)
  BY NextDueIsSoonest
<1>2. ev = queue[n] OBVIOUS
<1>3. \A k \in DOMAIN queue : k \in Int /\ queue[k].in \in Int /\ queue[k].final \in BOOLEAN
  <2>1. \A k \in DOMAIN queue : k \in Int /\ queue[k] \in EventType OBVIOUS
  <2> QED BY <2>1 DEF EventType
<1> HIDE DEF n
<1>4. ev \in Elements(queue) BY <1>1, <1>2 DEF Elements
<1>5. TradeOf(ev) \in ToCome(queue, id, seen) BY <1>4 DEF ToCome
<1>6. ev.qty > 0 BY <1>1, <1>2 DEF FillsAgree, FillOf
<1>7. ASSUME ev.final, NEW j \in DOMAIN queue, FillOf(queue[j], id), queue[j].trade \notin seen
      PROVE  TradeOf(queue[j]) = TradeOf(ev)
  <2>1. /\ queue[j].trade = ev.trade => queue[j].qty = ev.qty /\ queue[j].final = ev.final
        /\ queue[j].final /\ ev.final => queue[j].trade = ev.trade
    BY <1>1, <1>2, <1>7 DEF FillsAgree, FillOf
  <2>2. CASE queue[j].final BY <1>7, <2>1, <2>2 DEF TradeOf
  <2>3. CASE ~queue[j].final
    <3>1. PICK m \in DOMAIN queue : queue[m].trade = queue[j].trade /\ Sooner(queue, m, n)
      BY <1>1, <1>2, <1>7, <2>3 DEF LastIsLast
    <3>2. Sooner(queue, n, m) BY <1>1
    <3>3. m = n BY <1>1, <1>3, <3>1, <3>2 DEF Sooner
    <3> QED BY <1>2, <1>7, <2>1, <2>3, <3>1, <3>3
  <2> QED BY <2>2, <2>3
<1>8. ASSUME ev.final, NEW t \in ToCome(queue, id, seen) PROVE t = TradeOf(ev)
  <2>1. PICK e \in Elements(queue) : FillOf(e, id) /\ e.trade \notin seen /\ t = TradeOf(e)
    BY DEF ToCome
  <2>2. PICK j \in DOMAIN queue : e = queue[j] BY DEF Elements
  <2> QED BY <1>7, <1>8, <2>1, <2>2
<1> QED BY <1>5, <1>6, <1>8

(* Events about orders of the venue, none of them a fill. *)
Notices(s) == s \in Seq(EventType) /\ \A e \in Elements(s) : e.type \in OtherKinds /\ e.id \in issued
Noticed == \E s : Notices(s) /\ queue' = queue \o s

LEMMA OneNotice ==
  ASSUME NEW in \in Int, NEW type \in OtherKinds, NEW id \in issued, issued \subseteq Ids
  PROVE  /\ Sim!Event(in, type, id) \in EventType
         /\ Notices(<<Sim!Event(in, type, id)>>)
<1> DEFINE e == Sim!Event(in, type, id)
<1>1. e \in EventType /\ e.type = type /\ e.id = id BY DEF Sim!Event, EventType
<1> HIDE DEF e
<1>2. <<e>> \in Seq(EventType) /\ \A x \in Elements(<<e>>) : x = e BY <1>1 DEF Elements
<1> QED BY <1>1, <1>2 DEF Notices, e

LEMMA NoNotice == ASSUME SimTyped, UNCHANGED queue PROVE Noticed
<1>1. Notices(<<>>) BY DEF Notices, Elements
<1>2. queue \o <<>> = queue BY DEF SimTyped
<1> QED BY <1>1, <1>2 DEF Noticed

(* The orders of a finite set, each once. *)
LEMMA SetIsListed ==
  ASSUME NEW S, IsFiniteSet(S)
  PROVE  Sim!SetToSeq(S) \in [1 .. Cardinality(S) -> S] /\ Cardinality(S) \in Nat
<1>1. Cardinality(S) \in Nat /\ ExistsBijection(1 .. Cardinality(S), S)
  BY FS_CardinalityType
<1> DEFINE F == [1 .. Cardinality(S) -> S]
<1>2. PICK f \in Injection(1 .. Cardinality(S), S) : TRUE
  BY <1>1 DEF ExistsBijection, Bijection
<1>3. f \in F /\ Sim!IsInjective(f) BY DEF Injection, IsInjective, Sim!IsInjective
<1>4. Sim!Cardinality(S) = Cardinality(S) BY Zenon DEF Sim!Cardinality, Cardinality
<1>5. Sim!SetToSeq(S) = CHOOSE g \in F : Sim!IsInjective(g)
  BY <1>4, Zenon DEF Sim!SetToSeq
<1> HIDE DEF F
<1>6. Sim!SetToSeq(S) \in F BY <1>3, <1>5
<1> QED BY <1>1, <1>6 DEF F

(* A cancel is answered by an ack or a reject, in time. *)
LEMMA CancelsAreNoticed ==
  ASSUME IndInv, NEW n \in Nat, NEW list \in [1 .. n -> issued], Sim!CancelOrders(list)
  PROVE  Noticed
<1> DEFINE s == [k \in DOMAIN list |->
                   Sim!Event(AckLatency, IF Sim!Alive(list[k]) THEN "CancelAck"
                                         ELSE "CancelReject", list[k])]
<1>1. queue' = queue \o s BY DEF Sim!CancelOrders, Sim!Schedule
<1>2. issued \subseteq Ids /\ AckLatency \in Int BY SimAssumption DEF IndInv, TypeOK
<1>3. ASSUME NEW k \in 1 .. n
      PROVE  s[k] \in EventType /\ s[k].type \in OtherKinds /\ s[k].id \in issued
  <2> DEFINE type == IF Sim!Alive(list[k]) THEN "CancelAck" ELSE "CancelReject"
  <2>1. type \in OtherKinds BY DEF OtherKinds, DeadKinds, EndKinds
  <2>2. s[k] = Sim!Event(AckLatency, type, list[k]) OBVIOUS
  <2> HIDE DEF type, s
  <2>3. s[k] \in EventType BY <1>2, <2>1, <2>2, OneNotice
  <2>4. s[k].type = type /\ s[k].id = list[k] BY <2>2 DEF Sim!Event
  <2> QED BY <2>1, <2>3, <2>4
<1>4. DOMAIN s = 1 .. n /\ s = [k \in 1 .. n |-> s[k]] OBVIOUS
<1> HIDE DEF s
<1>5. s \in Seq(EventType) BY <1>3, <1>4
<1>6. Notices(s) BY <1>3, <1>4, <1>5 DEF Notices, Elements
<1> QED BY <1>1, <1>6 DEF Noticed

(* What a step leaves to the simulator when nobody trades. *)
Quietly == Unmoved /\ Noticed /\ UNCHANGED <<working, simPosition, tradeCounter>>

QuietSteps ==
  \/ SubmitDisconnected \/ SubmitWithoutSlot \/ SubmitUnroutable \/ StrategyCancels
  \/ AckTimeouts \/ MassCancel \/ DrainPolicyFlags \/ Disconnect \/ Reconnect \/ Inject
  \/ Sim!EndPoll /\ UNCHANGED vars
  \/ UNCHANGED driverVars

LEMMA QuietStepsAreQuiet ==
  ASSUME NoWrap, SimWired, InjectsNoFill, IndInv, SimTyped, QuietSteps
  PROVE  Quietly
<1>1. IsFiniteSet(issued) /\ issued \subseteq Ids BY DEF SimTyped, IndInv, TypeOK
<1>2. ASSUME NEW S \in SUBSET issued, Sim!CancelOrders(Sim!SetToSeq(S))
      PROVE  Noticed /\ UNCHANGED <<working, simPosition, tradeCounter>>
  <2>1. IsFiniteSet(S) BY <1>1, FS_Subset
  <2>2. Sim!SetToSeq(S) \in [1 .. Cardinality(S) -> S] /\ Cardinality(S) \in Nat
    BY <2>1, SetIsListed
  <2>3. Sim!SetToSeq(S) \in [1 .. Cardinality(S) -> issued] BY <2>2
  <2> QED BY <1>2, <2>2, <2>3, CancelsAreNoticed DEF Sim!CancelOrders
<1>3. ASSUME UNCHANGED simVars
      PROVE  Noticed /\ UNCHANGED <<working, simPosition, tradeCounter>>
  BY <1>3, NoNotice DEF simVars
<1>4. \A up \in SUBSET {Venue} : up \in SUBSET Venues BY DEF SimWired
<1>5. CASE SubmitDisconnected \/ SubmitWithoutSlot \/ DrainPolicyFlags
  <2>1. UNCHANGED simVars
    BY <1>5 DEF SubmitDisconnected, SubmitWithoutSlot, DrainPolicyFlags
  <2>2. Unmoved
    BY <1>5, CallsMoveNothing DEF SubmitDisconnected, SubmitWithoutSlot, DrainPolicyFlags, SimWired
  <2> QED BY <1>3, <2>1, <2>2 DEF Quietly
<1>6. CASE SubmitUnroutable
  <2>1. PICK up \in SUBSET {Venue} :
          /\ SubmitAllDown(up)
          /\ UNCHANGED simVars \/ Sim!CancelOrders(Sim!SetToSeq(Working(up)))
    <3> DEFINE up == IF connected THEN {Venue} ELSE {}
    <3>1. /\ SubmitAllDown(up)
          /\ UNCHANGED simVars \/ Sim!CancelOrders(Sim!SetToSeq(Working(up)))
      BY <1>6 DEF SubmitUnroutable
    <3>2. up \in SUBSET {Venue} OBVIOUS
    <3> HIDE DEF up
    <3> QED BY <3>1, <3>2
  <2>2. Unmoved BY <1>4, <2>1, CallsMoveNothing
  <2>3. Working(up) \in SUBSET issued BY DEF Working, SimTyped
  <2> QED BY <1>2, <1>3, <2>1, <2>2, <2>3 DEF Quietly
<1>7. CASE AckTimeouts
  <2>1. PICK overdue \in SUBSET AwaitingAck, up \in SUBSET {Venue} :
          /\ CheckAckTimeouts(overdue, up)
          /\ UNCHANGED simVars \/ Sim!CancelOrders(Sim!SetToSeq(overdue))
    <3> DEFINE up == IF connected THEN {Venue} ELSE {}
    <3>1. PICK overdue \in SUBSET AwaitingAck :
            /\ CheckAckTimeouts(overdue, up)
            /\ UNCHANGED simVars \/ Sim!CancelOrders(Sim!SetToSeq(overdue))
      BY <1>7 DEF AckTimeouts
    <3>2. up \in SUBSET {Venue} OBVIOUS
    <3> HIDE DEF up
    <3> QED BY <3>1, <3>2
  <2>2. Unmoved BY <1>4, <2>1, CallsMoveNothing
  <2>3. overdue \in SUBSET issued BY DEF AwaitingAck, SimTyped
  <2> QED BY <1>2, <1>3, <2>1, <2>2, <2>3 DEF Quietly
<1>8. CASE StrategyCancels
  <2>1. PICK id \in issued : Cancel(id) /\ Sim!CancelOrder(id) BY <1>8 DEF StrategyCancels
  <2>2. Unmoved BY <2>1, OthersMoveNothing
  <2>3. <<id>> \in [1 .. 1 -> issued] /\ Sim!CancelOrders(<<id>>) BY <2>1 DEF Sim!CancelOrder
  <2>4. Noticed BY <2>3, CancelsAreNoticed
  <2> QED BY <2>2, <2>3, <2>4 DEF Quietly, Sim!CancelOrders
<1>9. ASSUME UNCHANGED vars PROVE Unmoved
  BY <1>9, DropIsUnmoved DEF vars
<1>10. CASE MassCancel
  <2>1. PICK i \in Instruments : Sim!MassCancel(i) /\ UNCHANGED vars BY <1>10 DEF MassCancel
  <2> DEFINE S == {id \in DOMAIN working : Sim!Alive(id) /\ working[id].inst = i}
  <2>2. Sim!CancelOrders(Sim!SetToSeq(S)) BY <2>1 DEF Sim!MassCancel
  <2>3. S \in SUBSET issued BY DEF SimTyped
  <2> HIDE DEF S
  <2> QED BY <1>2, <1>9, <2>1, <2>2, <2>3 DEF Quietly
<1>11. CASE Disconnect \/ Reconnect
  <2>1. UNCHANGED <<index, orders, books, ids>> /\ UNCHANGED <<queue, working, simPosition, tradeCounter>>
    BY <1>11 DEF Disconnect, Reconnect, OnVenueDisconnect, OnVenueReconnect, Sim!SetConnected
  <2> QED BY <2>1, DropIsUnmoved, NoNotice DEF Quietly
<1>12. CASE Inject
  <2>1. PICK type \in Injected, id \in issued : Sim!Inject(type, id) /\ UNCHANGED vars
    BY <1>12 DEF Inject
  <2>2. /\ queue' = queue \o <<Sim!Event(1, type, id)>>
        /\ UNCHANGED <<working, simPosition, tradeCounter>>
    BY <2>1 DEF Sim!Inject, Sim!Schedule
  <2>3. Notices(<<Sim!Event(1, type, id)>>) BY <1>1, OneNotice DEF InjectsNoFill
  <2> QED BY <1>9, <2>1, <2>2, <2>3 DEF Quietly, Noticed
<1>13. CASE (Sim!EndPoll /\ UNCHANGED vars) \/ UNCHANGED driverVars
  <2>1. UNCHANGED vars /\ UNCHANGED <<queue, working, simPosition, tradeCounter>>
    BY <1>13 DEF Sim!EndPoll, driverVars, simVars
  <2> QED BY <1>9, <2>1, NoNotice DEF Quietly
<1> QED BY <1>5, <1>6, <1>7, <1>8, <1>10, <1>11, <1>12, <1>13 DEF QuietSteps

(* Each step of the whole is a step of the manager, or leaves it alone. *)
LEMMA ManagerStepsWithDriver ==
  ASSUME SimWired, IndInv, SimTyped, [DriverNext]_driverVars
  PROVE  [Next]_vars
<1>1. /\ Venue \in Venues
      /\ Nat \subseteq Trades /\ Nat \subseteq Quantities /\ Int \subseteq Prices
  BY DEF SimWired
<1>2. (IF connected THEN {Venue} ELSE {}) \in SUBSET Venues BY <1>1
<1>3. CASE SubmitConnected \/ SubmitDisconnected \/ SubmitWithoutSlot \/ SubmitUnroutable
  BY <1>1, <1>2, <1>3 DEF SubmitConnected, SubmitDisconnected, SubmitWithoutSlot,
                          SubmitUnroutable, Next, Submit
<1>4. CASE StrategyCancels \/ AckTimeouts \/ DrainPolicyFlags
  BY <1>2, <1>4 DEF StrategyCancels, AckTimeouts, DrainPolicyFlags, Next, AwaitingAck
<1>5. CASE MassCancel \/ Inject \/ Poll \/ UNCHANGED driverVars
  BY <1>5 DEF MassCancel, Inject, Poll, driverVars
<1>6. CASE Disconnect \/ Reconnect BY <1>1, <1>6 DEF Disconnect, Reconnect, Next
<1>7. CASE DeliverDue
  <2>1. Sim!NextDue \in DOMAIN queue
    BY <1>7, NextDueIsSoonest DEF DeliverDue, Sim!Deliver, SimTyped
  <2>2. PICK ev : ev = queue[Sim!NextDue] OBVIOUS
  <2>3. ev \in EventType /\ ev.id \in issued BY <2>1, <2>2 DEF SimTyped, Elements, EventOK
  <2>4. /\ ev.id \in issued /\ ev.qty \in Quantities /\ ev.price \in Prices
        /\ ev.trade \in Trades
    BY <1>1, <2>3 DEF EventType
  <2>5. Handle(ev) BY <1>7, <2>2 DEF DeliverDue
  <2> QED BY <2>4, <2>5 DEF Handle, Next, Inbound
<1> QED BY <1>3, <1>4, <1>5, <1>6, <1>7 DEF DriverNext

(* A step is quiet, a submit that is sent, the start of a poll, or a        *)
(* delivery.                                                                *)
LEMMA DriverStepIs ==
  [DriverNext]_driverVars =>
    QuietSteps \/ SubmitConnected \/ (Sim!BeginPoll /\ UNCHANGED vars) \/ DeliverDue
BY DEF DriverNext, QuietSteps, Poll

(* Of events that are no fills there are no fills to come. *)
LEMMA NoFills ==
  ASSUME NEW s \in Seq(EventType), \A e \in Elements(s) : e.type \in OtherKinds
  PROVE  /\ FillsAgree(s) /\ \A id : \A e \in Elements(s) : ~FillOf(e, id)
         /\ \A id, seen : LastIsLast(s, id, seen) /\ ToCome(s, id, seen) = {}
<1>1. \A e \in Elements(s) : e.type # "Fill" BY DEF OtherKinds, DeadKinds, EndKinds
<1>2. \A id : \A e \in Elements(s) : ~FillOf(e, id) BY <1>1 DEF FillOf
<1>3. \A j \in DOMAIN s : s[j] \in Elements(s) BY DEF Elements
<1> QED BY <1>1, <1>2, <1>3 DEF FillsAgree, LastIsLast, ToCome

(* What place_order schedules for an order: events of that order alone,     *)
(* whose fills, if any, make up the order.                                  *)
ScheduledFor(s, id, size, price) ==
  /\ s \in Seq(EventType)
  /\ \A e \in Elements(s) : e.id = id /\ (e.type = "Fill" => e.price = price)
  /\ LastChunkIsLast =>
       /\ FillsAgree(s) /\ LastIsLast(s, id, {})
       /\ ToCome(s, id, {}) # {} => Traded(ToCome(s, id, {})) = size

(* An order of the strategy, as the manager and the simulator book it. *)
PlacedOrder(req) == [inst |-> req.inst, side |-> req.side, size |-> req.size,
                     left |-> req.size, price |-> req.price, alive |-> TRUE, seen |-> {}]
PlacedAs(req, id, s) ==
  /\ req.inst \in Instruments /\ req.side \in Sides /\ req.size \in Nat \ {0}
  /\ req.price \in Int
  /\ id \in Ids /\ id \notin issued /\ id.slot \in Slots
  /\ live' = live \cup {id} /\ issued' = issued \cup {id}
  /\ UNCHANGED <<trades, position, simPosition>>
  /\ orders'[id.slot] = NewOrder(id, req, "Sent")
  /\ \A x \in live : x.slot \in Slots \ {id.slot} /\ orders'[x.slot] = orders[x.slot]
  /\ working' = [x \in issued \cup {id} |->
                   IF x = id THEN PlacedOrder(req) ELSE working[x]]
  /\ tradeCounter' \in Nat
  /\ ScheduledFor(s, id, req.size, req.price) /\ queue' = queue \o s

LEMMA SubmitIsPlaced ==
  ASSUME SimWired, IndInv, SimTyped, SubmitConnected
  PROVE  \E req \in Requests : \E id, s : PlacedAs(req, id, s)
<1>1. PICK req \in Requests :
        /\ SubmitAccepted(Venue, req)
        /\ Sim!PlaceOrder(NewId(Venue), req.inst, req.side, req.size, req.price)
  BY DEF SubmitConnected
<1> DEFINE id == NewId(Venue)
           size == req.size
           price == req.price
<1>2. /\ CanSubmit /\ WithinBounds(Venue) /\ Update(id, NewOrder(id, req, "Sent"))
      /\ live' = live \cup {id} /\ issued' = issued \cup {id}
      /\ UNCHANGED <<trades, position>>
  BY <1>1 DEF SubmitAccepted
<1>3. /\ id \in Ids /\ id \notin live /\ id.slot \notin pool.allocated
      /\ id.slot \in Slots /\ id.gen = pool.generation[id.slot]
      /\ orders'[id.slot] = NewOrder(id, req, "Sent")
      /\ \A s \in Slots \ {id.slot} : orders'[s] = orders[s]
  BY <1>2, AcquireKeepsBooks, ManagerAssumption DEF NewId, SimWired
<1>4. id \notin issued
  <2>1. id.gen \in Int BY <1>3 DEF Ids, Generations
  <2> QED BY <1>3, <2>1 DEF IndInv, IssuedOK, Owns, IsCurrent
<1>5. \A x \in live : x.slot \in Slots \ {id.slot} /\ orders'[x.slot] = orders[x.slot]
  BY <1>3 DEF IndInv, TypeOK, Indexed, Owns, IsCurrent, PoolType
<1>6. /\ req.inst \in Instruments /\ req.side \in Sides /\ size \in Nat \ {0}
      /\ price \in Int
  BY ManagerAssumption DEF ManagerAssumption, Sides
<1>7. /\ working' = [x \in issued \cup {id} |->
                      IF x = id THEN PlacedOrder(req) ELSE working[x]]
      /\ UNCHANGED simPosition
  <2>1. DOMAIN working = issued BY DEF SimTyped
  <2> QED BY <1>1, <2>1 DEF Sim!PlaceOrder, Sim!Listed, PlacedOrder
<1>8. \/ /\ queue' = queue \o <<Sim!Event(AckLatency, "Reject", id)>>
         /\ UNCHANGED tradeCounter
      \/ /\ queue' = queue \o <<Sim!Event(AckLatency, "Confirm", id),
                                Sim!Event(AckLatency + FillLatency, "Unsolicited", id)>>
         /\ UNCHANGED tradeCounter
      \/ \E dups :
           /\ queue' = queue \o (<<Sim!Event(AckLatency, "Confirm", id)>> \o Sim!Fills(id, size, price, dups))
           /\ tradeCounter' = tradeCounter + 1 + Chunks - Sim!FirstChunk(size)
  BY <1>1 DEF Sim!PlaceOrder, Sim!Schedule
<1> HIDE DEF id, size, price
<1>9. ASSUME NEW in \in Int, NEW type \in OtherKinds
      PROVE  LET e == Sim!Event(in, type, id) IN e \in EventType /\ e.id = id /\ e.type \in OtherKinds
  BY <1>3 DEF Sim!Event, EventType
<1>10. AckLatency \in Int /\ AckLatency + FillLatency \in Int BY SimAssumption
<1>11. "Reject" \in OtherKinds /\ "Confirm" \in OtherKinds /\ "Unsolicited" \in OtherKinds
  BY DEF OtherKinds, DeadKinds, EndKinds
<1>12. ASSUME NEW s \in Seq(EventType), \A e \in Elements(s) : e.id = id /\ e.type \in OtherKinds
       PROVE  ScheduledFor(s, id, size, price)
  <2>1. \A e \in Elements(s) : e.type # "Fill" BY <1>12 DEF OtherKinds, DeadKinds, EndKinds
  <2> QED BY <1>12, <2>1, NoFills DEF ScheduledFor
<1>13. ASSUME NEW e, NEW d, e \in EventType, d \in EventType, e.id = id, d.id = id,
              e.type \in OtherKinds, d.type \in OtherKinds
       PROVE  /\ <<e>> \in Seq(EventType) /\ ScheduledFor(<<e>>, id, size, price)
              /\ \A x \in Elements(<<e>>) : x.id = id /\ x.type \in OtherKinds
              /\ <<e, d>> \in Seq(EventType) /\ ScheduledFor(<<e, d>>, id, size, price)
  <2>1. <<e>> \in Seq(EventType) /\ <<e, d>> \in Seq(EventType) BY <1>13
  <2>2. /\ \A x \in Elements(<<e>>) : x.id = id /\ x.type \in OtherKinds
        /\ \A x \in Elements(<<e, d>>) : x.id = id /\ x.type \in OtherKinds
    BY <1>13 DEF Elements
  <2> QED BY <1>12, <2>1, <2>2
<1>14. tradeCounter \in Nat BY DEF SimTyped
<1>15. CASE /\ queue' = queue \o <<Sim!Event(AckLatency, "Reject", id)>>
            /\ UNCHANGED tradeCounter
  <2> DEFINE s == <<Sim!Event(AckLatency, "Reject", id)>>
  <2>1. ScheduledFor(s, id, size, price) BY <1>9, <1>10, <1>11, <1>13
  <2> HIDE DEF s
  <2>2. queue' = queue \o s /\ tradeCounter' \in Nat BY <1>14, <1>15 DEF s
  <2>3. PlacedAs(req, id, s)
    BY <1>2, <1>3, <1>4, <1>5, <1>6, <1>7, <2>1, <2>2 DEF PlacedAs, id, size, price
  <2> QED BY <2>3
<1>16. CASE /\ queue' = queue \o <<Sim!Event(AckLatency, "Confirm", id),
                                   Sim!Event(AckLatency + FillLatency, "Unsolicited", id)>>
            /\ UNCHANGED tradeCounter
  <2> DEFINE s == <<Sim!Event(AckLatency, "Confirm", id),
                    Sim!Event(AckLatency + FillLatency, "Unsolicited", id)>>
  <2>1. ScheduledFor(s, id, size, price) BY <1>9, <1>10, <1>11, <1>13
  <2> HIDE DEF s
  <2>2. queue' = queue \o s /\ tradeCounter' \in Nat BY <1>14, <1>16 DEF s
  <2>3. PlacedAs(req, id, s)
    BY <1>2, <1>3, <1>4, <1>5, <1>6, <1>7, <2>1, <2>2 DEF PlacedAs, id, size, price
  <2> QED BY <2>3
<1>17. CASE \E dups :
              /\ queue' = queue \o (<<Sim!Event(AckLatency, "Confirm", id)>> \o Sim!Fills(id, size, price, dups))
              /\ tradeCounter' = tradeCounter + 1 + Chunks - Sim!FirstChunk(size)
  <2>1. PICK dups :
          /\ queue' = queue \o (<<Sim!Event(AckLatency, "Confirm", id)>> \o Sim!Fills(id, size, price, dups))
          /\ tradeCounter' = tradeCounter + 1 + Chunks - Sim!FirstChunk(size)
    BY <1>17
  <2> DEFINE a == <<Sim!Event(AckLatency, "Confirm", id)>>
             f == Sim!Fills(id, size, price, dups)
             s == a \o f
  <2>2. /\ a \in Seq(EventType) /\ ScheduledFor(a, id, size, price)
        /\ \A x \in Elements(a) : x.id = id /\ x.type \in OtherKinds
    BY <1>9, <1>10, <1>11, <1>13
  <2>3. \A x \in Elements(a) : ~FillOf(x, id) /\ x.type # "Fill"
    BY <2>2, NoFills DEF OtherKinds, DeadKinds, EndKinds
  <2>4. FillsAgree(a) BY <2>2, NoFills
  <2>5. f \in Seq(EventType) /\ \A e \in Elements(f) : FillOf(e, id) /\ e.price = price
    <3>1. PICK row : f \in Seq(EventType) /\ ScheduledAs(id, size, price, f, row)
      BY <1>3, <1>6, <1>14, FillsAreChunks
    <3> HIDE DEF f
    <3>2. ASSUME NEW k \in DOMAIN f PROVE FillOf(f[k], id) /\ f[k].price = price
      <4>1. PICK i, at : f[k] = ChunkFill(id, size, price, i, at) BY <3>1 DEF ScheduledAs
      <4> QED BY <4>1 DEF ChunkFill, Sim!FillEvent, FillOf
    <3> QED BY <3>1, <3>2 DEF Elements
  <2>6. LastChunkIsLast => /\ FillsAgree(f) /\ LastIsLast(f, id, {})
                           /\ Traded(ToCome(f, id, {})) = size
    BY <1>3, <1>6, <1>14, FillsMakeUpOrder
  <2>7. queue' = queue \o s BY <2>1
  <2> HIDE DEF a, f
  <2>8. s \in Seq(EventType) /\ Elements(s) = Elements(a) \cup Elements(f)
    BY <2>2, <2>5, EventsAdded
  <2>9. /\ FillsAgree(a) /\ FillsAgree(f) => FillsAgree(s)
        /\ \A seen : /\ LastIsLast(f, id, seen) => LastIsLast(s, id, seen)
                     /\ ToCome(s, id, seen) = ToCome(f, id, seen)
    BY <2>2, <2>3, <2>5, OwnFills
  <2> HIDE DEF s
  <2>10. ScheduledFor(s, id, size, price)
    BY <2>2, <2>4, <2>5, <2>6, <2>8, <2>9 DEF ScheduledFor, FillOf
  <2>11. tradeCounter' \in Nat
    <3>1. Chunks \in Nat /\ Sim!FirstChunk(size) \in 1 .. Chunks BY <1>6, ChunksAre
    <3> QED BY <1>14, <2>1, <3>1
  <2>12. PlacedAs(req, id, s)
    BY <1>2, <1>3, <1>4, <1>5, <1>6, <1>7, <2>7, <2>10, <2>11 DEF PlacedAs, id, size, price
  <2> QED BY <2>12
<1> QED BY <1>8, <1>15, <1>16, <1>17

(* The start of a poll brings every event nearer, by the same time. *)
LEMMA PollShifts ==
  ASSUME SimTyped, Sim!BeginPoll
  PROVE  /\ queue' \in Seq(EventType) /\ DOMAIN queue' = DOMAIN queue
         /\ \A k \in DOMAIN queue :
              /\ queue'[k].in = queue[k].in - Step /\ queue[k].in \in Int
              /\ queue'[k].type = queue[k].type /\ queue'[k].id = queue[k].id
              /\ queue'[k].qty = queue[k].qty /\ queue'[k].trade = queue[k].trade
              /\ queue'[k].final = queue[k].final /\ queue'[k].price = queue[k].price
         /\ UNCHANGED <<working, simPosition, tradeCounter>> /\ Step \in Int
<1>1. /\ queue' = [k \in DOMAIN queue |-> [queue[k] EXCEPT !.in = @ - Step]]
      /\ UNCHANGED <<working, simPosition, tradeCounter>>
  BY DEF Sim!BeginPoll
<1>2. /\ DOMAIN queue = 1 .. Len(queue) /\ Len(queue) \in Nat
      /\ \A k \in DOMAIN queue : queue[k] \in EventType
  BY DEF SimTyped
<1>3. Step \in Int BY SimAssumption
<1>4. ASSUME NEW k \in DOMAIN queue
      PROVE  /\ queue'[k] \in EventType
             /\ queue'[k].in = queue[k].in - Step /\ queue[k].in \in Int
             /\ queue'[k].type = queue[k].type /\ queue'[k].id = queue[k].id
             /\ queue'[k].qty = queue[k].qty /\ queue'[k].trade = queue[k].trade
             /\ queue'[k].final = queue[k].final /\ queue'[k].price = queue[k].price
  <2>1. queue[k] \in EventType BY <1>2
  <2>2. queue'[k] = [queue[k] EXCEPT !.in = @ - Step] BY <1>1
  <2> QED BY <1>3, <2>1, <2>2 DEF EventType
<1>5. queue' = [k \in 1 .. Len(queue) |-> queue'[k]] BY <1>1, <1>2
<1>6. queue' \in Seq(EventType) BY <1>2, <1>4, <1>5
<1> QED BY <1>1, <1>2, <1>3, <1>4, <1>5, <1>6

(* What the delivery of an event is to the two sides. *)
Delivered(ev, n) ==
  /\ n \in DOMAIN queue /\ ev = queue[n] /\ ev \in EventType /\ ev.id \in issued
  /\ ev.type = "Fill" => ev.price = working[ev.id].price
  /\ Handle(ev)
  /\ queue' = Sim!RemoveAt(queue, n) /\ UNCHANGED <<issued, tradeCounter>>
  /\ \/ ev.type = "Fill" /\ Sim!BookFill(ev)
     \/ /\ ev.type \in EndKinds
        /\ working' = [working EXCEPT ![ev.id].alive = FALSE]
        /\ UNCHANGED simPosition
     \/ /\ ev.type \in {"Confirm", "CancelReject"}
        /\ UNCHANGED <<working, simPosition>>

LEMMA DeliveryIs ==
  ASSUME SimTyped, DeliverDue
  PROVE  \E ev : Delivered(ev, Sim!NextDue)
<1> DEFINE n == Sim!NextDue
<1>1. Sim!DueIndexes # {} /\ queue \in Seq(EventType) BY DEF DeliverDue, Sim!Deliver, SimTyped
<1>2. n \in DOMAIN queue BY <1>1, NextDueIsSoonest
<1>3. PICK ev : ev = queue[n] OBVIOUS
<1>4. /\ ev \in EventType /\ ev.id \in issued /\ ev.id \in DOMAIN working
      /\ ev.type = "Fill" => ev.price = working[ev.id].price
  BY <1>2, <1>3 DEF SimTyped, Elements, EventOK
<1>5. Handle(ev) BY <1>3 DEF DeliverDue
<1>6. queue' = Sim!RemoveAt(queue, n) /\ UNCHANGED tradeCounter
  BY DEF DeliverDue, Sim!Deliver
<1>7. UNCHANGED issued
  BY <1>5 DEF Handle, OnConfirm, OnFill, ApplyFill, UnknownFill, OnReject, OnCancelAck,
              OnCancelReject, OnUnsolicitedCancel, FinishCancel, Finish, Drop, ids
<1>8. \/ ev.type = "Fill" /\ Sim!BookFill(ev)
      \/ /\ ev.type \in EndKinds
         /\ working' = [working EXCEPT ![ev.id].alive = FALSE]
         /\ UNCHANGED simPosition
      \/ /\ ev.type \in {"Confirm", "CancelReject"}
         /\ UNCHANGED <<working, simPosition>>
  BY <1>3, <1>4 DEF DeliverDue, Sim!Deliver, EndKinds
<1> HIDE DEF n
<1>9. Delivered(ev, n) BY <1>2, <1>3, <1>4, <1>5, <1>6, <1>7, <1>8 DEF Delivered
<1> QED BY <1>9 DEF n

(* The simulator's books after a fill. *)
LEMMA FillBooked ==
  ASSUME working \in [issued -> WorkingType], simPosition \in [Instruments -> Int],
         NEW ev \in EventType, ev.id \in issued, Sim!BookFill(ev)
  PROVE  LET w     == working[ev.id]
             fresh == ~(ev.trade \in w.seen) /\ w.alive
             left  == IF fresh THEN w.left - ev.qty ELSE w.left
             d     == IF w.side = "Buy" THEN ev.qty ELSE -ev.qty
         IN /\ working' \in [issued -> WorkingType]
            /\ \A id \in issued \ {ev.id} : working'[id] = working[id]
            /\ working'[ev.id].inst = w.inst /\ working'[ev.id].side = w.side
            /\ working'[ev.id].size = w.size /\ working'[ev.id].price = w.price
            /\ working'[ev.id].left = left /\ working'[ev.id].seen = w.seen \cup {ev.trade}
            /\ working'[ev.id].alive <=> w.alive /\ ~(fresh /\ (ev.final \/ left <= 0))
            /\ simPosition' = IF fresh THEN [simPosition EXCEPT ![w.inst] = @ + d] ELSE simPosition
            /\ simPosition' \in [Instruments -> Int]
<1> DEFINE w     == working[ev.id]
           fresh == ~(ev.trade \in w.seen) /\ w.alive
           left  == IF fresh THEN w.left - ev.qty ELSE w.left
           d     == IF w.side = "Buy" THEN ev.qty ELSE -ev.qty
           alive == w.alive /\ ~(fresh /\ (ev.final \/ left <= 0))
           r == [w EXCEPT !.seen = @ \cup {ev.trade}, !.left = left, !.alive = alive]
<1>1. working' = [working EXCEPT ![ev.id] = r] BY DEF Sim!BookFill
<1>2. w \in WorkingType /\ ev.trade \in Nat /\ ev.qty \in Nat BY DEF EventType
<1>3. w.inst \in Instruments /\ w.left \in Int /\ w.alive \in BOOLEAN /\ w.seen \in SUBSET Nat
  BY <1>2 DEF WorkingType
<1>4. left \in Int /\ alive \in BOOLEAN /\ d \in Int BY <1>2, <1>3
<1>5. simPosition' = IF fresh THEN [simPosition EXCEPT ![w.inst] = @ + d] ELSE simPosition
  BY <1>2, <1>3 DEF Sim!BookFill
<1> HIDE DEF w, d, fresh, left, alive
<1>6. /\ r \in WorkingType /\ r.inst = w.inst /\ r.side = w.side /\ r.left = left
      /\ r.size = w.size /\ r.price = w.price
      /\ r.seen = w.seen \cup {ev.trade} /\ r.alive = alive
  BY <1>2, <1>3, <1>4 DEF WorkingType
<1> HIDE DEF r
<1>7. /\ working' \in [issued -> WorkingType] /\ working'[ev.id] = r
      /\ \A id \in issued \ {ev.id} : working'[id] = working[id]
  BY <1>1, <1>6
<1>8. simPosition' \in [Instruments -> Int] BY <1>3, <1>4, <1>5
<1> QED BY <1>5, <1>6, <1>7, <1>8 DEF w, d, fresh, left, alive

LEMMA TypesKept ==
  ASSUME NoWrap, SimWired, InjectsNoFill, IndInv, SimTyped, [DriverNext]_driverVars
  PROVE  SimTyped'
<1>1. /\ working \in [issued -> WorkingType] /\ simPosition \in [Instruments -> Int]
      /\ queue \in Seq(EventType) /\ tradeCounter \in Nat /\ IsFiniteSet(issued)
      /\ \A e \in Elements(queue) : EventOK(e, working)
      /\ live \subseteq issued
  BY DEF SimTyped
<1>2. CASE QuietSteps
  <2>1. Quietly BY <1>2, QuietStepsAreQuiet
  <2>2. PICK s : Notices(s) /\ queue' = queue \o s BY <2>1 DEF Quietly, Noticed
  <2>3. \A e \in Elements(s) : EventOK(e, working)
    BY <1>1, <2>2 DEF Notices, EventOK, OtherKinds, DeadKinds, EndKinds
  <2>4. queue' \in Seq(EventType) /\ \A e \in Elements(queue') : EventOK(e, working)
    BY <1>1, <2>2, <2>3, EventsAdded DEF Notices
  <2> QED BY <1>1, <2>1, <2>4 DEF Quietly, Unmoved, SimTyped
<1>3. CASE SubmitConnected
  <2>1. PICK req \in Requests : \E id, s : PlacedAs(req, id, s) BY <1>3, SubmitIsPlaced
  <2>2. PICK id, s : PlacedAs(req, id, s) BY <2>1
  <2>3. /\ working' = [x \in issued \cup {id} |-> IF x = id THEN PlacedOrder(req)
                                                 ELSE working[x]]
        /\ id \notin issued /\ PlacedOrder(req).price = req.price
    BY <2>2 DEF PlacedAs, PlacedOrder
  <2>7. /\ queue' \in Seq(EventType) /\ queue' = queue \o s /\ s \in Seq(EventType)
        /\ Elements(queue') = Elements(queue) \cup Elements(s)
        /\ \A e \in Elements(s) : e.id = id /\ (e.type = "Fill" => e.price = req.price)
    BY <1>1, <2>2, EventsAdded DEF PlacedAs, ScheduledFor
  <2>8. \A e \in Elements(queue') : EventOK(e, working')
    BY <1>1, <2>3, <2>7 DEF EventOK
  <2>4. issued' = issued \cup {id} /\ IsFiniteSet(issued') BY <1>1, <2>2, FS_AddElement DEF PlacedAs
  <2>5. working' \in [issued' -> WorkingType]
    <3>1. PlacedOrder(req) \in WorkingType BY <2>2 DEF PlacedAs, PlacedOrder, WorkingType
    <3> QED BY <1>1, <2>3, <2>4, <3>1
  <2>6. simPosition' \in [Instruments -> Int] /\ tradeCounter' \in Nat /\ live' \subseteq issued'
    BY <1>1, <2>2 DEF PlacedAs
  <2> QED BY <2>4, <2>5, <2>6, <2>7, <2>8 DEF SimTyped
<1>4. CASE Sim!BeginPoll /\ UNCHANGED vars
  <2>1. UNCHANGED <<live, issued>> BY <1>4 DEF vars, ids, index
  <2>2. \A e \in Elements(queue') : EventOK(e, working')
    BY <1>1, <1>4, PollShifts DEF Elements, EventOK
  <2> QED BY <1>1, <1>4, <2>1, <2>2, PollShifts DEF SimTyped
<1>5. CASE DeliverDue
  <2>1. PICK ev : Delivered(ev, Sim!NextDue) BY <1>5, DeliveryIs
  <2>2. PICK n : Delivered(ev, n) BY <2>1
  <2>3. /\ n \in DOMAIN queue /\ ev \in EventType /\ ev.id \in issued
        /\ queue' = SubSeq(queue, 1, n - 1) \o SubSeq(queue, n + 1, Len(queue))
        /\ UNCHANGED <<issued, tradeCounter>>
    BY <2>2 DEF Delivered, Sim!RemoveAt
  <2>4. WithoutEvent(queue, n, EventType, queue') BY <1>1, <2>3, OneRemoved
  <2>5. queue' \in Seq(EventType) /\ \A e \in Elements(queue') : EventOK(e, working)
    <3>1. PICK at : \A j \in DOMAIN queue' : at[j] \in DOMAIN queue /\ queue'[j] = queue[at[j]]
      BY <2>4 DEF WithoutEvent
    <3>2. Elements(queue') \subseteq Elements(queue) BY <3>1 DEF Elements
    <3> QED BY <1>1, <2>4, <3>2 DEF WithoutEvent
  <2>6. /\ working' \in [issued -> WorkingType] /\ simPosition' \in [Instruments -> Int]
        /\ \A x \in issued : working'[x].price = working[x].price
    <3>1. CASE Sim!BookFill(ev)
      <4>1. /\ working' \in [issued -> WorkingType] /\ simPosition' \in [Instruments -> Int]
            /\ \A x \in issued \ {ev.id} : working'[x] = working[x]
            /\ working'[ev.id].price = working[ev.id].price
        BY <1>1, <2>3, <3>1, FillBooked
      <4> QED BY <4>1
    <3>2. CASE /\ working' = [working EXCEPT ![ev.id].alive = FALSE]
               /\ UNCHANGED simPosition
      <4>1. working[ev.id] \in WorkingType BY <1>1, <2>3
      <4> DEFINE r == [working[ev.id] EXCEPT !.alive = FALSE]
      <4>2. r \in WorkingType /\ r.price = working[ev.id].price BY <4>1 DEF WorkingType
      <4>3. working' = [working EXCEPT ![ev.id] = r] BY <3>2
      <4> HIDE DEF r
      <4> QED BY <1>1, <2>3, <3>2, <4>2, <4>3
    <3>3. CASE UNCHANGED <<working, simPosition>> BY <1>1, <3>3
    <3> QED BY <2>2, <3>1, <3>2, <3>3 DEF Delivered
  <2>7. live' \subseteq live
    <3>1. Handle(ev) BY <2>2 DEF Delivered
    <3> QED BY <3>1 DEF Handle, OnConfirm, OnFill, ApplyFill, UnknownFill, OnReject, OnCancelAck,
          OnCancelReject, OnUnsolicitedCancel, FinishCancel, Finish, Retire, Drop, index
  <2>8. \A e \in Elements(queue') : EventOK(e, working')
    BY <1>1, <2>5, <2>6 DEF EventOK
  <2> QED BY <1>1, <2>3, <2>5, <2>6, <2>7, <2>8 DEF SimTyped
<1> QED BY <1>2, <1>3, <1>4, <1>5, DriverStepIs

(* Before the first order. *)
LEMMA DriverInitTyped == DriverInit => IndInv /\ SimTyped
<1> SUFFICES ASSUME DriverInit PROVE IndInv /\ SimTyped OBVIOUS
<1>1. IndInv /\ issued = {} /\ live = {} BY InitIndInv DEF DriverInit, Init
<1>2. /\ working = [id \in {} |-> 0] /\ queue = <<>> /\ tradeCounter = 0
      /\ simPosition = [i \in Instruments |-> 0]
  BY DEF DriverInit, Sim!SimInit
<1>3. working \in [issued -> WorkingType] /\ simPosition \in [Instruments -> Int]
  BY <1>1, <1>2
<1>4. queue \in Seq(EventType) /\ Elements(queue) = {} BY <1>2 DEF Elements
<1> QED BY <1>1, <1>2, <1>3, <1>4, FS_EmptySet DEF SimTyped

(* Driven by the strategy, the timers and the simulator, for any latencies, *)
(* chunks and coins, the manager runs as OrderManager says: what is proved  *)
(* of it alone holds of it here.                                            *)
THEOREM DriverRunsManager ==
  ASSUME NoWrap, SimWired, InjectsNoFill PROVE DriverSpec => Spec
<1>1. DriverInit => Init /\ IndInv /\ SimTyped BY DriverInitTyped DEF DriverInit
<1>2. IndInv /\ SimTyped /\ [DriverNext]_driverVars => (IndInv /\ SimTyped)'
  BY ManagerStepsWithDriver, NextKeepsInv, TypesKept
<1>3. IndInv /\ SimTyped /\ [DriverNext]_driverVars => [Next]_vars BY ManagerStepsWithDriver
<1> QED BY <1>1, <1>2, <1>3, PTL DEF DriverSpec, Spec

(* So it keeps the ledger's promise (OrderManager.h), duplicates, reordered *)
(* fills, cancels, timeouts and disconnects included.                       *)
THEOREM DriverKeepsLedger ==
  ASSUME NoWrap, SimWired, InjectsNoFill PROVE DriverSpec => KeepsLedger
BY DriverRunsManager, ImplementsLedger

-----------------------------------------------------------------------------
(* Both sides agree. *)

(* What the manager dropped of an order is an integer, zero if it has a     *)
(* price.                                                                   *)
LEMMA DroppedType ==
  ASSUME NEW w \in WorkingType
  PROVE  Dropped(w) \in Int /\ (w.price > 0 => Dropped(w) = 0)
BY DEF WorkingType, Dropped, Signed

(* One order changes: the drops of its instrument change with it. *)
LEMMA DropsMove ==
  ASSUME NEW I, IsFiniteSet(I), NEW a \in [I -> WorkingType], NEW b \in [I -> WorkingType],
         NEW id \in I, \A x \in I \ {id} : b[x] = a[x], b[id].inst = a[id].inst, NEW i
  PROVE  DroppedFills(b, i) = DroppedFills(a, i)
           + (IF a[id].inst = i THEN Dropped(b[id]) - Dropped(a[id]) ELSE 0)
         /\ DroppedFills(a, i) \in Int
<1> DEFINE f == [x \in I |-> Dropped(a[x])]
           g == [x \in I |-> Dropped(b[x])]
           S == {x \in I : a[x].inst = i}
<1>1. {x \in I : b[x].inst = i} = S
  <2>1. \A x \in I : b[x].inst = a[x].inst OBVIOUS
  <2> QED BY <2>1
<1>2. DOMAIN a = I /\ DOMAIN b = I OBVIOUS
<1>3. DroppedFills(a, i) = SumFunctionOnSet(f, S) /\ DroppedFills(b, i) = SumFunctionOnSet(g, S)
  BY <1>1, <1>2 DEF DroppedFills
<1>4. \A x \in I : f[x] = Dropped(a[x]) /\ g[x] = Dropped(b[x])
                    /\ f[x] \in Int /\ g[x] \in Int
  BY DroppedType
<1>5. \A x \in I \ {id} : f[x] = g[x] BY <1>4
<1>6. IsFiniteSet(S) /\ S \subseteq I /\ (id \in S <=> a[id].inst = i) BY FS_Subset
<1> HIDE DEF f, g, S
<1>7. SumFunctionOnSet(f, S) \in Int BY <1>4, <1>6, SumInt
<1>8. CASE id \in S
  <2>1. SumFunctionOnSet(g, S) = SumFunctionOnSet(f, S) + g[id] - f[id]
    BY <1>4, <1>5, <1>6, <1>8, SumChange
  <2> QED BY <1>3, <1>4, <1>6, <1>7, <1>8, <2>1
<1>9. CASE id \notin S
  <2>1. SumFunctionOnSet(f, S) = SumFunctionOnSet(g, S) BY <1>5, <1>6, <1>9, SumSame
  <2> QED BY <1>3, <1>6, <1>7, <1>9, <2>1
<1> QED BY <1>8, <1>9

(* An order is placed: nothing of it is executed yet. *)
LEMMA DropsOfPlaced ==
  ASSUME NEW I, IsFiniteSet(I), NEW a \in [I -> WorkingType], NEW id, id \notin I,
         NEW b \in [I \cup {id} -> WorkingType], \A x \in I : b[x] = a[x],
         b[id].left = b[id].size, NEW i
  PROVE  DroppedFills(b, i) = DroppedFills(a, i)
<1> DEFINE f == [x \in I |-> Dropped(a[x])]
           g == [x \in I \cup {id} |-> Dropped(b[x])]
           S == {x \in I : a[x].inst = i}
           T == {x \in I \cup {id} : b[x].inst = i}
<1>1. DOMAIN a = I /\ DOMAIN b = I \cup {id} OBVIOUS
<1>2. DroppedFills(a, i) = SumFunctionOnSet(f, S) /\ DroppedFills(b, i) = SumFunctionOnSet(g, T)
  BY <1>1 DEF DroppedFills
<1>3. T = S \/ T = S \cup {id} OBVIOUS
<1>4. IsFiniteSet(S) /\ id \notin S /\ \A x \in S : f[x] = g[x] BY FS_Subset
<1>5. g[id] = 0
  <2>1. b[id] \in WorkingType OBVIOUS
  <2>2. Dropped(b[id]) = 0 BY <2>1 DEF WorkingType, Dropped, Signed
  <2> QED BY <2>2
<1>6. \A x \in S : g[x] \in Int
  <2>1. \A x \in S : b[x] \in WorkingType /\ g[x] = Dropped(b[x]) OBVIOUS
  <2> QED BY <2>1, DroppedType
<1> HIDE DEF f, g, S, T
<1>7. SumFunctionOnSet(f, S) = SumFunctionOnSet(g, S) BY <1>4, SumSame
<1>8. SumFunctionOnSet(g, S) \in Int BY <1>4, <1>6, SumInt
<1>9. SumFunctionOnSet(g, S \cup {id}) = g[id] + SumFunctionOnSet(g, S)
  BY <1>4, <1>5, <1>6, SumAdd
<1>10. SumFunctionOnSet(g, S \cup {id}) = SumFunctionOnSet(g, S) BY <1>5, <1>8, <1>9
<1>11. SumFunctionOnSet(g, T) = SumFunctionOnSet(g, S) BY <1>3, <1>10
<1> QED BY <1>2, <1>7, <1>11

(* Before the first order nothing is open and nothing is to come. *)
LEMMA DriverInitHasInv == DriverInit => SimInv
<1> SUFFICES ASSUME DriverInit PROVE SimInv OBVIOUS
<1>1. IndInv /\ SimTyped BY DriverInitTyped
<1>2. /\ live = {} /\ issued = {} /\ position = [i \in Instruments |-> 0]
      /\ queue = <<>> /\ simPosition = [i \in Instruments |-> 0]
      /\ DOMAIN working = {}
  BY DEF DriverInit, Init, Sim!SimInit
<1>5. ASSUME NEW i \in Instruments PROVE DroppedFills(working, i) = 0
  <2>1. {id \in DOMAIN working : working[id].inst = i} = {} BY <1>2
  <2> QED BY <2>1, SumEmpty DEF DroppedFills
<1>3. SameBooks BY <1>2, <1>5 DEF SameBooks
<1>4. FillsAgree(queue) BY <1>2 DEF FillsAgree
<1> QED BY <1>1, <1>2, <1>3, <1>4 DEF SimInv, FillsToCome

(* A quiet step. *)
LEMMA QuietKeepsInv ==
  ASSUME SimInv, IndInv', SimTyped', Quietly
  PROVE  SimInv'
<1>1. /\ UNCHANGED <<live, trades, issued, position, working, simPosition>>
      /\ \A id \in live : Same(orders[id.slot], orders'[id.slot])
  BY DEF Quietly, Unmoved
<1>2. PICK s : Notices(s) /\ queue' = queue \o s BY DEF Quietly, Noticed
<1>3. SameBooks'
  BY <1>1 DEF SimInv, SameBooks, Agree, SameBook, Same
<1>4. queue \in Seq(EventType) /\ s \in Seq(EventType) BY <1>2 DEF SimInv, SimTyped, Notices
<1>5. FillsAgree(s) /\ \A id : \A e \in Elements(s) : ~FillOf(e, id)
  BY <1>2, <1>4, NoFills DEF Notices
<1>6. /\ FillsAgree(queue) => FillsAgree(queue')
      /\ \A id, seen : /\ LastIsLast(queue, id, seen) => LastIsLast(queue', id, seen)
                       /\ ToCome(queue', id, seen) = ToCome(queue, id, seen)
  BY <1>2, <1>4, <1>5, OwnFills
<1>7. FillsToCome' BY <1>1, <1>6 DEF SimInv, FillsToCome, CoversRest
<1> QED BY <1>3, <1>7 DEF SimInv

(* The start of a poll. *)
LEMMA PollKeepsInv ==
  ASSUME SimInv, IndInv', SimTyped', Sim!BeginPoll, UNCHANGED vars
  PROVE  SimInv'
<1>1. UNCHANGED <<live, trades, issued, position, orders, working, simPosition>>
  BY PollShifts DEF vars, index, ids, books, SimInv
<1>2. SameBooks' BY <1>1 DEF SimInv, SameBooks, Agree, SameBook
<1>3. /\ DOMAIN queue' = DOMAIN queue /\ Step \in Int
      /\ \A k \in DOMAIN queue :
           /\ queue'[k].in = queue[k].in - Step /\ queue[k].in \in Int
           /\ queue'[k].type = queue[k].type /\ queue'[k].id = queue[k].id
           /\ queue'[k].qty = queue[k].qty /\ queue'[k].trade = queue[k].trade
           /\ queue'[k].final = queue[k].final
  BY PollShifts DEF SimInv
<1>4. \A k \in DOMAIN queue : /\ \A id : FillOf(queue'[k], id) <=> FillOf(queue[k], id)
                              /\ TradeOf(queue'[k]) = TradeOf(queue[k])
  BY <1>3 DEF FillOf, TradeOf
<1>5. \A j, k \in DOMAIN queue : Sooner(queue, j, k) => Sooner(queue', j, k)
  BY <1>3 DEF Sooner
<1>6. FillsAgree(queue')
  <2> SUFFICES ASSUME NEW j \in DOMAIN queue, NEW k \in DOMAIN queue, queue'[j].type = "Fill",
                      FillOf(queue'[k], queue'[j].id)
               PROVE  /\ queue'[j].qty > 0
                      /\ queue'[j].trade = queue'[k].trade =>
                           queue'[j].qty = queue'[k].qty /\ queue'[j].final = queue'[k].final
                      /\ queue'[j].final /\ queue'[k].final => queue'[j].trade = queue'[k].trade
    BY <1>3 DEF FillsAgree
  <2>1. queue[j].type = "Fill" /\ FillOf(queue[k], queue[j].id) BY <1>3, <1>4
  <2>2. /\ queue[j].qty > 0
        /\ queue[j].trade = queue[k].trade =>
             queue[j].qty = queue[k].qty /\ queue[j].final = queue[k].final
        /\ queue[j].final /\ queue[k].final => queue[j].trade = queue[k].trade
    BY <2>1 DEF SimInv, FillsToCome, FillsAgree
  <2> QED BY <1>3, <2>2
<1>7. ASSUME NEW id, NEW seen
      PROVE  /\ LastIsLast(queue, id, seen) => LastIsLast(queue', id, seen)
             /\ ToCome(queue', id, seen) = ToCome(queue, id, seen)
  <2>1. ASSUME LastIsLast(queue, id, seen), NEW j \in DOMAIN queue, NEW k \in DOMAIN queue,
               FillOf(queue'[j], id), ~queue'[j].final, queue'[j].trade \notin seen,
               FillOf(queue'[k], id), queue'[k].final
        PROVE  \E m \in DOMAIN queue : /\ FillOf(queue'[m], id) /\ queue'[m].trade = queue'[j].trade
                                       /\ Sooner(queue', m, k)
    <3>1. PICK m \in DOMAIN queue : /\ FillOf(queue[m], id) /\ queue[m].trade = queue[j].trade
                                    /\ Sooner(queue, m, k)
      BY <1>3, <1>4, <2>1 DEF LastIsLast
    <3> QED BY <1>3, <1>4, <1>5, <3>1
  <2>2. LastIsLast(queue, id, seen) => LastIsLast(queue', id, seen)
    BY <1>3, <2>1 DEF LastIsLast
  <2>3. \A t : t \in ToCome(queue, id, seen) <=>
          \E k \in DOMAIN queue : FillOf(queue[k], id) /\ queue[k].trade \notin seen /\ t = TradeOf(queue[k])
    BY DEF ToCome, Elements
  <2>4. \A t : t \in ToCome(queue', id, seen) <=>
          \E k \in DOMAIN queue : FillOf(queue'[k], id) /\ queue'[k].trade \notin seen /\ t = TradeOf(queue'[k])
    BY <1>3 DEF ToCome, Elements
  <2>5. \A t : t \in ToCome(queue, id, seen) <=> t \in ToCome(queue', id, seen)
    BY <1>3, <1>4, <2>3, <2>4
  <2> QED BY <2>2, <2>5
<1>8. FillsToCome' BY <1>1, <1>6, <1>7 DEF SimInv, FillsToCome, CoversRest
<1> QED BY <1>2, <1>8 DEF SimInv

(* A submit that is sent. *)
LEMMA PlacedKeepsInv ==
  ASSUME SimInv, IndInv', SimTyped', LastChunkIsLast,
         NEW req \in Requests, NEW id, NEW s, PlacedAs(req, id, s)
  PROVE  SimInv'
<1>1. /\ req.inst \in Instruments /\ req.side \in Sides /\ req.size \in Nat \ {0}
      /\ req.price \in Int
      /\ id \in Ids /\ id \notin issued /\ id.slot \in Slots
      /\ live' = live \cup {id} /\ issued' = issued \cup {id}
      /\ UNCHANGED <<trades, position, simPosition>>
      /\ orders'[id.slot] = NewOrder(id, req, "Sent")
      /\ \A x \in live : x.slot \in Slots \ {id.slot} /\ orders'[x.slot] = orders[x.slot]
      /\ working' = [x \in issued \cup {id} |->
                   IF x = id THEN PlacedOrder(req) ELSE working[x]]
      /\ ScheduledFor(s, id, req.size, req.price) /\ queue' = queue \o s
  BY DEF PlacedAs
<1>2. /\ working'[id].inst = req.inst /\ working'[id].side = req.side
      /\ working'[id].size = req.size /\ working'[id].left = req.size
      /\ working'[id].alive /\ working'[id].seen = {}
      /\ \A x \in issued : working'[x] = working[x]
  BY <1>1 DEF PlacedOrder
<1>3. /\ live \subseteq issued /\ \A x \in issued : working[x].alive => x \in live
      /\ queue \in Seq(EventType) /\ \A e \in Elements(queue) : e.id \in issued
      /\ working \in [issued -> WorkingType] /\ IsFiniteSet(issued)
      /\ working' \in [issued' -> WorkingType]
  BY DEF SimInv, SimTyped, SameBooks, EventOK
<1>4. SameBooks'
  <2>1. \A x \in issued' : working'[x].alive => x \in live' BY <1>1, <1>2, <1>3
  <2>2. Agree(id, orders[id.slot], working[id])'
    <3>1. \A t : <<id, t>> \notin trades
      <4>1. \A u \in trades : u[1] \in live BY DEF SimInv, IndInv
      <4> QED BY <1>1, <1>3, <4>1
    <3>2. /\ orders'[id.slot].inst = req.inst /\ orders'[id.slot].side = req.side
          /\ orders'[id.slot].size = req.size /\ orders'[id.slot].filled = 0
      BY <1>1 DEF NewOrder
    <3> QED BY <1>1, <1>2, <3>1, <3>2 DEF Agree, SameBook
  <2>3. ASSUME NEW x \in live PROVE Agree(x, orders[x.slot], working[x])'
    <3>1. Agree(x, orders[x.slot], working[x]) BY DEF SimInv, SameBooks
    <3> QED BY <1>1, <1>2, <1>3, <3>1 DEF Agree, SameBook
  <2>4. ASSUME NEW i \in Instruments PROVE DroppedFills(working', i) = DroppedFills(working, i)
    <3>1. issued' = issued \cup {id} /\ id \notin issued BY <1>1
    <3>2. working' \in [issued \cup {id} -> WorkingType] BY <1>3, <3>1
    <3>3. working'[id].left = working'[id].size BY <1>2
    <3>4. \A x \in issued : working'[x] = working[x] BY <1>2
    <3>5. working \in [issued -> WorkingType] /\ IsFiniteSet(issued) BY <1>3
    <3> QED BY <3>1, <3>2, <3>3, <3>4, <3>5, DropsOfPlaced
  <2> QED BY <1>1, <2>1, <2>2, <2>3, <2>4 DEF SimInv, SameBooks
<1>5. s \in Seq(EventType) /\ \A e \in Elements(s) : e.id = id BY <1>1 DEF ScheduledFor
<1>6. /\ \A x \in Elements(queue), y \in Elements(s) : x.type = "Fill" => ~FillOf(y, x.id)
      /\ \A y \in Elements(s) : \A x \in live : ~FillOf(y, x)
      /\ \A x \in Elements(queue) : ~FillOf(x, id)
  BY <1>1, <1>3, <1>5 DEF FillOf
<1>7. FillsAgree(queue') /\ LastIsLast(queue', id, {}) /\ ToCome(queue', id, {}) = ToCome(s, id, {})
  BY <1>1, <1>3, <1>5, <1>6, OwnFills DEF SimInv, FillsToCome, ScheduledFor
<1>8. ASSUME NEW x \in live, NEW seen
      PROVE  /\ LastIsLast(queue, x, seen) => LastIsLast(queue', x, seen)
             /\ ToCome(queue', x, seen) = ToCome(queue, x, seen)
  BY <1>1, <1>3, <1>5, <1>6, OwnFills
<1>9. CoversRest(queue', id, working'[id])
  BY <1>1, <1>2, <1>7 DEF CoversRest, ScheduledFor
<1>10. ASSUME NEW x \in live, working'[x].price > 0
       PROVE  LastIsLast(queue', x, working'[x].seen) /\ CoversRest(queue', x, working'[x])
  <2>1. LastIsLast(queue, x, working[x].seen) /\ CoversRest(queue, x, working[x])
    BY <1>2, <1>3, <1>10 DEF SimInv, FillsToCome
  <2>2. working'[x] = working[x] BY <1>2, <1>3
  <2> QED BY <1>8, <2>1, <2>2 DEF CoversRest
<1>11. FillsToCome' BY <1>1, <1>2, <1>7, <1>9, <1>10 DEF FillsToCome
<1> QED BY <1>4, <1>11 DEF SimInv

(* The trades to come are finitely many, each of some quantity. *)
LEMMA ToComeFinite ==
  ASSUME NEW q \in Seq(EventType), NEW id, NEW seen
  PROVE  LET T == ToCome(q, id, seen)
         IN  IsFiniteSet(T) /\ T \subseteq TradeType /\ \A t \in T : TradedQty[t] = t.qty /\ t.qty \in Nat
<1> DEFINE T == ToCome(q, id, seen)
           E == {x \in Elements(q) : FillOf(x, id) /\ x.trade \notin seen}
           f == [k \in 1 .. Len(q) |-> q[k]]
           g == [e \in E |-> TradeOf(e)]
<1>1. Len(q) \in Nat /\ DOMAIN q = 1 .. Len(q) /\ \A k \in DOMAIN q : q[k] \in EventType OBVIOUS
<1>2. IsFiniteSet(1 .. Len(q)) BY <1>1, FS_Interval
<1>3. f \in Surjection(1 .. Len(q), Elements(q)) BY <1>1 DEF Surjection, Elements
<1>4. IsFiniteSet(Elements(q)) BY <1>2, <1>3, FS_Surjection
<1>5. E \subseteq Elements(q) /\ Elements(q) \subseteq EventType BY <1>1 DEF Elements
<1>6. IsFiniteSet(E) BY <1>4, <1>5, FS_Subset
<1>7. T = {TradeOf(e) : e \in E} BY DEF ToCome
<1> HIDE DEF T, E, f
<1>8. g \in Surjection(E, T) BY <1>7 DEF Surjection
<1>9. IsFiniteSet(T) BY <1>6, <1>8, FS_Surjection
<1>10. \A e \in E : TradeOf(e) \in TradeType BY <1>5 DEF TradeOf, EventType, TradeType
<1>11. T \subseteq TradeType BY <1>7, <1>10
<1>12. \A t \in TradeType : TradedQty[t] = t.qty /\ t.qty \in Nat BY DEF TradedQty, TradeType
<1> QED BY <1>9, <1>11, <1>12 DEF T

(* What a delivery leaves to come of an order. *)
LEMMA EventsLeft ==
  ASSUME SimInv, NEW ev, NEW n, Delivered(ev, n)
  PROVE  /\ FillsAgree(queue')
         /\ \A id, a, b :
              a \subseteq b /\ (FillOf(ev, id) => ev.trade \in b) =>
                /\ LastIsLast(queue, id, a) => LastIsLast(queue', id, b)
                /\ ToCome(queue', id, b) = Unseen(ToCome(queue, id, a), b)
<1>1. queue \in Seq(EventType) /\ FillsAgree(queue) BY DEF SimInv, SimTyped, FillsToCome
<1>2. n \in DOMAIN queue /\ ev = queue[n] /\ queue' = Sim!RemoveAt(queue, n) BY DEF Delivered
<1> DEFINE p == Sim!RemoveAt(queue, n)
<1>3. /\ FillsAgree(p)
      /\ \A id, a, b :
           a \subseteq b /\ (FillOf(queue[n], id) => queue[n].trade \in b) =>
             /\ LastIsLast(queue, id, a) => LastIsLast(p, id, b)
             /\ ToCome(p, id, b) = Unseen(ToCome(queue, id, a), b)
  BY <1>1, <1>2, EventRemoved
<1>4. queue' = p BY <1>2
<1> HIDE DEF p
<1>5. FillsAgree(queue') BY <1>3, <1>4
<1>6. ASSUME NEW id, NEW a, NEW b, a \subseteq b, FillOf(ev, id) => ev.trade \in b
      PROVE  /\ LastIsLast(queue, id, a) => LastIsLast(queue', id, b)
             /\ ToCome(queue', id, b) = Unseen(ToCome(queue, id, a), b)
  BY <1>2, <1>3, <1>4, <1>6
<1> QED BY <1>5, <1>6

(* Of the other orders, and of a trade already seen, what is to come stays. *)
LEMMA StillToCome ==
  ASSUME SimInv, NEW ev, NEW n, Delivered(ev, n), NEW id \in live, working[id].price > 0,
         working'[id].left = working[id].left, working'[id].seen = working[id].seen,
         FillOf(ev, id) => ev.trade \in working[id].seen
  PROVE  LastIsLast(queue', id, working'[id].seen) /\ CoversRest(queue', id, working'[id])
<1> DEFINE seen == working[id].seen
<1>1. LastIsLast(queue, id, seen) /\ CoversRest(queue, id, working[id])
  BY DEF SimInv, FillsToCome
<1>2. /\ LastIsLast(queue, id, seen) => LastIsLast(queue', id, seen)
      /\ ToCome(queue', id, seen) = Unseen(ToCome(queue, id, seen), seen)
  <2>1. seen \subseteq seen /\ (FillOf(ev, id) => ev.trade \in seen) OBVIOUS
  <2> HIDE DEF seen
  <2> QED BY <2>1, EventsLeft
<1>3. \A t \in ToCome(queue, id, seen) : t.trade \notin seen BY DEF ToCome, TradeOf
<1>4. ToCome(queue', id, seen) = ToCome(queue, id, seen) BY <1>2, <1>3 DEF Unseen
<1> QED BY <1>1, <1>2, <1>4 DEF CoversRest

(* A delivery that neither side books. *)
LEMMA IdleDeliveryKeepsInv ==
  ASSUME SimInv, IndInv', SimTyped', NEW ev, NEW n, Delivered(ev, n), Unmoved,
         UNCHANGED simPosition,
         \A i \in Instruments : DroppedFills(working', i) = DroppedFills(working, i),
         \A id \in issued : /\ working'[id].alive <=> working[id].alive
                            /\ working'[id].price = working[id].price
                            /\ working'[id].size = working[id].size,
         \A id \in live :
           /\ working'[id].inst = working[id].inst /\ working'[id].side = working[id].side
           /\ working'[id].left = working[id].left
           /\ working[id].price > 0 => /\ working'[id].seen = working[id].seen
                                       /\ FillOf(ev, id) => ev.trade \in working[id].seen
  PROVE  SimInv'
<1>1. /\ UNCHANGED <<live, trades, issued, position>>
      /\ \A id \in live : Same(orders[id.slot], orders'[id.slot])
  BY DEF Unmoved
<1>2. \A id \in issued' : working'[id].alive => id \in live' BY <1>1 DEF SimInv, SameBooks
<1>6. live \subseteq issued BY DEF SimInv, SimTyped
<1>3. ASSUME NEW id \in live PROVE Agree(id, orders[id.slot], working[id])'
  <2>1. Agree(id, orders[id.slot], working[id]) BY DEF SimInv, SameBooks
  <2> QED BY <1>1, <1>6, <2>1 DEF Agree, SameBook, Same
<1>4. SameBooks' BY <1>1, <1>2, <1>3 DEF SimInv, SameBooks
<1>5. FillsToCome' BY <1>1, <1>6, EventsLeft, StillToCome DEF FillsToCome
<1> QED BY <1>4, <1>5 DEF SimInv

(* A delivery that ends an order. *)
LEMMA EndDeliveryKeepsInv ==
  ASSUME SimInv, IndInv', SimTyped', NEW ev, NEW n, Delivered(ev, n), ev.type \in EndKinds
  PROVE  SimInv'
<1> DEFINE id == ev.id
<1>1. /\ id \in issued /\ (OnReject(id) \/ OnCancelAck(id) \/ OnUnsolicitedCancel(id))
      /\ working' = [working EXCEPT ![id].alive = FALSE] /\ UNCHANGED simPosition
      /\ ev.type # "Fill"
  BY DEF Delivered, Handle, EndKinds
<1>2. /\ working \in [issued -> WorkingType]
      /\ \A x \in issued : working[x].alive => x \in live
      /\ live \subseteq issued /\ IsFiniteSet(issued) /\ UNCHANGED issued
      /\ working' \in [issued -> WorkingType]
  BY DEF SimInv, SimTyped, SameBooks, Delivered
<1>3. /\ \A x \in issued \ {id} : working'[x] = working[x]
      /\ working'[id].alive = FALSE
      /\ working'[id].price = working[id].price /\ working'[id].size = working[id].size
      /\ working'[id].inst = working[id].inst /\ working'[id].side = working[id].side
      /\ working'[id].left = working[id].left /\ working'[id].seen = working[id].seen
  <2>1. working[id] \in WorkingType BY <1>1, <1>2
  <2>2. working'[id] = [working[id] EXCEPT !.alive = FALSE] BY <1>1, <1>2
  <2>3. \A x \in issued \ {id} : working'[x] = working[x] BY <1>1, <1>2
  <2> HIDE DEF id
  <2> QED BY <2>1, <2>2, <2>3 DEF WorkingType
<1>4. \A x : ~FillOf(ev, x) BY <1>1 DEF FillOf
<1>5. IF id \in live THEN Ended(id) ELSE Unmoved
  <2>1. IndInv BY DEF SimInv
  <2> HIDE DEF id
  <2> QED BY <1>1, <2>1, EndsMove
<1> HIDE DEF id
<1>8. ASSUME NEW i \in Instruments PROVE DroppedFills(working', i) = DroppedFills(working, i)
  <2>1. Dropped(working'[id]) = Dropped(working[id]) BY <1>3 DEF Dropped
  <2>2. Dropped(working[id]) \in Int BY <1>1, <1>2, DroppedType
  <2>3. /\ DroppedFills(working', i) = DroppedFills(working, i)
             + (IF working[id].inst = i THEN Dropped(working'[id]) - Dropped(working[id]) ELSE 0)
        /\ DroppedFills(working, i) \in Int
    <3>1. id \in issued /\ working'[id].inst = working[id].inst BY <1>1, <1>3
    <3>2. \A x \in issued \ {id} : working'[x] = working[x] BY <1>3
    <3> QED BY <1>2, <3>1, <3>2, DropsMove
  <2> QED BY <2>1, <2>2, <2>3
<1>6. CASE id \notin live
  <2>1. \A x \in issued : /\ working'[x].alive <=> working[x].alive
                          /\ working'[x].price = working[x].price
                          /\ working'[x].size = working[x].size
    BY <1>1, <1>2, <1>3, <1>6
  <2>2. \A x \in live : working'[x] = working[x] BY <1>2, <1>3, <1>6
  <2> QED BY <1>1, <1>4, <1>5, <1>6, <1>8, <2>1, <2>2, IdleDeliveryKeepsInv
<1>7. CASE id \in live
  <2>1. /\ live' = live \ {id} /\ trades' = {t \in trades : t[1] # id}
        /\ UNCHANGED <<issued, position>>
        /\ \A s \in Slots : Same(orders[s], orders'[s])
    BY <1>5, <1>7 DEF Ended
  <2>2. \A x \in issued' : working'[x].alive => x \in live' BY <1>2, <1>3, <2>1
  <2>3. ASSUME NEW x \in live' PROVE Agree(x, orders[x.slot], working[x])'
    <3>1. x \in live /\ x # id /\ x \in issued BY <1>2, <2>1
    <3>2. Agree(x, orders[x.slot], working[x]) BY <3>1 DEF SimInv, SameBooks
    <3>3. Same(orders[x.slot], orders'[x.slot]) BY <2>1, <3>1, LiveIs DEF SimInv
    <3>4. \A t : <<x, t>> \in trades' <=> <<x, t>> \in trades BY <2>1, <3>1
    <3> QED BY <1>3, <3>1, <3>2, <3>3, <3>4 DEF Agree, SameBook, Same
  <2>4. SameBooks' BY <1>1, <1>8, <2>1, <2>2, <2>3 DEF SimInv, SameBooks
  <2>5. \A x \in live' : x \in live /\ working'[x] = working[x] BY <1>2, <1>3, <2>1
  <2>6. FillsToCome' BY <1>4, <2>5, EventsLeft, StillToCome DEF FillsToCome
  <2> QED BY <2>4, <2>6 DEF SimInv
<1> QED BY <1>6, <1>7

(* A fill of a dead order, or of a trade already booked. *)
LEMMA StaleFillKeepsInv ==
  ASSUME SimWired, SimInv, IndInv', SimTyped', NEW ev, NEW n, Delivered(ev, n), ev.type = "Fill",
         working[ev.id].price > 0,
         ev.id \in live => ev.trade \in working[ev.id].seen
  PROVE  SimInv'
<1>1. /\ ev \in EventType /\ ev.id \in issued /\ ev.qty \in Nat /\ ev.trade \in Nat
      /\ OnFill(ev.id, ev.qty, ev.price, ev.trade) /\ Sim!BookFill(ev)
  BY DEF Delivered, Handle, EventType, EndKinds
<1>2. /\ IndInv /\ working \in [issued -> WorkingType] /\ simPosition \in [Instruments -> Int]
      /\ \A x \in issued : working[x].alive => x \in live
      /\ live \subseteq issued /\ IsFiniteSet(issued) /\ Nat \subseteq Trades
  BY DEF SimInv, SimTyped, SameBooks, SimWired
<1>3. ~FillOk(ev.id, ev.qty, ev.price, ev.trade)
  <2>1. Open(ev.id) <=> ev.id \in live BY <1>1, <1>2, LiveIsOpen
  <2>2. CASE ev.id \notin live BY <2>1, <2>2 DEF FillOk
  <2>3. CASE ev.id \in live
    <3>1. <<ev.id, ev.trade>> \in trades BY <1>1, <1>2, <2>3 DEF SimInv, SameBooks, Agree, SameBook
    <3> QED BY <3>1 DEF FillOk
  <2> QED BY <2>2, <2>3
<1>4. Unmoved BY <1>1, <1>2, <1>3, FillMoves
<1>5. ~(~(ev.trade \in working[ev.id].seen) /\ working[ev.id].alive) BY <1>1, <1>2
<1>6. /\ \A x \in issued \ {ev.id} : working'[x] = working[x]
      /\ working'[ev.id].inst = working[ev.id].inst /\ working'[ev.id].side = working[ev.id].side
      /\ working'[ev.id].size = working[ev.id].size
      /\ working'[ev.id].price = working[ev.id].price
      /\ working'[ev.id].left = working[ev.id].left
      /\ working'[ev.id].seen = working[ev.id].seen \cup {ev.trade}
      /\ working'[ev.id].alive <=> working[ev.id].alive
      /\ simPosition' = simPosition /\ working' \in [issued -> WorkingType]
  BY <1>1, <1>2, <1>5, FillBooked
<1>7. \A x \in issued : /\ working'[x].alive <=> working[x].alive
                        /\ working'[x].price = working[x].price
                        /\ working'[x].size = working[x].size
  BY <1>6
<1>9. ASSUME NEW i \in Instruments PROVE DroppedFills(working', i) = DroppedFills(working, i)
  <2>1. Dropped(working'[ev.id]) = 0 /\ Dropped(working[ev.id]) = 0
    BY <1>1, <1>2, <1>6, DroppedType
  <2>2. /\ DroppedFills(working', i) = DroppedFills(working, i)
             + (IF working[ev.id].inst = i
                THEN Dropped(working'[ev.id]) - Dropped(working[ev.id]) ELSE 0)
        /\ DroppedFills(working, i) \in Int
    BY <1>1, <1>2, <1>6, DropsMove
  <2> QED BY <2>1, <2>2
<1>8. ASSUME NEW x \in live
      PROVE  /\ working'[x].inst = working[x].inst /\ working'[x].side = working[x].side
             /\ working'[x].left = working[x].left /\ working'[x].seen = working[x].seen
             /\ FillOf(ev, x) => ev.trade \in working[x].seen
  <2>1. CASE x # ev.id BY <1>2, <1>6, <2>1 DEF FillOf
  <2>2. CASE x = ev.id
    <3>1. ev.trade \in working[ev.id].seen BY <2>2
    <3>2. working'[ev.id].seen = working[ev.id].seen BY <1>6, <3>1
    <3> QED BY <1>6, <2>2, <3>1, <3>2
  <2> QED BY <2>1, <2>2
<1> QED BY <1>4, <1>6, <1>7, <1>8, <1>9, IdleDeliveryKeepsInv

(* A trade of an open order that neither side has booked: how much it can   *)
(* be, and what is to come after it.                                        *)
LEMMA FreshTrade ==
  ASSUME SimInv, NEW ev, NEW n, Delivered(ev, n), n = Sim!NextDue, Sim!DueIndexes # {},
         FillOf(ev, ev.id), ev.id \in live, ev.trade \notin working[ev.id].seen,
         working[ev.id].price > 0
  PROVE  LET w == working[ev.id]
             T == ToCome(queue', ev.id, w.seen \cup {ev.trade})
         IN  /\ ev.qty > 0 /\ ev.qty <= w.left
             /\ ev.final => ev.qty = w.left
             /\ LastIsLast(queue', ev.id, w.seen \cup {ev.trade})
             /\ Traded(T) = w.left - ev.qty
<1> DEFINE id == ev.id
           w == working[id]
           a == w.seen
           b == a \cup {ev.trade}
           S == ToCome(queue, id, a)
           T == ToCome(queue', id, b)
           t == TradeOf(ev)
<1>1. /\ queue \in Seq(EventType) /\ FillsAgree(queue) /\ w.left \in Int
      /\ ev.qty \in Nat /\ n \in DOMAIN queue /\ ev = queue[n]
  <2>1. ev \in EventType /\ w \in WorkingType BY DEF Delivered, SimInv, SimTyped
  <2> QED BY <2>1 DEF SimInv, SimTyped, FillsToCome, Delivered, EventType, WorkingType
<1>2. LastIsLast(queue, id, a) /\ CoversRest(queue, id, w) BY DEF SimInv, FillsToCome
<1>3. t \in S /\ ev.qty > 0 /\ (ev.final => S = {t})
  <2> HIDE DEF t, S, a, id
  <2>1. ev = queue[Sim!NextDue] BY <1>1
  <2>2. FillOf(ev, id) /\ ev.trade \notin a BY DEF id, a
  <2> QED BY <1>1, <1>2, <2>1, <2>2, FinalIsTheRest DEF t, S
<1>4. Traded(S) = w.left BY <1>2, <1>3 DEF CoversRest
<1>5. /\ LastIsLast(queue', id, b) /\ T = Unseen(S, b)
  <2>1. a \subseteq b /\ (FillOf(ev, id) => ev.trade \in b) OBVIOUS
  <2> HIDE DEF a, b, id
  <2> QED BY <1>2, <2>1, EventsLeft
<1>6. IsFiniteSet(S) /\ \A u \in S : TradedQty[u] = u.qty /\ u.qty \in Nat
  <2> HIDE DEF a, id
  <2> QED BY <1>1, ToComeFinite
<1>7. T = S \ {t}
  <2>1. ASSUME NEW u \in S PROVE u.trade \in b <=> u = t
    <3>1. PICK e \in Elements(queue) : FillOf(e, id) /\ e.trade \notin a /\ u = TradeOf(e)
      BY <2>1 DEF ToCome
    <3>2. PICK k \in DOMAIN queue : e = queue[k] BY DEF Elements
    <3>3. queue[k].trade = queue[n].trade => queue[k].qty = queue[n].qty
      BY <1>1, <3>1, <3>2 DEF FillsAgree, FillOf
    <3>4. u.trade = e.trade /\ t.trade = ev.trade BY <3>1 DEF TradeOf
    <3>5. e.trade = ev.trade => u = t BY <1>1, <3>1, <3>2, <3>3 DEF TradeOf
    <3> QED BY <3>1, <3>4, <3>5
  <2> HIDE DEF S, T, t, b
  <2> QED BY <1>5, <2>1 DEF Unseen
<1>8. t.qty = ev.qty BY DEF TradeOf
<1> HIDE DEF S, T, t, w, b
<1>9. /\ \A u \in S : TradedQty[u] \in Int /\ TradedQty[u] \in Nat
      /\ TradedQty[t] = ev.qty
  BY <1>3, <1>6, <1>8
<1>10. Traded(S) = TradedQty[t] + Traded(S \ {t}) BY <1>3, <1>6, <1>9, SumRemove DEF Traded
<1>11. Traded(S) \in Nat /\ TradedQty[t] <= Traded(S) BY <1>3, <1>6, <1>9, SumNat DEF Traded
<1>12. Traded(S \ {t}) \in Int
  <2>1. IsFiniteSet(S \ {t}) BY <1>6, FS_Subset
  <2> QED BY <1>9, <2>1, SumInt DEF Traded
<1>13. ev.qty <= w.left /\ Traded(T) = w.left - ev.qty
  BY <1>1, <1>4, <1>7, <1>9, <1>10, <1>11, <1>12
<1>14. ev.final => ev.qty = w.left
  <2>1. SUFFICES ASSUME ev.final PROVE ev.qty = w.left OBVIOUS
  <2>2. S \ {t} = {} BY <1>3, <2>1
  <2>3. Traded(S \ {t}) = 0 BY <2>2, SumEmpty DEF Traded
  <2> QED BY <1>1, <1>4, <1>9, <1>10, <2>3
<1> QED BY <1>3, <1>5, <1>13, <1>14 DEF T, w, b

(* A trade that both sides book. *)
LEMMA FreshFillKeepsInv ==
  ASSUME SimWired, SimInv, IndInv', SimTyped', NEW ev, NEW n, Delivered(ev, n),
         n = Sim!NextDue, Sim!DueIndexes # {}, ev.type = "Fill",
         ev.id \in live, ev.trade \notin working[ev.id].seen, working[ev.id].price > 0
  PROVE  SimInv'
<1> DEFINE id == ev.id
           w == working[id]
           o == orders[id.slot]
           r == orders'[id.slot]
           b == w.seen \cup {ev.trade}
           d == Signed(w.side, ev.qty)
<1>1. /\ ev \in EventType /\ id \in issued /\ ev.qty \in Nat /\ ev.trade \in Nat
      /\ OnFill(id, ev.qty, ev.price, ev.trade) /\ Sim!BookFill(ev) /\ ev.price > 0
  BY DEF Delivered, Handle, EventType, EndKinds
<1>2. /\ IndInv /\ working \in [issued -> WorkingType] /\ simPosition \in [Instruments -> Int]
      /\ \A x \in issued : working[x].alive => x \in live
      /\ live \subseteq issued /\ IsFiniteSet(issued) /\ Nat \subseteq Trades
      /\ \A x \in live : Agree(x, orders[x.slot], working[x])
      /\ \A i \in Instruments : simPosition[i] - position[i] = DroppedFills(working, i)
  BY DEF SimInv, SimTyped, SameBooks, SimWired
<1>3. /\ ev.qty > 0 /\ ev.qty <= w.left /\ (ev.final => ev.qty = w.left)
      /\ LastIsLast(queue', id, b) /\ Traded(ToCome(queue', id, b)) = w.left - ev.qty
  BY FreshTrade DEF FillOf
<1>4. /\ o.inst = w.inst /\ o.side = w.side /\ o.size - o.filled = w.left
      /\ \A t \in Trades : <<id, t>> \in trades <=> t \in w.seen
      /\ w.alive
  BY <1>2 DEF Agree, SameBook
<1>5. /\ o.size \in Nat /\ o.filled \in Nat /\ w.left \in Int /\ w.inst \in Instruments
      /\ o.inst \in Instruments /\ id.slot \in Slots
  <2>1. o \in OrderType /\ id.slot \in Slots BY <1>2, LiveIs
  <2>2. w \in WorkingType BY <1>1, <1>2
  <2> HIDE DEF o, w
  <2> QED BY <2>1, <2>2 DEF OrderType, WorkingType
<1>6. FillOk(id, ev.qty, ev.price, ev.trade)
  <2>1. Open(id) BY <1>1, <1>2, LiveIsOpen
  <2>2. <<id, ev.trade>> \notin trades BY <1>1, <1>2, <1>4
  <2>3. ev.qty <= Remaining(OrderOf(id)) BY <1>3, <1>4 DEF Remaining, OrderOf
  <2> QED BY <1>1, <1>3, <2>1, <2>2, <2>3 DEF FillOk
<1>7. Booked(id, ev.qty, ev.trade)
  <2> HIDE DEF id
  <2> QED BY <1>1, <1>2, <1>6, FillMoves
<1>8. /\ r.id = o.id /\ r.inst = o.inst /\ r.side = o.side /\ r.size = o.size
      /\ r.filled = o.filled + ev.qty
      /\ \A s \in Slots \ {id.slot} : orders'[s] = orders[s]
      /\ position' = [position EXCEPT ![o.inst] = @ + Signed(o.side, ev.qty)]
      /\ UNCHANGED issued
      /\ \/ /\ live' = live /\ trades' = trades \cup {<<id, ev.trade>>}
            /\ r.filled # r.size
         \/ /\ live' = live \ {id} /\ trades' = {t \in trades : t[1] # id}
            /\ r.filled = r.size
  BY <1>7 DEF Booked
<1>9. /\ \A x \in issued \ {id} : working'[x] = working[x]
      /\ working'[id].inst = w.inst /\ working'[id].side = w.side
      /\ working'[id].size = w.size /\ working'[id].price = w.price
      /\ working'[id].left = w.left - ev.qty /\ working'[id].seen = b
      /\ working' \in [issued -> WorkingType]
      /\ working'[id].alive <=> ~(ev.final \/ w.left - ev.qty <= 0)
      /\ simPosition' = [simPosition EXCEPT ![w.inst] = @ + d]
  <2>1. ~(ev.trade \in w.seen) /\ w.alive BY <1>4
  <2>2. d = IF w.side = "Buy" THEN ev.qty ELSE -ev.qty BY DEF Signed
  <2> HIDE DEF d
  <2> QED BY <1>1, <1>2, <2>1, <2>2, FillBooked
<1>10. ASSUME NEW i \in Instruments
       PROVE  simPosition'[i] - position'[i] = DroppedFills(working', i)
  <2>1. Dropped(working'[id]) = 0 /\ Dropped(w) = 0
    BY <1>1, <1>2, <1>9, DroppedType
  <2>2. /\ DroppedFills(working', i) = DroppedFills(working, i)
             + (IF w.inst = i THEN Dropped(working'[id]) - Dropped(w) ELSE 0)
        /\ DroppedFills(working, i) \in Int
    <3> HIDE DEF id
    <3> QED BY <1>1, <1>2, <1>9, DropsMove
  <2>3. position \in [Instruments -> Int] BY <1>2 DEF IndInv, TypeOK
  <2>4. d \in Int BY <1>1 DEF Signed
  <2>5. position' = [position EXCEPT ![w.inst] = @ + d] BY <1>4, <1>8
  <2>6. simPosition'[i] - position'[i] = simPosition[i] - position[i]
    <3> HIDE DEF d
    <3> QED BY <1>2, <1>9, <2>3, <2>4, <2>5
  <2> HIDE DEF d
  <2> QED BY <1>2, <2>1, <2>2, <2>6
<1>11. /\ id \in live' <=> working'[id].alive
       /\ r.size - r.filled = working'[id].left
  <2> HIDE DEF o, r, w, id
  <2>1. r.filled = r.size <=> w.left - ev.qty <= 0 BY <1>1, <1>3, <1>4, <1>5, <1>8
  <2>2. ev.final => w.left - ev.qty <= 0 BY <1>1, <1>3, <1>5
  <2>3. id \in live' <=> r.filled # r.size BY <1>8 DEF id
  <2> QED BY <1>1, <1>4, <1>5, <1>8, <1>9, <2>1, <2>2, <2>3
<1>12. \A x \in live : x # id => x \in live' BY <1>8
<1>13. \A x \in live' : x \in live BY <1>8
<1>14. \A x \in issued' : working'[x].alive => x \in live'
  BY <1>2, <1>8, <1>9, <1>11, <1>12
<1>15. ASSUME NEW x \in live', x # id PROVE Agree(x, orders[x.slot], working[x])'
  <2>1. x \in live /\ x \in issued BY <1>2, <1>13, <1>15
  <2>2. Agree(x, orders[x.slot], working[x]) BY <1>2, <2>1
  <2>3. x.slot \in Slots /\ orders[x.slot].id = x BY <1>2, <2>1, LiveIs
  <2>4. orders[id.slot].id = id BY <1>2, LiveIs
  <2>5. x.slot # id.slot BY <1>15, <2>3, <2>4
  <2>6. orders'[x.slot] = orders[x.slot] BY <1>8, <2>3, <2>5
  <2>7. \A t : <<x, t>> \in trades' <=> <<x, t>> \in trades BY <1>8, <1>15
  <2> QED BY <1>9, <1>15, <2>1, <2>2, <2>6, <2>7 DEF Agree, SameBook
<1>16. ASSUME id \in live' PROVE Agree(id, orders[id.slot], working[id])'
  <2>1. trades' = trades \cup {<<id, ev.trade>>} BY <1>8, <1>16
  <2>2. ASSUME NEW t \in Trades PROVE <<id, t>> \in trades' <=> t \in working'[id].seen
    BY <1>4, <1>9, <2>1
  <2> QED BY <1>4, <1>8, <1>9, <1>11, <1>16, <2>2 DEF Agree, SameBook
<1>17. SameBooks' BY <1>10, <1>14, <1>15, <1>16 DEF SameBooks
<1>18. FillsAgree(queue') BY EventsLeft
<1>19. ASSUME NEW x \in live', x # id, working'[x].price > 0
       PROVE  LastIsLast(queue', x, working'[x].seen) /\ CoversRest(queue', x, working'[x])
  <2>1. x \in live /\ working'[x] = working[x] BY <1>2, <1>9, <1>13, <1>19
  <2>2. ~FillOf(ev, x) BY <1>19 DEF FillOf
  <2> QED BY <1>19, <2>1, <2>2, StillToCome
<1>20. LastIsLast(queue', id, working'[id].seen) /\ CoversRest(queue', id, working'[id])
  BY <1>3, <1>9 DEF CoversRest
<1>21. FillsToCome' BY <1>18, <1>19, <1>20 DEF FillsToCome
<1> QED BY <1>17, <1>21 DEF SimInv

(* A fill of an order without a price: the simulator books it, the manager  *)
(* drops it.                                                                *)
LEMMA UnpricedFillKeepsInv ==
  ASSUME SimWired, SimInv, IndInv', SimTyped', NEW ev, NEW n, Delivered(ev, n), ev.type = "Fill",
         ~(working[ev.id].price > 0)
  PROVE  SimInv'
<1> DEFINE id == ev.id
           w == working[id]
           fresh == ~(ev.trade \in w.seen) /\ w.alive
           d == IF w.side = "Buy" THEN ev.qty ELSE -ev.qty
<1>1. /\ ev \in EventType /\ id \in issued /\ ev.qty \in Nat
      /\ OnFill(id, ev.qty, ev.price, ev.trade) /\ Sim!BookFill(ev) /\ ~(ev.price > 0)
  BY DEF Delivered, Handle, EventType, EndKinds
<1>2. /\ IndInv /\ working \in [issued -> WorkingType] /\ simPosition \in [Instruments -> Int]
      /\ \A x \in issued : working[x].alive => x \in live
      /\ live \subseteq issued /\ IsFiniteSet(issued)
      /\ \A x \in live : Agree(x, orders[x.slot], working[x])
      /\ \A i \in Instruments : simPosition[i] - position[i] = DroppedFills(working, i)
  BY DEF SimInv, SimTyped, SameBooks
<1>3. Unmoved
  <2>1. ~FillOk(id, ev.qty, ev.price, ev.trade) BY <1>1 DEF FillOk
  <2> HIDE DEF id
  <2> QED BY <1>1, <1>2, <2>1, FillMoves
<1>4. /\ UNCHANGED <<live, trades, issued, position>>
      /\ \A x \in live : Same(orders[x.slot], orders'[x.slot])
  BY <1>3 DEF Unmoved
<1>5. /\ working' \in [issued -> WorkingType]
      /\ \A x \in issued \ {id} : working'[x] = working[x]
      /\ working'[id].inst = w.inst /\ working'[id].side = w.side
      /\ working'[id].size = w.size /\ working'[id].price = w.price
      /\ working'[id].left = IF fresh THEN w.left - ev.qty ELSE w.left
      /\ working'[id].alive => w.alive
      /\ simPosition' = IF fresh THEN [simPosition EXCEPT ![w.inst] = @ + d] ELSE simPosition
  BY <1>1, <1>2, FillBooked
<1>6. w \in WorkingType /\ w.size \in Nat /\ w.left \in Int /\ d \in Int /\ w.inst \in Instruments
  BY <1>1, <1>2 DEF WorkingType
<1>7. Dropped(working'[id]) - Dropped(w) = IF fresh THEN d ELSE 0
  <2>1. /\ Dropped(w) = Signed(w.side, w.size - w.left)
        /\ Dropped(working'[id]) = Signed(w.side, w.size - working'[id].left)
    BY <1>5 DEF Dropped
  <2>2. CASE fresh
    <3>1. working'[id].left = w.left - ev.qty BY <1>5, <2>2
    <3> HIDE DEF w, fresh, id
    <3> QED BY <1>1, <1>6, <2>1, <2>2, <3>1 DEF Signed
  <2>3. CASE ~fresh
    <3>1. working'[id].left = w.left BY <1>5, <2>3
    <3> HIDE DEF w, fresh, id
    <3> QED BY <1>6, <2>1, <2>3, <3>1 DEF Signed
  <2> QED BY <2>2, <2>3
<1>8. ASSUME NEW i \in Instruments
      PROVE  simPosition'[i] - position'[i] = DroppedFills(working', i)
  <2>1. /\ DroppedFills(working', i) = DroppedFills(working, i)
             + (IF w.inst = i THEN Dropped(working'[id]) - Dropped(w) ELSE 0)
        /\ DroppedFills(working, i) \in Int
    <3> HIDE DEF id
    <3> QED BY <1>1, <1>2, <1>5, DropsMove
  <2>2. position \in [Instruments -> Int] BY <1>2 DEF IndInv, TypeOK
  <2>3. simPosition'[i] = simPosition[i] + (IF w.inst = i /\ fresh THEN d ELSE 0)
    <3> HIDE DEF w, fresh, d
    <3> QED BY <1>2, <1>5, <1>6
  <2> HIDE DEF w, fresh, d, id
  <2> QED BY <1>2, <1>4, <1>6, <1>7, <2>1, <2>2, <2>3
<1> HIDE DEF fresh, d
<1>9. \A x \in issued' : working'[x].alive => x \in live' BY <1>2, <1>4, <1>5
<1>10. ASSUME NEW x \in live PROVE Agree(x, orders[x.slot], working[x])'
  <2>1. Agree(x, orders[x.slot], working[x]) BY <1>2
  <2>2. CASE x # id BY <1>2, <1>4, <1>5, <2>1, <2>2 DEF Agree, SameBook, Same
  <2>3. CASE x = id
    <3>1. orders[x.slot].size = w.size /\ orders[x.slot].filled = 0
      BY <2>1, <2>3 DEF Agree
    <3> QED BY <1>4, <1>5, <2>3, <3>1 DEF Agree, Same
  <2> QED BY <2>2, <2>3
<1>11. SameBooks' BY <1>4, <1>8, <1>9, <1>10 DEF SameBooks
<1>12. FillsAgree(queue') BY EventsLeft
<1>13. ASSUME NEW x \in live', working'[x].price > 0
       PROVE  LastIsLast(queue', x, working'[x].seen) /\ CoversRest(queue', x, working'[x])
  <2>1. x \in live /\ x # id BY <1>4, <1>5, <1>13
  <2>2. working'[x] = working[x] /\ ~FillOf(ev, x) BY <1>2, <1>5, <2>1 DEF FillOf
  <2> QED BY <1>13, <2>1, <2>2, StillToCome
<1>14. FillsToCome' BY <1>12, <1>13 DEF FillsToCome
<1> QED BY <1>11, <1>14 DEF SimInv

LEMMA DeliveryKeepsSimInv ==
  ASSUME SimWired, SimInv, IndInv', SimTyped', DeliverDue
  PROVE  SimInv'
<1>1. PICK ev : Delivered(ev, Sim!NextDue) BY DeliveryIs DEF SimInv
<1>2. Sim!DueIndexes # {} BY DEF DeliverDue, Sim!Deliver
<1>3. PICK n : n = Sim!NextDue OBVIOUS
<1>4. Delivered(ev, n) BY <1>1, <1>3
<1>5. CASE ev.type \in EndKinds BY <1>4, <1>5, EndDeliveryKeepsInv
<1>6. CASE /\ ev.type = "Fill" /\ working[ev.id].price > 0
           /\ ev.id \in live => ev.trade \in working[ev.id].seen
  BY <1>4, <1>6, StaleFillKeepsInv
<1>7. CASE /\ ev.type = "Fill" /\ working[ev.id].price > 0
           /\ ~(ev.id \in live => ev.trade \in working[ev.id].seen)
  BY <1>2, <1>3, <1>4, <1>7, FreshFillKeepsInv
<1>9. CASE ev.type = "Fill" /\ ~(working[ev.id].price > 0)
  BY <1>4, <1>9, UnpricedFillKeepsInv
<1>8. CASE ev.type \in {"Confirm", "CancelReject"}
  <2>1. /\ UNCHANGED <<working, simPosition>> /\ ev.id \in issued
        /\ OnConfirm(ev.id) \/ OnCancelReject(ev.id)
    BY <1>4, <1>8 DEF Delivered, Handle, EndKinds
  <2>2. Unmoved BY <2>1, OthersMoveNothing DEF SimInv
  <2>3. \A x : ~FillOf(ev, x) BY <1>8 DEF FillOf
  <2> QED BY <1>4, <2>1, <2>2, <2>3, IdleDeliveryKeepsInv
<1> QED BY <1>4, <1>5, <1>6, <1>7, <1>8, <1>9 DEF Delivered

LEMMA NextKeepsSimInv ==
  ASSUME NoWrap, SimWired, LastChunkIsLast, InjectsNoFill, SimInv, [DriverNext]_driverVars
  PROVE  SimInv'
<1>1. IndInv /\ SimTyped BY DEF SimInv
<1>2. IndInv' BY <1>1, ManagerStepsWithDriver, NextKeepsInv
<1>3. SimTyped' BY <1>1, TypesKept
<1>4. CASE QuietSteps
  <2>1. Quietly BY <1>1, <1>4, QuietStepsAreQuiet
  <2> QED BY <1>2, <1>3, <2>1, QuietKeepsInv
<1>5. CASE SubmitConnected
  <2>1. PICK req \in Requests : \E id, s : PlacedAs(req, id, s) BY <1>1, <1>5, SubmitIsPlaced
  <2>2. PICK id, s : PlacedAs(req, id, s) BY <2>1
  <2> QED BY <1>2, <1>3, <2>2, PlacedKeepsInv
<1>6. CASE Sim!BeginPoll /\ UNCHANGED vars BY <1>2, <1>3, <1>6, PollKeepsInv
<1>7. CASE DeliverDue BY <1>2, <1>3, <1>7, DeliveryKeepsSimInv
<1> QED BY <1>4, <1>5, <1>6, <1>7, DriverStepIs

(* The manager and the simulator agree in every run in which the last chunk *)
(* of an order is the last one to arrive, up to the fills of orders without *)
(* a price, which the simulator books and the manager drops (validate()).   *)
THEOREM SimInvariance ==
  ASSUME NoWrap, SimWired, LastChunkIsLast, InjectsNoFill PROVE DriverSpec => []SimInv
<1>1. DriverInit => SimInv BY DriverInitHasInv
<1>2. SimInv /\ [DriverNext]_driverVars => SimInv' BY NextKeepsSimInv
<1> QED BY <1>1, <1>2, PTL DEF DriverSpec

(* The position that the manager books (on_fill) and the one the simulator  *)
(* books (poll()) differ by exactly what the simulator executed of orders   *)
(* without a price, whatever is repeated, reordered, cancelled, timed out   *)
(* or injected: with limit prices only they never drift apart.              *)
THEOREM PositionsNeverDrift ==
  ASSUME NoWrap, SimWired, LastChunkIsLast, InjectsNoFill PROVE DriverSpec => []NoDrift
<1>1. SimInv => NoDrift BY DEF SimInv, SameBooks, NoDrift
<1> QED BY <1>1, SimInvariance, PTL

(* An order that names a price is in the live index exactly while the       *)
(* simulator works it, with the same quantity left; one without stays       *)
(* there, untouched by its fills, until it is rejected or cancelled         *)
(* (retire(), validate(), poll()).                                          *)
THEOREM OpenOrdersAgree ==
  ASSUME NoWrap, SimWired, LastChunkIsLast, InjectsNoFill PROVE DriverSpec => []SameOpenOrders
<1>1. ASSUME SimInv PROVE SameOpenOrders
  <2>1. DOMAIN working = issued BY <1>1 DEF SimInv, SimTyped
  <2>2. \A id \in DOMAIN working : working[id].alive => id \in live
    BY <1>1, <2>1 DEF SimInv, SameBooks
  <2>3. ASSUME NEW id \in live
        PROVE  /\ id \in DOMAIN working
               /\ IF Priced(id)
                  THEN working[id].alive /\ Remaining(OrderOf(id)) = working[id].left
                  ELSE Remaining(OrderOf(id)) = working[id].size
    <3>1. id \in issued /\ working[id] \in WorkingType BY <1>1 DEF SimInv, SimTyped
    <3>2. working[id].size \in Nat BY <3>1 DEF WorkingType
    <3>3. Agree(id, orders[id.slot], working[id]) BY <1>1 DEF SimInv, SameBooks
    <3> QED BY <2>1, <3>1, <3>2, <3>3 DEF Agree, SameBook, Priced, Remaining, OrderOf
  <2> QED BY <2>2, <2>3 DEF SameOpenOrders
<1> QED BY <1>1, SimInvariance, PTL
=============================================================================
