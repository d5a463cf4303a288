-------------------------------- MODULE Venue --------------------------------
(****************************************************************************)
(* A venue behind a transport (external: what ExchangeClient and            *)
(* ExchangeEventSink promise of any client, not code of this repository).   *)
(* It executes when it matches, not when its report is delivered, and       *)
(* cancels travel to it, so a fill and a cancel really race.  Reports about *)
(* one order are delivered in order unless Reorder, may be delivered again  *)
(* later if Duplicate, and lost if Lose.                                    *)
(****************************************************************************)
EXTENDS Integers, Sequences, SequencesExt

CONSTANTS Instruments, Reorder, Duplicate, Lose,
          MayCancelUnasked,  \* the venue may cancel on its own
          MaxReports    \* bound: reports in flight

VARIABLES book,      \* [id |-> instrument, side, quantity left, alive]
          executed,  \* net executed quantity per instrument
          cancels,   \* ids whose cancel request is on its way
          reports,   \* reports on their way back, oldest first
          tradeNo

venueVars == <<book, executed, cancels, reports, tradeNo>>

(* A venue executes at a positive price; which one tells nothing apart. *)
Report(type, id) ==
  [type |-> type, id |-> id, qty |-> 0, price |-> 1, trade |-> 0, again |-> FALSE]

Send(r) == /\ Len(reports) < MaxReports
           /\ reports' = Append(reports, r)

VenueInit ==
  /\ book = [id \in {} |-> 0] /\ cancels = {} /\ reports = <<>> /\ tradeNo = 0
  /\ executed = [i \in Instruments |-> 0]

(* place_order: the order goes on the book, or is rejected later. *)
Accept(id, req) ==
  \E alive \in BOOLEAN :
    /\ book' = [x \in DOMAIN book \cup {id} |->
                  IF x = id THEN [inst |-> req.inst, side |-> req.side,
                                  size |-> req.size, left |-> req.size,
                                  alive |-> alive]
                  ELSE book[x]]
    /\ Send(Report(IF alive THEN "Confirm" ELSE "Reject", id))
    /\ UNCHANGED <<executed, cancels, tradeNo>>

TakeCancels(ids) ==
  cancels' = cancels \cup ids /\ UNCHANGED <<book, executed, reports, tradeNo>>

Match(id, qty) ==
  /\ book[id].alive /\ qty <= book[id].left
  /\ book' = [book EXCEPT ![id].left = @ - qty, ![id].alive = qty < book[id].left]
  /\ executed' = [executed EXCEPT ![book[id].inst] =
                    IF book[id].side = "Buy" THEN @ + qty ELSE @ - qty]
  /\ tradeNo' = tradeNo + 1
  /\ Send([Report("Fill", id) EXCEPT !.qty = qty, !.trade = tradeNo + 1])
  /\ UNCHANGED cancels

(* A cancel takes what is left; it is refused once nothing is. *)
DoCancel(id) ==
  /\ id \in cancels /\ cancels' = cancels \ {id}
  /\ book' = [book EXCEPT ![id].alive = FALSE]
  /\ Send(Report(IF book[id].alive THEN "CancelAck" ELSE "CancelReject", id))
  /\ UNCHANGED <<executed, tradeNo>>

CancelUnasked(id) ==
  /\ MayCancelUnasked /\ book[id].alive
  /\ book' = [book EXCEPT ![id].alive = FALSE]
  /\ Send(Report("Unsolicited", id))
  /\ UNCHANGED <<executed, cancels, tradeNo>>

(* The report at position k is next: the oldest about its order, or any. *)
Deliverable(k) ==
  Reorder \/ \A j \in 1 .. k - 1 : reports[j].id # reports[k].id

Take(k) ==
  /\ Deliverable(k)
  /\ \/ reports' = RemoveAt(reports, k)
     \/ /\ Duplicate /\ ~reports[k].again
        /\ reports' = Append(RemoveAt(reports, k),
                             [reports[k] EXCEPT !.again = TRUE])
  /\ UNCHANGED <<book, executed, cancels, tradeNo>>

Drop(k) ==
  /\ Lose /\ reports' = RemoveAt(reports, k)
  /\ UNCHANGED <<book, executed, cancels, tradeNo>>
=============================================================================
