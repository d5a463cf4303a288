------------------------------ MODULE OmsVenue ------------------------------
(****************************************************************************)
(* The order manager connected to a venue that executes on its own and      *)
(* whose reports travel: the races of decision 3 and of failure modes 1, 2, *)
(* 5 and 6 in README.md.                                                    *)
(****************************************************************************)
EXTENDS OrderManager

CONSTANTS VenueNo, Reorder, Duplicate, Lose, MayCancelUnasked, MaxReports

VARIABLES book, executed, cancels, reports, tradeNo,
          lost    \* history: some report was lost

venueVars == <<book, executed, cancels, reports, tradeNo>>
sysVars == <<vars, venueVars, lost>>

V == INSTANCE Venue

SysInit == Init /\ V!VenueInit /\ lost = FALSE

Place == \E req \in Requests :
  SubmitAccepted(VenueNo, req) /\ V!Accept(NewId(VenueNo), req)

PlaceRefused == \E req \in Requests :
  SubmitRejectedLocally(VenueNo, req) /\ UNCHANGED venueVars

PlaceExhausted == SubmitExhausted /\ UNCHANGED venueVars

AllDown == \E up \in SUBSET {VenueNo} :
  SubmitAllDown(up) /\ V!TakeCancels(Working(up))

DrainFlags ==
  (ResetRebalanceCycle \/ ClearReconcileRequest) /\ UNCHANGED venueVars

CancelOne == \E id \in issued : Cancel(id) /\ V!TakeCancels({id})

Timeouts == \E overdue \in SUBSET AwaitingAck, up \in SUBSET {VenueNo} :
  /\ CheckAckTimeouts(overdue, up)
  /\ V!TakeCancels({id \in overdue : id.venue \in up})

VenueStep ==
  /\ \/ \E id \in DOMAIN book : \E qty \in 1 .. book[id].left : V!Match(id, qty)
     \/ \E id \in cancels : V!DoCancel(id)
     \/ \E id \in DOMAIN book : V!CancelUnasked(id)
  /\ UNCHANGED vars

LoseReport ==
  /\ \E k \in DOMAIN reports : V!Drop(k)
  /\ lost' = TRUE /\ UNCHANGED vars

Deliver == \E k \in DOMAIN reports : V!Take(k) /\ Handle(reports[k])

SysNext ==
  \/ /\ \/ Place \/ PlaceRefused \/ PlaceExhausted \/ AllDown
        \/ CancelOne \/ Timeouts \/ DrainFlags
        \/ VenueStep \/ Deliver
     /\ UNCHANGED lost
  \/ LoseReport

SysSpec == SysInit /\ [][SysNext]_sysVars

-----------------------------------------------------------------------------
(* With no report in flight and none lost the manager's position is what    *)
(* the venue executed: a fill that races a cancel is applied (README.md,    *)
(* decision 3 and failure mode 2: "fill wins").                             *)
SettledBooksAgree == reports = <<>> /\ ~lost => position = executed

(* The manager never books more of an order than the venue executed of it,  *)
(* however its reports are repeated, lost or reordered (validate, modes 5   *)
(* and 6).                                                                  *)
NeverAheadOfVenue ==
  \A s \in Slots :
    LET o == orders[s]
    IN o.filled > 0 => o.filled <= o.size - book[o.id].left

(* Unless a report was lost, a reject is reported to the health model as    *)
(* real only if the venue did not fill that order: a cancel that lost its   *)
(* race with a fill is benign (Health.cpp: "MUST NOT pollute the            *)
(* rejection-rate signal").                                                 *)
LostRacesStayBenign ==
  [][~lost' => \A c \in calls' : c.to = "health" /\ c.op = "reject" /\ c.id \in DOMAIN book
       => book[c.id].left > 0]_sysVars
=============================================================================
