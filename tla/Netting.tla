------------------------------- MODULE Netting -------------------------------
(****************************************************************************)
(* The netting engine (src/Netting.cpp) for one instrument, which the       *)
(* engine treats independently of the others, together with the net orders  *)
(* it asks for: strategies move their targets, a cycle collapses the deltas *)
(* into one net order or an internal transfer, and the orders fill in       *)
(* pieces that are attributed back.  Nothing in the engine knows that an    *)
(* order is still working: cycles run at any time, and an order that a      *)
(* former engine left at the venue may still fill.  Prices only value the   *)
(* saving that is reported and are left out.                                *)
(****************************************************************************)
EXTENDS Integers, FiniteSets, FiniteSetsExt

CONSTANTS Strategies,     \* strategy ids
          Targets,        \* target positions
          MaxSettings,    \* bound: targets set
          MaxOverlaps,    \* bound: net orders sent while another is working
          MaxCarried      \* bound: quantity a former engine left working, per side

ASSUME NettingAssumption ==
  /\ Strategies \subseteq Nat /\ IsFiniteSet(Strategies)
  /\ Targets \subseteq Int
  /\ MaxSettings \in Nat /\ MaxOverlaps \in Nat /\ MaxCarried \in Nat

VARIABLES target,      \* targets_: a function on the strategies that set one
          attributed,  \* attributed_
          global,      \* global_
          contrib,     \* contrib_: the deltas behind the last net order
          working,     \* unfilled quantity of the net orders of a side
          unattributed, \* history: what fills without contributions moved
          settings,    \* bound: targets set so far
          overlaps     \* bound: net orders sent so far while another was working

vars == <<target, attributed, global, contrib, working, unattributed, settings, overlaps>>

Sides == {"Buy", "Sell"}
Signed(side, n) == IF side = "Buy" THEN n ELSE -n
Abs(n) == IF n < 0 THEN -n ELSE n
Sign(n) == IF n < 0 THEN -1 ELSE 1
Total(f) == SumFunction(f)
Gross(f) == SumFunction([s \in DOMAIN f |-> Abs(f[s])])

-----------------------------------------------------------------------------
(* compute_cycle(): the non-zero deltas of the strategies with a target. *)
Deltas ==
  [s \in {r \in DOMAIN target : target[r] # attributed[r]} |-> target[s] - attributed[s]]

(* attribute_fill(): largest-remainder apportionment by absolute delta.     *)
Quota(qty, w, s) == (Abs(qty) * Abs(w[s])) \div Gross(w)
Rest(qty, w, s)  == (Abs(qty) * Abs(w[s])) % Gross(w)

Leftover(qty, w) ==
  Abs(qty) - SumFunction([s \in DOMAIN w |-> Quota(qty, w, s)])

(* Mutant: equal remainders are not told apart. *)
PrecedesByRest(qty, w, r, s) == Rest(qty, w, r) > Rest(qty, w, s)

(* The order in which left-over units are handed out. *)
Precedes(qty, w, r, s) ==
  \/ Rest(qty, w, r) > Rest(qty, w, s)
  \/ /\ Rest(qty, w, r) = Rest(qty, w, s)
     /\ \/ Abs(w[r]) > Abs(w[s])
        \/ Abs(w[r]) = Abs(w[s]) /\ r < s

Share(qty, w, s) ==
  Quota(qty, w, s) +
    IF Cardinality({r \in DOMAIN w : r # s /\ Precedes(qty, w, r, s)}) < Leftover(qty, w)
    THEN 1 ELSE 0

(* Mutant: the books of strategies without a share are lost. *)
AttributeFillContributors(qty) ==
  /\ global' = global + qty
  /\ attributed' = [s \in DOMAIN contrib |->
                      attributed[s] + Sign(qty) * Share(qty, contrib, s)]
  /\ UNCHANGED unattributed

(* Without contributions only the global position moves. *)
AttributeFill(qty) ==
  /\ global' = global + qty
  /\ attributed' = [s \in Strategies |->
       IF s \in DOMAIN contrib
       THEN attributed[s] + Sign(qty) * Share(qty, contrib, s)
       ELSE attributed[s]]
  /\ unattributed' = IF DOMAIN contrib = {} THEN unattributed + qty ELSE unattributed

-----------------------------------------------------------------------------
SetTarget(s, t) ==
  /\ settings < MaxSettings /\ settings' = settings + 1
  /\ target' = [r \in DOMAIN target \cup {s} |-> IF r = s THEN t ELSE target[r]]
  /\ UNCHANGED <<attributed, global, contrib, working, unattributed, overlaps>>

(* Mutant: what the strategy was attributed before is counted twice. *)
SeedTwice(s, q) ==
  /\ settings < MaxSettings /\ settings' = settings + 1
  /\ attributed' = [attributed EXCEPT ![s] = q]
  /\ global' = global + q
  /\ UNCHANGED <<target, contrib, working, unattributed, overlaps>>

(* set_attributed(): a position the strategy brings from before. *)
Seed(s, q) ==
  /\ settings < MaxSettings /\ settings' = settings + 1
  /\ attributed' = [attributed EXCEPT ![s] = q]
  /\ global' = global + q - attributed[s]
  /\ UNCHANGED <<target, contrib, working, unattributed, overlaps>>

(* Opposing deltas that cancel out are an internal transfer. *)
InternalTransfer ==
  /\ DOMAIN Deltas # {} /\ Total(Deltas) = 0
  /\ attributed' = [s \in Strategies |->
       IF s \in DOMAIN Deltas THEN attributed[s] + Deltas[s] ELSE attributed[s]]
  /\ UNCHANGED <<target, global, contrib, working, unattributed, settings, overlaps>>

(* A cycle may run while a net order is working; the bound limits how often. *)
Overlap ==
  IF \A side \in Sides : working[side] = 0 THEN UNCHANGED overlaps
  ELSE overlaps < MaxOverlaps /\ overlaps' = overlaps + 1

Send(net) ==
  working' = [working EXCEPT ![IF net > 0 THEN "Buy" ELSE "Sell"] = @ + Abs(net)]

(* Mutant: a net sell is not sent. *)
NetBuyOnly ==
  /\ Total(Deltas) > 0 /\ Overlap
  /\ contrib' = Deltas /\ Send(Total(Deltas))
  /\ UNCHANGED <<target, attributed, global, unattributed, settings>>

(* The caller sends the net order.  Its contributions replace those of the  *)
(* order before, done or not.                                               *)
NetOrder ==
  /\ Total(Deltas) # 0 /\ Overlap
  /\ contrib' = Deltas /\ Send(Total(Deltas))
  /\ UNCHANGED <<target, attributed, global, unattributed, settings>>

Fill(side, n) ==
  /\ n \in 1 .. working[side]
  /\ AttributeFill(Signed(side, n))
  /\ working' = [working EXCEPT ![side] = @ - n]
  /\ UNCHANGED <<target, contrib, settings, overlaps>>

(* Some of what is working is cancelled, which the engine is not told.      *)
Cancelled(side, n) ==
  /\ n \in 1 .. working[side]
  /\ working' = [working EXCEPT ![side] = @ - n]
  /\ UNCHANGED <<target, attributed, global, contrib, unattributed, settings, overlaps>>

SomeFill == \E side \in Sides : \E n \in 1 .. working[side] : Fill(side, n)
SomeCancelled == \E side \in Sides : \E n \in 1 .. working[side] : Cancelled(side, n)

Init ==
  /\ target = [s \in {} |-> 0]
  /\ attributed = [s \in Strategies |-> 0]
  /\ global = 0 /\ contrib = [s \in {} |-> 0] /\ unattributed = 0
  /\ working \in [Sides -> 0 .. MaxCarried]
  /\ settings = 0 /\ overlaps = 0

Next ==
  \/ \E s \in Strategies, q \in Targets : SetTarget(s, q) \/ Seed(s, q)
  \/ InternalTransfer \/ NetOrder \/ SomeFill \/ SomeCancelled

Spec == Init /\ [][Next]_vars

(* Cycles keep running and orders keep filling; none has to be cancelled.   *)
FairSpec ==
  /\ Spec /\ WF_vars(InternalTransfer) /\ WF_vars(NetOrder) /\ WF_vars(SomeFill)

-----------------------------------------------------------------------------
(* Type correctness of the books. *)
NettingTypeOK ==
  /\ DOMAIN target \subseteq Strategies /\ DOMAIN contrib \subseteq Strategies
  /\ attributed \in [Strategies -> Int] /\ global \in Int
  /\ working \in [Sides -> Nat]

(* "global == sum of sub-positions", through partial fills, rounding,       *)
(* transfers, seeding and overlapping cycles (check_invariant()), but for   *)
(* what was filled before the first net order had contributions             *)
(* (attribute_fill()).                                                      *)
GlobalIsSumOfParts == global = Total(attributed) + unattributed

(* The shares of a fill add up to it, each is a whole number next to the    *)
(* exact pro-rata share, and a fill no larger than the deltas behind the    *)
(* last net order gives no strategy more than its own (attribute_fill()).   *)
SharesAreProRata ==
  DOMAIN contrib # {} =>
    \A side \in Sides : \A n \in 1 .. working[side] :
      /\ SumFunction([s \in DOMAIN contrib |-> Share(n, contrib, s)]) = n
      /\ \A s \in DOMAIN contrib :
           /\ Abs(Share(n, contrib, s) * Gross(contrib) - n * Abs(contrib[s])) < Gross(contrib)
           /\ n <= Gross(contrib) => Share(n, contrib, s) <= Abs(contrib[s])

(* Once targets stop moving and cycles stop overlapping, and unless orders  *)
(* are cancelled over and over, every strategy ends at its target, whatever *)
(* overlapping orders overshot and however fills were split and rounded     *)
(* (compute_cycle(), attribute_fill()).                                     *)
TargetsAreReached ==
  <>[](\A s \in DOMAIN target : attributed[s] = target[s]) \/ []<><<SomeCancelled>>_vars
=============================================================================
