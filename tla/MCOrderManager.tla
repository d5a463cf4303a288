--------------------------- MODULE MCOrderManager ---------------------------
(* Instances of OrderManager for TLC. *)
EXTENDS OrderManager, TLC

CONSTANTS btc, eth

OneVenue == {0}
FillPrices == {0, 1}
ReportedQuantities == 1 .. 2
BuyTwoSellOne == {[inst |-> btc, side |-> "Buy", size |-> 2, price |-> 1],
                  [inst |-> btc, side |-> "Sell", size |-> 1, price |-> 1]}
=============================================================================
