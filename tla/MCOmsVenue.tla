----------------------------- MODULE MCOmsVenue -----------------------------
(* The order manager against a venue with a real transport, for TLC. *)
EXTENDS OmsVenue, TLC

CONSTANTS btc

OneVenue == {0}
ReportedQuantities == 1 .. 2
FillPrices == {1}
TradeIds == 1 .. 4
BuyTwo == {[inst |-> btc, side |-> "Buy", size |-> 2, price |-> 1]}
BuyThreeSellTwo == {[inst |-> btc, side |-> "Buy", size |-> 3, price |-> 1],
                    [inst |-> btc, side |-> "Sell", size |-> 2, price |-> 1]}
=============================================================================
