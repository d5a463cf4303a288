------------------------------ MODULE MCOmsSim ------------------------------
(* The order manager against the simulator, for TLC. *)
EXTENDS OmsSim, TLC

CONSTANTS btc

OneVenue == {0}
ReportedQuantities == 1 .. 2
TradeIds == 1 .. 6
FillPrices == {0, 1}
(* A limit order, and a market order that leaves its price at 0. *)
BuyTwoSellAtMarket ==
  {[inst |-> btc, side |-> "Buy", size |-> 2, price |-> 1],
   [inst |-> btc, side |-> "Sell", size |-> 2, price |-> 0]}
=============================================================================
