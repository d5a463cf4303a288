-------------------------- MODULE MCReconciliation --------------------------
(* Instances of Reconciliation for TLC. *)
EXTENDS Reconciliation

CONSTANTS a, b

BuyOrSell == {-1, 1}
BuyOnly == {1}
SmallSnapshots == [Instruments -> 0 .. 2]
=============================================================================
