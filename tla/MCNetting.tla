------------------------------ MODULE MCNetting ------------------------------
(* Three strategies with targets on both sides, so that contributions may   *)
(* oppose each other and leave a remainder.                                 *)
EXTENDS Netting

ThreeStrategies == {1, 2, 3}
BothSides == {-1, 2}
=============================================================================
