---------------------------- MODULE MCSignalGate ----------------------------
(* One strategy: the gate keeps nothing in common between two. *)
EXTENDS SignalGate

CONSTANT alpha
=============================================================================
