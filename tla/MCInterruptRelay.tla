--------------------------- MODULE MCInterruptRelay ---------------------------
(* Instances of the relay for TLC.  Which signal is which does not matter.     *)
EXTENDS RelayParts, TLC

Symmetry == Permutations(Arrivals) \cup Permutations(Captures)
===============================================================================
