------------------------------ MODULE MCStateDir ------------------------------
(* Instances of StateDir: the processes are interchangeable.             *)
EXTENDS StateDir, TLC

Symmetry == Permutations(Procs)
=============================================================================
