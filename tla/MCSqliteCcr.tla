------------------------------ MODULE MCSqliteCcr ------------------------------
(* Instances of SqliteCcr: two threads that share the connection of one process *)
(* and a third in a process of its own.                                        *)
EXTENDS SqliteCcr, TLC

CONSTANTS t1, t2, t3, p1, p2

ThreeThreads == {t1, t2, t3}
TwoInOne == [t \in Threads |-> IF t = t3 THEN p2 ELSE p1]

Symmetry == Permutations(Payloads) \cup Permutations({t1, t2})
===============================================================================
