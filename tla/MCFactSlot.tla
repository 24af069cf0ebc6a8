------------------------------ MODULE MCFactSlot ------------------------------
(* Small instances of FactSlot.                                            *)
EXTENDS FactSlot, TLC

CONSTANTS d1, d2, d3

\* d1 is the oldest document; d2 and d3 are equally new.
MCEventTime == [d \in Docs |-> IF d = d1 THEN 1 ELSE 2]

Symmetric ==
  Permutations(Writers) \cup Permutations(Removers) \cup Permutations(Extractors)
  \cup Permutations(Values)
=============================================================================
