------------------------------- MODULE MCGuard -------------------------------
EXTENDS AdapterGuard, TLC
CONSTANTS d1, d2, d3, d4, c1, c2
(* Three messages that say the same, one that does not.                    *)
MCContentOf == [d \in Dispatches |-> IF d = d4 THEN c2 ELSE c1]
(* The three are alike in everything.                                      *)
Alike == Permutations({d1, d2, d3})
=============================================================================
