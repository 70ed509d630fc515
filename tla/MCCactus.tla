------------------------------ MODULE MCCactus ------------------------------
(* Instances of Cactus for TLC: the banks and their row permutations.      *)
EXTENDS Cactus

CONSTANTS b1, b2

\* cactus_policy 0: the same row number in every bank.
DirectPerm == [r \in Ranks |-> [b \in Banks |-> [i \in Rows |-> i]]]

\* cactus_policy 1: the rows of the second bank are shifted by one.
ShiftedPerm ==
  [r \in Ranks |-> [b \in Banks |-> [i \in Rows |->
     IF b = b2 THEN (i + 1) % NumRows ELSE i]]]
=============================================================================
