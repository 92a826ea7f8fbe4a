------------------------------ MODULE MCScanner ------------------------------
(***************************************************************************)
(* Instances of Scanner for TLC: a persistent request with two matches in  *)
(* the first block and more in later ones, one that is not persistent and  *)
(* is made for later blocks, and one with a match in two blocks, alone.    *)
(***************************************************************************)
EXTENDS Scanner

CONSTANTS single, double, once

MCFirstBlock == [r \in Request |-> IF r = once THEN 2 ELSE IF r = double THEN 1 ELSE 0]

MCHits ==
  [r \in Request |-> [h \in 0..MaxHeight |->
     CASE r = single /\ h \in {1, 3} -> 1
       [] r = double /\ h = 1 -> 2
       [] r = double /\ h \in {2, 3} -> 1
       [] r = once /\ h \in {1, 3} -> 1
       [] OTHER -> 0]]

=============================================================================
