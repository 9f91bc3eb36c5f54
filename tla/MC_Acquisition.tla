--------------------------- MODULE MC_Acquisition ---------------------------
(* Two runs that share an object, one of which needs another one first, so *)
(* that each may find what the other stored. Two commands at a time; three *)
(* when nothing fails of itself, because a pause that is resumed twice     *)
(* takes three. Two instants: before and after a rate limit is over, and   *)
(* an event older than the last one on the chain.                          *)
EXTENDS Acquisition, TLC

CONSTANTS c1, c2, c3, r1, r2, o1, o2

MCNeeds == (r1 :> <<o1, o2>>) @@ (r2 :> <<o2>>)
MCMaxBegun == [f \in Faults |-> IF f = "none" THEN 3 ELSE 2]
Symmetry == Permutations(Commands)
=============================================================================
