--------------------------- MODULE MCPriorityQueue ---------------------------
(* Instances of PriorityQueue for TLC. *)
EXTENDS PriorityQueue, TLC

CONSTANTS a, b, c, d, e, f

Symmetry == Permutations(Ids)
=============================================================================
