-------------------------- MODULE MCMatchingEngine --------------------------
(* Instances of MatchingEngine for TLC; ids are interchangeable.           *)
EXTENDS MatchingEngine

CONSTANTS o1, o2, o3, o4

MCIds == {o1, o2, o3, o4}
MCPrices == 1 .. 2
MCQuantities == {0, 1, 3}

IdSymmetry == Permutations(MCIds)
=============================================================================
