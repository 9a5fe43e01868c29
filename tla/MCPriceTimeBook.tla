--------------------------- MODULE MCPriceTimeBook ---------------------------
(* Instances of PriceTimeBook for TLC; ids are interchangeable.            *)
EXTENDS PriceTimeBook

CONSTANTS o1, o2, o3

MCIds == {o1, o2, o3}
MCPrices == 1 .. 3
MCQuantities == 1 .. 2

IdSymmetry == Permutations(MCIds)
=============================================================================
