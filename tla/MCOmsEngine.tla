---------------------------- MODULE MCOmsEngine ----------------------------
(* Instances of OmsEngine for TLC: two bids, an ask above them, a modify   *)
(* that makes the ask meet one bid or both, in full or with a rest (and    *)
(* names the side Bid, as the desk always does), after which the bids that *)
(* come trade as adds, and a cancel of the ask, which may come too late.   *)
EXTENDS OmsEngine

MCIds == 1 .. 3
MCPrices == 1 .. 2
MCQuantities == 1 .. 3

MCInputs ==
    {[type |-> "Add", order_id |-> 1, side |-> "Bid", price |-> 1, qty |-> 2],
     [type |-> "Add", order_id |-> 2, side |-> "Bid", price |-> 1, qty |-> 1],
     [type |-> "Add", order_id |-> 3, side |-> "Ask", price |-> 2, qty |-> 3],
     [type |-> "Modify", order_id |-> 3, side |-> "Bid", price |-> 1, qty |-> 3],
     [type |-> "Cancel", order_id |-> 3]}
=============================================================================
