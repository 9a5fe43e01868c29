-------------------------- MODULE MCMarketSession --------------------------
(* An instance of MarketSession for TLC: a few messages about three        *)
(* orders, buckets of two units, and bars at three prices.                 *)
EXTENDS MarketSession

MCIds == 1 .. 7
MCPrices == {2, 3, 4}
MCQuantities == {1}
MCDivisors == 1 .. 6

L(type, order_id, size, price, direction) ==
    [fields |-> 6, type |-> type, order_id |-> order_id, size |-> size, price |-> price,
     direction |-> direction]

MCLines ==
    {L("Submission", 1, 2, 2, -2), L("Submission", 2, 3, 4, -1), L("Submission", 3, 1, 3, 1),
     L("PartialCancel", 1, 1, 2, -2), L("PartialCancel", 2, 1, 4, -1), L("Deletion", 2, 0, 4, -1),
     L("VisibleExecution", 2, 2, 4, 1), L("VisibleExecution", 1, 1, 2, 2),
     L("HiddenExecution", 3, 1, 3, -1),
     L("CrossTrade", 1, 1, 2, 1), L("Unknown", 1, 1, 2, 1),
     L("TradingHalt", 1, 1, 2, 1), [L("Deletion", 1, 1, 2, 1) EXCEPT !.fields = 5]}

MCTape == [lots : {5, 10, 30}, price : {2, 4}, buyer_is_maker : BOOLEAN]

MCBarSignals == {-60, 0, 120}
MCBarMids == {2, 3, InvalidPrice}

MCMaxEvents == [m \in Modes |->
                  CASE m = "lobster" -> 6 [] m = "tape" -> 4 [] m = "simulation" -> 10
                    [] m = "bars" -> 4]
=============================================================================
