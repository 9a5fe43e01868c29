------------------------------ MODULE MatchOps ------------------------------
(***************************************************************************)
(* The calls of MatchingEngine (src/include/engine/matching_engine.hpp),   *)
(* each as one function of the book: what a call returns and the book it   *)
(* leaves. MatchingEngine.tla takes the loop of submit_order one fill at a *)
(* time and implements these.                                              *)
(*                                                                         *)
(* A call returns [book, ok, trades, left]: ok is resting_added of a       *)
(* submit and the bool of a cancel or a modify; left is remaining_qty.     *)
(***************************************************************************)
EXTENDS BookOps

CONSTANT MaxTrades   \* MatchResult::MAX_TRADES

ASSUME MaxTradesAssumption == MaxTrades \in Nat \ {0}

(* The taker, the aggressor and the time of a trade are those of its call. *)
Trade == [maker_id : Ids, price : Prices, qty : Int]

Least(x, y) == IF x < y THEN x ELSE y

(* Mutant: the trade takes all that the taker wants. *)
TradeAllOfTaker(b, s, left) ==
    LET id == FrontAtBest(b, Opposite(s))
    IN  [maker_id |-> id, price |-> b.orders[id].price, qty |-> left]

(* The trade the loop of submit_order makes next, when it makes one.       *)
NextTrade(b, s, left) ==
    LET id == FrontAtBest(b, Opposite(s))
    IN  [maker_id |-> id, price |-> b.orders[id].price,
         qty |-> Least(left, b.orders[id].qty)]

(* The condition of the loop, and the break at MAX_TRADES.                 *)
KeepsTrading(b, s, limit, left, trades) ==
    left > 0 /\ WouldCross(b, s, limit) /\ Len(trades) < MaxTrades

(* One turn of the loop, on what it has reached.                           *)
NextFill(s, limit, r) ==
    LET t == NextTrade(r.book, s, r.left)
    IN  IF KeepsTrading(r.book, s, limit, r.left, r.trades)
        THEN [book |-> ExecuteOrder(r.book, t.maker_id, t.qty).book,
              trades |-> Append(r.trades, t),
              left |-> r.left - t.qty]
        ELSE r

(* The whole loop: at most MaxTrades fills.                                *)
Fills(b, s, limit, qty) ==
    LET run[k \in 0 .. MaxTrades] ==
            IF k = 0 THEN [book |-> b, trades |-> <<>>, left |-> qty]
            ELSE NextFill(s, limit, run[k - 1])
    IN  run[MaxTrades]

(* A remainder goes to the book, as it is after a break at MAX_TRADES too. *)
Remainder(b, id, s, p, left) ==
    IF left > 0 THEN AddOrder(b, id, s, p, left) ELSE Rejected(b)

SubmitOrder(b, id, s, p, qty) ==
    IF qty <= 0 THEN [book |-> b, ok |-> FALSE, trades |-> <<>>, left |-> qty]
    ELSE LET f == Fills(b, s, p, qty)
             r == Remainder(f.book, id, s, p, f.left)
         IN  [book |-> r.book, ok |-> r.ok, trades |-> f.trades, left |-> f.left]

NoFills(r) == [book |-> r.book, ok |-> r.ok, trades |-> <<>>, left |-> 0]

EngineCancel(b, id) == NoFills(CancelOrder(b, id))

(* Mutant: a modify whose order traded in full is reported as failed. *)
EngineModifyRestingOnly(b, id, p, qty) ==
    IF id \notin Resting(b) THEN NoFills(Rejected(b))
    ELSE SubmitOrder(Dropped(b, id), id, b.orders[id].side, p, qty)

(* A modify cancels the order and submits it anew: it may trade, and it    *)
(* may fail to rest, when the order is lost.                               *)
EngineModify(b, id, p, qty) ==
    IF id \notin Resting(b) THEN NoFills(Rejected(b))
    ELSE LET r == SubmitOrder(Dropped(b, id), id, b.orders[id].side, p, qty)
         IN  [r EXCEPT !.ok = r.ok \/ r.trades # <<>>]

-----------------------------------------------------------------------------
(* Some bid meets some ask.                                                *)
Crossed(b) == \E p \in SidePrices(b, "Bid"), q \in SidePrices(b, "Ask") : p >= q

(* No order rests with nothing left to trade.                              *)
PositiveOrders(b) == \A id \in Resting(b) : b.orders[id].qty > 0

(* In book b, order x trades before order y of the same side.              *)
Before(b, x, y) ==
    LET s == b.orders[x].side
    IN  /\ s = b.orders[y].side
        /\ \/ Better(s, b.orders[x].price, b.orders[y].price)
           \/ Ahead(b, LevelOf(b.orders[y]), x, y)
=============================================================================
