------------------------------- MODULE BookOps -------------------------------
(***************************************************************************)
(* The limit order book as a value, and its operations as functions of     *)
(* that value: what OrderBook (src/include/book/order_book.hpp) promises   *)
(* its callers, without the pools, the indexes and the intrusive lists it  *)
(* is built from. OrderBook.tla models those and implements this.          *)
(*                                                                         *)
(* A book b has two parts:                                                 *)
(*   b.orders[id]   the order with that id, or NoOrder;                    *)
(*   b.queue[k]     the ids resting at level k = <<side, price>>, oldest   *)
(*                  first; the level exists exactly when it is not empty.  *)
(* An operation returns [ok, book]: the code's return value and the book   *)
(* it leaves. Statistics counters and timestamps are not modelled.         *)
(***************************************************************************)
EXTENDS Integers, FiniteSets, SequencesExt

CONSTANTS Ids,             \* order ids
          Prices,          \* limit prices in use, in ticks
          Quantities,      \* order quantities the callers pass
          MaxOrders,       \* capacity of the pool of orders
          MaxPriceLevels,  \* capacity of the pool of price levels
          NoOrder,         \* "no such order": the null Order pointer
          InvalidPrice     \* INVALID_PRICE, the price of an empty side

Side == {"Bid", "Ask"}

(* level_key keeps 56 bits of the price, so it identifies the level only   *)
(* while the prices in use are within 2^55 of zero: an assumption about    *)
(* the callers, under which the key is the pair itself.                    *)
LevelKeys == Side \X Prices

Order == [side : Side, price : Prices, qty : Int]

(* Quantity is int64_t: a fill may reduce it, so it is typed by Int.       *)
Book == [orders : [Ids -> Order \union {NoOrder}],
         queue  : [LevelKeys -> Seq(Ids)]]

ASSUME BookAssumption ==
    /\ Prices \subseteq Int
    /\ Quantities \subseteq Int
    /\ MaxOrders \in Nat \ {0}
    /\ MaxPriceLevels \in Nat \ {0}
    /\ NoOrder \notin Order
    /\ InvalidPrice \notin Prices

EmptyBook == [orders |-> [id \in Ids |-> NoOrder],
              queue  |-> [k \in LevelKeys |-> <<>>]]

-----------------------------------------------------------------------------
(* What the book holds.                                                    *)

Resting(b) == {id \in Ids : b.orders[id] # NoOrder}

Levels(b) == {k \in LevelKeys : b.queue[k] # <<>>}

LevelOf(o) == <<o.side, o.price>>

SidePrices(b, s) == {p \in Prices : b.queue[<<s, p>>] # <<>>}

(* A level is better when it trades first: the higher bid, the lower ask.  *)
Better(s, p, q) == IF s = "Bid" THEN p > q ELSE p < q

BestPrice(b, s) ==
    IF SidePrices(b, s) = {} THEN InvalidPrice
    ELSE CHOOSE p \in SidePrices(b, s) :
            \A q \in SidePrices(b, s) : ~ Better(s, q, p)

(* Mutant: the newest order of the best level instead of the oldest. *)
BackAtBest(b, s) == Last(b.queue[<<s, BestPrice(b, s)>>])

FrontAtBest(b, s) == Head(b.queue[<<s, BestPrice(b, s)>>])

Opposite(s) == IF s = "Bid" THEN "Ask" ELSE "Bid"

(* Mutants: a price equal to the limit does not trade; the limit is not    *)
(* looked at.                                                              *)
WouldCrossStrictly(b, s, limit) ==
    /\ SidePrices(b, Opposite(s)) # {}
    /\ Better(Opposite(s), BestPrice(b, Opposite(s)), limit)

WouldCrossAtAnyPrice(b, s, limit) == SidePrices(b, Opposite(s)) # {}

(* Would an order of side s with this limit trade against the book?        *)
WouldCross(b, s, limit) ==
    /\ SidePrices(b, Opposite(s)) # {}
    /\ ~ Better(s, BestPrice(b, Opposite(s)), limit)

-----------------------------------------------------------------------------
(* The operations.                                                         *)

Place(q, id) == CHOOSE i \in 1 .. Len(q) : q[i] = id

WithoutId(q, id) == RemoveAt(q, Place(q, id))

Done(b) == [ok |-> TRUE, book |-> b]
Rejected(b) == [ok |-> FALSE, book |-> b]

(* An order taken off its level; the level goes with its last order.       *)
OffLevel(b, id) ==
    [b EXCEPT !.queue[LevelOf(b.orders[id])] = WithoutId(@, id)]

(* Mutant: the pool of levels runs out one too early. *)
RoomButForTheLast(b, k) ==
    b.queue[k] # <<>> \/ Cardinality(Levels(b)) < MaxPriceLevels - 1

(* A level is there already or the pool has one left.                      *)
RoomAtLevel(b, k) ==
    b.queue[k] # <<>> \/ Cardinality(Levels(b)) < MaxPriceLevels

AppendOrder(b, id, o) ==
    [b EXCEPT !.orders[id] = o, !.queue[LevelOf(o)] = Append(@, id)]

Dropped(b, id) == [OffLevel(b, id) EXCEPT !.orders[id] = NoOrder]

Resized(b, id, qty) == [b EXCEPT !.orders[id].qty = qty]

AddOrder(b, id, s, p, qty) ==
    IF /\ id \notin Resting(b)
       /\ Cardinality(Resting(b)) < MaxOrders
       /\ RoomAtLevel(b, <<s, p>>)
    THEN Done(AppendOrder(b, id, [side |-> s, price |-> p, qty |-> qty]))
    ELSE Rejected(b)

(* Mutants of ModifyOrder: the order stays linked at its old level; a new  *)
(* quantity costs the order its place; a move that fails loses the order.  *)
ModifyLeavingOld(b, id, p, qty) ==
    IF id \notin Resting(b) THEN Rejected(b)
    ELSE IF p = b.orders[id].price THEN Done(Resized(b, id, qty))
    ELSE IF RoomAtLevel(b, <<b.orders[id].side, p>>)
    THEN Done(AppendOrder(b, id, [b.orders[id] EXCEPT !.price = p, !.qty = qty]))
    ELSE Rejected(b)

ModifyRequeuing(b, id, p, qty) ==
    IF id \notin Resting(b) \/ ~ RoomAtLevel(OffLevel(b, id), <<b.orders[id].side, p>>)
    THEN Rejected(b)
    ELSE Done(AppendOrder(OffLevel(b, id), id,
                          [b.orders[id] EXCEPT !.price = p, !.qty = qty]))

ModifyLosing(b, id, p, qty) ==
    IF id \notin Resting(b) THEN Rejected(b)
    ELSE IF RoomAtLevel(OffLevel(b, id), <<b.orders[id].side, p>>)
    THEN Done(AppendOrder(OffLevel(b, id), id,
                          [b.orders[id] EXCEPT !.price = p, !.qty = qty]))
    ELSE Rejected(Dropped(b, id))

(* A change of price moves the order to the back of its new level. When    *)
(* that level does not exist and the pool has none left, the order goes    *)
(* back to the level it came from: to the back of it.                      *)
ModifyOrder(b, id, p, qty) ==
    IF id \notin Resting(b) THEN Rejected(b)
    ELSE LET o   == b.orders[id]
             off == OffLevel(b, id)
         IN  IF p = o.price THEN Done(Resized(b, id, qty))
             ELSE IF RoomAtLevel(off, <<o.side, p>>)
                  THEN Done(AppendOrder(off, id,
                                [side |-> o.side, price |-> p, qty |-> qty]))
                  ELSE Rejected(AppendOrder(off, id, o))

CancelOrder(b, id) ==
    IF id \in Resting(b) THEN Done(Dropped(b, id)) ELSE Rejected(b)

(* Mutant: an order filled completely stays, with nothing left. *)
ExecuteKeepingFilled(b, id, fill) ==
    IF \/ id \notin Resting(b)
       \/ fill <= 0
       \/ fill > b.orders[id].qty
    THEN Rejected(b)
    ELSE Done(Resized(b, id, b.orders[id].qty - fill))

ExecuteOrder(b, id, fill) ==
    IF \/ id \notin Resting(b)
       \/ fill <= 0
       \/ fill > b.orders[id].qty
    THEN Rejected(b)
    ELSE IF fill = b.orders[id].qty
         THEN Done(Dropped(b, id))
         ELSE Done(Resized(b, id, b.orders[id].qty - fill))

-----------------------------------------------------------------------------
(* What makes a book sound. The queues hold exactly the orders of Q, each  *)
(* once, in the queue of its own side and price: the index of orders, the  *)
(* fields of an order and the lists of the levels agree.                   *)
QueuesHold(b, Q) ==
    /\ Q \subseteq Resting(b)
    /\ \A k \in LevelKeys : \A i \in 1 .. Len(b.queue[k]) :
          /\ b.queue[k][i] \in Q
          /\ LevelOf(b.orders[b.queue[k][i]]) = k
          /\ \A j \in 1 .. Len(b.queue[k]) : b.queue[k][j] = b.queue[k][i] => j = i
    /\ \A id \in Q : \E i \in 1 .. Len(b.queue[LevelOf(b.orders[id])]) :
          b.queue[LevelOf(b.orders[id])][i] = id

FitsPools(b) ==
    /\ IsFiniteSet(Resting(b)) /\ Cardinality(Resting(b)) <= MaxOrders
    /\ IsFiniteSet(Levels(b)) /\ Cardinality(Levels(b)) <= MaxPriceLevels

SoundBook(b) == b \in Book /\ QueuesHold(b, Resting(b)) /\ FitsPools(b)

(* At level k, order x trades before order y.                              *)
Ahead(b, k, x, y) ==
    \E i, j \in 1 .. Len(b.queue[k]) :
        i < j /\ b.queue[k][i] = x /\ b.queue[k][j] = y

(* From book b to book c, no order overtook another one of its level.      *)
NoOvertaking(b, c) ==
    \A k \in LevelKeys : \A x, y \in Ids : Ahead(b, k, x, y) => ~ Ahead(c, k, y, x)

-----------------------------------------------------------------------------
(* build_l2_snapshot: the first depth levels of each side, best first.     *)

Total(qtys) ==
    LET upTo[n \in 0 .. Len(qtys)] == IF n = 0 THEN 0 ELSE upTo[n - 1] + qtys[n]
    IN  upTo[Len(qtys)]

LevelQty(b, k) == Total([i \in 1 .. Len(b.queue[k]) |-> b.orders[b.queue[k][i]].qty])

(* The price of row i: the one that i - 1 others are better than.          *)
RowPrice(b, s, i) ==
    CHOOSE p \in SidePrices(b, s) :
        Cardinality({q \in SidePrices(b, s) : Better(s, q, p)}) = i - 1

L2Side(b, s, depth) ==
    LET rows == Cardinality(SidePrices(b, s))
        row(p) == [price |-> p, qty |-> LevelQty(b, <<s, p>>),
                   count |-> Len(b.queue[<<s, p>>])]
    IN  [i \in 1 .. IF depth < rows THEN depth ELSE rows |-> row(RowPrice(b, s, i))]

L2Snapshot(b, depth) ==
    [bids |-> L2Side(b, "Bid", depth), asks |-> L2Side(b, "Ask", depth),
     best_bid |-> BestPrice(b, "Bid"), best_ask |-> BestPrice(b, "Ask")]

MidPrice(snap) ==
    IF InvalidPrice \in {snap.best_bid, snap.best_ask} THEN InvalidPrice
    ELSE (snap.best_bid + snap.best_ask) \div 2
=============================================================================
