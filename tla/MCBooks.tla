------------------------------- MODULE MCBooks -------------------------------
(* Both books for TLC. Three levels and three orders to play with next to  *)
(* a fourth one, the anchor, that is added first and rests in the middle   *)
(* of the chain of asks: a chain of three levels, full pools, a modify     *)
(* that finds no level left and a fifth order that finds no cell all       *)
(* happen. The ids of the three orders are interchangeable.                *)
EXTENDS Books

CONSTANTS o1, o2, o3, anchor, late

Free == {o1, o2, o3}
MCIds == Free \union {anchor, late}
MCPrices == 1 .. 3
MCQuantities == 1 .. 2

IdSymmetry == Permutations(Free)

(* Bounds: bids rest at one price, orders come with one quantity.          *)
InBounds(s, p) == s = "Ask" \/ p = 2
AddedQty == 2

Anchor == BothAdd(anchor, "Ask", 2, AddedQty)

OneTooMany == /\ Cardinality(Resting(book)) = MaxOrders
              /\ BothAdd(late, "Bid", 2, AddedQty)

OneCall(id) ==
    \/ \E s \in Side, p \in Prices : InBounds(s, p) /\ BothAdd(id, s, p, AddedQty)
    \/ \E p \in Prices, qty \in Quantities :
          /\ id \in Resting(book) => InBounds(book.orders[id].side, p)
          /\ BothModify(id, p, qty)
    \/ BothCancel(id)
    \/ \E fill \in Quantities : BothExecute(id, fill)

MCBooksNext == IF anchor \notin Resting(book) THEN Anchor
               ELSE OneTooMany \/ \E id \in Free : OneCall(id)

MCBooksSpec == BooksInit /\ [][MCBooksNext]_bookVars
=============================================================================
