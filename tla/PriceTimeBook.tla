---------------------------- MODULE PriceTimeBook ----------------------------
(***************************************************************************)
(* The order book as its callers see it: a single writer calls one         *)
(* operation at a time. OrderBook.tla implements this specification; the   *)
(* matching engine is built on the same operations (BookOps).              *)
(***************************************************************************)
EXTENDS BookOps

VARIABLES book,   \* the book
          ok      \* what the last call returned

vars == <<book, ok>>

Init == /\ book = EmptyBook
        /\ ok = TRUE

Returns(r) == /\ ok' = r.ok
              /\ book' = r.book

Add(id, s, p, qty) == Returns(AddOrder(book, id, s, p, qty))

Modify(id, p, qty) == Returns(ModifyOrder(book, id, p, qty))

Cancel(id) == Returns(CancelOrder(book, id))

Execute(id, fill) == Returns(ExecuteOrder(book, id, fill))

Next == \E id \in Ids :
            \/ \E s \in Side, p \in Prices, qty \in Quantities : Add(id, s, p, qty)
            \/ \E p \in Prices, qty \in Quantities : Modify(id, p, qty)
            \/ Cancel(id)
            \/ \E fill \in Quantities : Execute(id, fill)

Spec == Init /\ [][Next]_vars

-----------------------------------------------------------------------------
TypeOK == book \in Book /\ ok \in BOOLEAN

(* The index of orders and the queues of the levels never disagree: every  *)
(* order find() returns is in the list of its own side and price, once,    *)
(* and no list holds any other (order_index_ and order->level are updated  *)
(* by separate statements of every operation).                             *)
QueuesMatchOrders == QueuesHold(book, Resting(book))

(* No call leaves more orders or more levels than the pools have cells:    *)
(* the way back of a failed modify_order never needs a level it cannot get.*)
WithinPools == FitsPools(book)

-----------------------------------------------------------------------------
(* Time priority ("Per-order FIFO queues at each price level"): no call    *)
(* lets one of two orders that stay at a level overtake the other.         *)
Fifo == [][NoOvertaking(book, book')]_vars

(* The same for the calls that succeed, whatever the size of the pools.    *)
FifoWhenAccepted == [][ok' => NoOvertaking(book, book')]_vars

(* A call that returns false leaves every order with its price and its     *)
(* quantity: the most a failed modify_order can cost is a place in a queue.*)
RejectedKeepsOrders == [][~ ok' => book'.orders = book.orders]_vars
=============================================================================
