-------------------------------- MODULE Books --------------------------------
(***************************************************************************)
(* The price-time book and the linked book side by side: every call is     *)
(* made on both. PriceTimeBook says what the answer and the book after a   *)
(* call must be, OrderBook how order_book.hpp comes to them.               *)
(***************************************************************************)
EXTENDS PriceTimeBook, OrderBook

bookVars == <<vars, linkedVars>>

BooksInit == Init /\ LinkedInit

BothAdd(id, s, p, qty) == Add(id, s, p, qty) /\ LinkedAdd(id, s, p, qty)

BothModify(id, p, qty) == Modify(id, p, qty) /\ LinkedModify(id, p, qty)

BothCancel(id) == Cancel(id) /\ LinkedCancel(id)

BothExecute(id, fill) == Execute(id, fill) /\ LinkedExecute(id, fill)

BooksNext == \E id \in Ids :
                \/ \E s \in Side, p \in Prices, qty \in Quantities : BothAdd(id, s, p, qty)
                \/ \E p \in Prices, qty \in Quantities : BothModify(id, p, qty)
                \/ BothCancel(id)
                \/ \E fill \in Quantities : BothExecute(id, fill)

BooksSpec == BooksInit /\ [][BooksNext]_bookVars

-----------------------------------------------------------------------------
(* The linked book answers every call as the price-time book does and      *)
(* holds the same orders in the same queues after it: the intrusive lists, *)
(* the chains of levels, the two pools and the way back of a failed        *)
(* modify_order lose no order and no place in a queue, and refuse no call  *)
(* there was room for (order_book.hpp:76, 124, 303).                       *)
LinkedBookIsTheBook == AbstractBook = book /\ answer = ok
=============================================================================
