--------------------------- MODULE MatchingEngine ---------------------------
(***************************************************************************)
(* MatchingEngine::submit_order, cancel_order and modify_order, the loop   *)
(* of submit_order taken one fill at a time. The engine has one caller, so *)
(* nothing else happens to the book between two fills; the steps are there *)
(* to say what holds between them. It implements Matching.                 *)
(***************************************************************************)
EXTENDS MatchOps

VARIABLES book,     \* the book
          call,     \* the call under way, or NoCall
          left,     \* remaining_qty
          trades,   \* the trades of the call so far
          ret,      \* what the last call returned
          before,   \* history: the book when the call began
          capped    \* history: some call broke off at MAX_TRADES

vars == <<book, call, left, trades, ret, before, capped>>

CallKinds == {"Submit", "Modify"}
NoCall == [kind |-> "None"]
Call == [kind : CallKinds, id : Ids, side : Side, price : Prices, qty : Int]

Idle == call = NoCall

Ret(ok, ts, rest) == [ok |-> ok, trades |-> ts, left |-> rest]

Init == /\ book = EmptyBook
        /\ call = NoCall
        /\ left = 0
        /\ trades = <<>>
        /\ ret = Ret(TRUE, <<>>, 0)
        /\ before = EmptyBook
        /\ capped = FALSE

(* The call returns at once, leaving book b.                               *)
ReturnNow(b, ok, rest) ==
    /\ book' = b
    /\ before' = b
    /\ ret' = Ret(ok, <<>>, rest)
    /\ UNCHANGED <<call, left, trades, capped>>

(* submit_order up to its loop, on book b.                                 *)
Begin(b, kind, id, s, p, qty) ==
    IF qty <= 0 THEN ReturnNow(b, FALSE, qty)
    ELSE /\ book' = b
         /\ call' = [kind |-> kind, id |-> id, side |-> s, price |-> p, qty |-> qty]
         /\ left' = qty
         /\ UNCHANGED <<trades, ret, before, capped>>

Submit(id, s, p, qty) == Idle /\ Begin(book, "Submit", id, s, p, qty)

Cancel(id) ==
    /\ Idle
    /\ LET r == CancelOrder(book, id) IN ReturnNow(r.book, r.ok, 0)

Modify(id, p, qty) ==
    /\ Idle
    /\ IF id \in Resting(book)
       THEN Begin(Dropped(book, id), "Modify", id, book.orders[id].side, p, qty)
       ELSE ReturnNow(book, FALSE, 0)

(* One turn of the loop.                                                   *)
Fill ==
    /\ ~ Idle
    /\ KeepsTrading(book, call.side, call.price, left, trades)
    /\ LET t == NextTrade(book, call.side, left)
       IN  /\ book' = ExecuteOrder(book, t.maker_id, t.qty).book
           /\ trades' = Append(trades, t)
           /\ left' = left - t.qty
    /\ UNCHANGED <<call, ret, before, capped>>

(* Mutant: what rests is the quantity asked for, not what is left of it. *)
RestInFull ==
    /\ ~ Idle
    /\ ~ KeepsTrading(book, call.side, call.price, left, trades)
    /\ LET r == IF left > 0
                THEN AddOrder(book, call.id, call.side, call.price, call.qty)
                ELSE Rejected(book)
       IN  /\ book' = r.book
           /\ before' = r.book
           /\ ret' = Ret(r.ok \/ (call.kind = "Modify" /\ trades # <<>>), trades, left)
    /\ capped' = (capped \/ (left > 0 /\ WouldCross(book, call.side, call.price)))
    /\ call' = NoCall
    /\ left' = 0
    /\ trades' = <<>>

(* After the loop: the remainder rests, or does not, and the call returns. *)
Rest ==
    /\ ~ Idle
    /\ ~ KeepsTrading(book, call.side, call.price, left, trades)
    /\ LET r == Remainder(book, call.id, call.side, call.price, left)
       IN  /\ book' = r.book
           /\ before' = r.book
           /\ ret' = Ret(r.ok \/ (call.kind = "Modify" /\ trades # <<>>), trades, left)
    /\ capped' = (capped \/ (left > 0 /\ WouldCross(book, call.side, call.price)))
    /\ call' = NoCall
    /\ left' = 0
    /\ trades' = <<>>

Next == \/ \E id \in Ids :
              \/ Cancel(id)
              \/ \E p \in Prices, qty \in Quantities :
                    \/ Modify(id, p, qty)
                    \/ \E s \in Side : Submit(id, s, p, qty)
        \/ Fill
        \/ Rest

Spec == Init /\ [][Next]_vars

-----------------------------------------------------------------------------
Returned == [ok : BOOLEAN, trades : Seq(Trade), left : Int]

TypeOK == /\ book \in Book /\ before \in Book
          /\ call \in Call \union {NoCall}
          /\ left \in Nat
          /\ trades \in Seq(Trade)
          /\ ret \in Returned
          /\ capped \in BOOLEAN

(* Between any two fills the book is one the next call can be made on: its *)
(* queues and its index agree, it fits its pools, and no order rests with  *)
(* nothing left to trade (such a maker would be traded with, for zero,     *)
(* until MAX_TRADES).                                                      *)
BookStaysSound ==
    /\ QueuesHold(book, Resting(book))
    /\ FitsPools(book)
    /\ PositiveOrders(book)

(* "Price-time priority": once an order has traded, every order that came  *)
(* before it when the call began has traded in full. An order passed over  *)
(* by the best-level pointer or by the queue of its level would show.      *)
PriceTimePriority ==
    \A i \in DOMAIN trades : \A x \in Resting(before) :
        Before(before, x, trades[i].maker_id) => x \notin Resting(book)

(* Every trade is within the taker's limit, at the price its maker rested  *)
(* at when the call began.                                                 *)
TradesAtMakersPrice ==
    \A i \in DOMAIN trades :
        LET id == trades[i].maker_id
        IN  /\ id \in Resting(before)
            /\ trades[i].qty > 0
            /\ trades[i].price = before.orders[id].price
            /\ before.orders[id].side = Opposite(call.side)
            /\ ~ Better(call.side, trades[i].price, call.price)

(* No quantity is made or lost: what the taker has not got yet is left,    *)
(* and what a maker gave is missing from the order it has in the book.     *)
QtyWith(makers, ts) ==
    LET sum[i \in 0 .. Len(ts)] ==
            IF i = 0 THEN 0
            ELSE sum[i - 1] + IF ts[i].maker_id \in makers THEN ts[i].qty ELSE 0
    IN  sum[Len(ts)]

RestingQty(b, id) == IF id \in Resting(b) THEN b.orders[id].qty ELSE 0

QuantityConserved ==
    ~ Idle => /\ left >= 0
              /\ left + QtyWith(Ids, trades) = call.qty
              /\ \A id \in Ids :
                    (call.kind = "Modify" => id # call.id) =>
                        RestingQty(before, id) = RestingQty(book, id) + QtyWith({id}, trades)

(* Between calls no bid meets an ask, unless a call broke off at           *)
(* MAX_TRADES and its remainder was added to the side it was trading with. *)
OnlyTheCapCrosses == Idle /\ ~ capped => ~ Crossed(book)

(* What the README's "Price-time priority crossing" asks of the book       *)
(* between calls.                                                          *)
NeverCrossed == Idle => ~ Crossed(book)

(* A remainder is dropped only when its id already rests or a pool has run *)
(* out: orders for a submit, levels for both. The cell a modify frees is   *)
(* enough for it to rest again, its level may not be.                      *)
RemainderDroppedOnlyWhenFull ==
    [][~ Idle /\ left > 0 /\ Idle' /\ call.id \notin Resting(book) =>
         \/ call.id \in Resting(book')
         \/ Cardinality(Levels(book)) = MaxPriceLevels
         \/ call.kind = "Submit" /\ Cardinality(Resting(book)) = MaxOrders]_vars

(* Taken as a whole, a call does to the book and returns what Matching     *)
(* says, so that the OMS can be modelled with one step per command.        *)
M == INSTANCE Matching WITH book <- before
ImplementsMatching == M!Spec
=============================================================================
