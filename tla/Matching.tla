------------------------------ MODULE Matching ------------------------------
(***************************************************************************)
(* The matching engine as its callers see it: one call, one step.          *)
(***************************************************************************)
EXTENDS MatchOps

VARIABLES book,   \* the book the engine trades on
          ret     \* what the last call returned

vars == <<book, ret>>

Returned(r) == [ok |-> r.ok, trades |-> r.trades, left |-> r.left]

Init == /\ book = EmptyBook
        /\ ret = Returned(NoFills(Done(EmptyBook)))

Returns(r) == /\ book' = r.book
              /\ ret' = Returned(r)

Submit(id, s, p, qty) == Returns(SubmitOrder(book, id, s, p, qty))

Cancel(id) == Returns(EngineCancel(book, id))

Modify(id, p, qty) == Returns(EngineModify(book, id, p, qty))

Next == \E id \in Ids :
            \/ Cancel(id)
            \/ \E p \in Prices, qty \in Quantities :
                  \/ Modify(id, p, qty)
                  \/ \E s \in Side : Submit(id, s, p, qty)

Spec == Init /\ [][Next]_vars
=============================================================================
