------------------------------- MODULE MCDesk -------------------------------
(* An instance of Desk for TLC: two orders that meet each other, of every  *)
(* kind of ticket, in a ring of two slots that fills up at once.           *)
EXTENDS Desk

MCIds == 1 .. 2
MCPrices == 1 .. 4
MCQuantities == 1 .. 2

T(type, side, price, qty, trigger) ==
    [type |-> type, side |-> side, price |-> price, qty |-> qty, trigger |-> trigger]

MCTickets ==
    {T("Limit", "Ask", 2, 1, 0), T("IOC", "Bid", 2, 2, 0), T("FOK", "Bid", 2, 2, 0),
     T("Market", "Bid", 2, 2, 0), T("PostOnly", "Bid", 2, 1, 0),
     T("Stop", "Ask", 2, 1, 2), T("Stop", "Bid", 3, 1, 3)}

MCQuotes == {[side |-> "Bid", price |-> 2, qty |-> 1], [side |-> "Ask", price |-> 2, qty |-> 2]}

MCChanges == {<<1, 1>>}

(* Another symbol, or a replay, quoted about the given mid.                *)
Synthetic(mid) == 
    [bids |-> <<[price |-> mid - 1, qty |-> 2, count |-> 1]>>,
     asks |-> <<[price |-> mid + 1, qty |-> 2, count |-> 1]>>,
     best_bid |-> mid - 1, best_ask |-> mid + 1]

MCElsewhere == {Synthetic(2)}
MCReplays == {Synthetic(3)}
=============================================================================
