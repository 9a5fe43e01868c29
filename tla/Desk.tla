-------------------------------- MODULE Desk --------------------------------
(***************************************************************************)
(* The trading desk (src/src/workstation.cpp): the UI thread, which turns  *)
(* tickets, clicks and ticks of the clock into commands, and the consumer  *)
(* thread, which applies them to the book and publishes it.                *)
(*                                                                         *)
(* A handler of the UI runs to its end before the next one starts, but     *)
(* the consumer runs beside it, so a push is a step of its own: a handler  *)
(* leaves its pushes in outbox and Push makes them one at a time. The ring *)
(* is a bounded FIFO (SPSCQueue.tla), a command is applied in one step     *)
(* (OmsEngine.tla takes it apart), a snapshot is loaded whole              *)
(* (L2BookView.tla says when it is not). The engine keeps one book for all *)
(* symbols; only the first symbol shows it.                                *)
(***************************************************************************)
EXTENDS WalReplay

CONSTANTS Tickets,         \* what the user may enter in the order entry
          Quotes,          \* the orders of the built-in simulation
          Changes,         \* <<price, qty>> entered in the Modify popup
          Elsewhere,       \* the snapshots of the other symbols
          Replays,         \* the last books of replays
          Slack,           \* how far through the best price a market order goes
          BlindSlack,      \* and through the ticket's price, when there is none
          Depth,           \* levels of a snapshot
          QueueCapacity,   \* slots of the ring
          ModifyAgain,     \* bound: FALSE when an order is modified once
          Nothing          \* not listed, not armed

TicketTypes == {"Limit", "Market", "IOC", "FOK", "PostOnly", "Stop"}

(* Limit stands for ReduceOnly, Iceberg, Hidden, Bracket, OCO and Pegged   *)
(* too, Stop for StopLimit and TrailingStop: submit_ticket does the same.  *)
Ticket == [type : TicketTypes, side : Side, price : Int, qty : Quantities, trigger : Int]

DeskOrder == [type : TicketTypes, side : Side, price : Prices, qty : Quantities,
              state : {"Pending", "Conditional", "Cancel pending", "Modify pending"}]

ConditionalOrder == [side : Side, price : Prices, qty : Quantities, trigger : Int]

ASSUME DeskAssumption ==
    /\ IsFiniteSet(Ids) /\ Ids = 1 .. Cardinality(Ids)
    /\ Nothing \notin DeskOrder \union ConditionalOrder
    /\ Tickets \subseteq Ticket
    /\ Quotes \subseteq [side : Side, price : Prices, qty : Quantities]
    /\ Changes \subseteq Prices \X Quantities
    /\ Slack \in Nat /\ BlindSlack \in Nat /\ Depth \in Nat \ {0}
    /\ QueueCapacity \in Nat \ {0} /\ ModifyAgain \in BOOLEAN

VARIABLES next_order_id,
          desk_orders,         \* the list of active orders
          conditional_orders,  \* the orders waiting for their trigger
          outbox, handler,     \* pushes the running handler has left to make
          ring,
          active,              \* the symbol on the screen: the live one or another
          cpc, book, view,     \* the consumer, its book, and what is published
          added,               \* history: adds sent, per order
          refused, withdrawn,  \* history: cancels lost, orders out for good
          simulated,           \* history: the orders of the simulation
          lost                 \* history: stops that fired into a full ring

orders == <<next_order_id, desk_orders, conditional_orders>>
screen == <<active, view>>
engine == <<cpc, book, screen>>
sent == <<added, refused, lost>>
vars == <<orders, outbox, handler, ring, engine, sent, withdrawn, simulated>>

Init == /\ next_order_id = 1
        /\ desk_orders = [id \in Ids |-> Nothing]
        /\ conditional_orders = [id \in Ids |-> Nothing]
        /\ outbox = <<>> /\ handler = "none"
        /\ ring = <<>> /\ active = "live"
        /\ cpc = "drain" /\ book = EmptyBook /\ view = L2Snapshot(EmptyBook, Depth)
        /\ added = [id \in Ids |-> 0]
        /\ refused = {} /\ withdrawn = {} /\ simulated = {} /\ lost = {}

-----------------------------------------------------------------------------
(* What the desk reads off a snapshot.                                     *)

Triggered(s, trigger, snap) ==
    LET reference == MidPrice(snap)
    IN  /\ reference # InvalidPrice
        /\ IF s = "Bid" THEN reference >= trigger ELSE reference <= trigger

BestAgainst(s, snap) == IF s = "Bid" THEN snap.best_ask ELSE snap.best_bid
LevelsAgainst(s, snap) == IF s = "Bid" THEN snap.asks ELSE snap.bids

(* A market ticket becomes a limit order well through the best price.      *)
LimitPrice(t, snap) ==
    LET best == BestAgainst(t.side, snap)
        away(p, by) == IF t.side = "Bid" THEN p + by ELSE p - by
    IN  IF t.type # "Market" THEN t.price
        ELSE IF best = InvalidPrice THEN away(t.price, BlindSlack)
        ELSE away(best, Slack)

(* Mutant: an order at the best price of the other side is not seen to     *)
(* cross.                                                                  *)
CrossesStrictly(s, p, snap) ==
    LET best == BestAgainst(s, snap)
    IN  best # InvalidPrice /\ Better(s, p, best)

Crosses(s, p, snap) ==
    LET best == BestAgainst(s, snap)
    IN  best # InvalidPrice /\ ~ Better(s, best, p)

(* What is displayed within the limit.                                     *)
Available(s, p, snap) ==
    LET rows == LevelsAgainst(s, snap)
    IN  Total([i \in 1 .. Len(rows) |-> IF Better(s, rows[i].price, p) THEN 0 ELSE rows[i].qty])

(* A ticket that passes the checks; any other leaves nothing but a notice. *)
Acceptable(t, p, snap) ==
    /\ t.qty > 0
    /\ p > 0
    /\ t.type = "PostOnly" => ~ Crosses(t.side, p, snap)
    /\ t.type = "FOK" => Available(t.side, p, snap) >= t.qty
    /\ t.type = "Stop" => t.trigger > 0

-----------------------------------------------------------------------------
(* The handlers of the UI thread. Each loads the snapshot of the symbol on *)
(* the screen, which for all but the first symbol is made up at each tick. *)

Snapshots == IF active = "live" THEN {view} ELSE Elsewhere

Idle == outbox = <<>>

AddOf(id, s, p, qty) ==
    [type |-> "Add", order_id |-> id, side |-> s, price |-> p, qty |-> qty]

CancelOf(id) == [type |-> "Cancel", order_id |-> id]

(* Mutant: the cancel of a transient ticket goes first. *)
CancelThenAdd(t, add) ==
    IF t.type \in {"IOC", "FOK", "Market"} THEN <<CancelOf(add.order_id), add>>
    ELSE <<add>>

PushesOf(t, add) ==
    IF t.type \in {"IOC", "FOK", "Market"} THEN <<add, CancelOf(add.order_id)>>
    ELSE <<add>>

Listed(type, side, price, qty, state) ==
    [type |-> type, side |-> side, price |-> price, qty |-> qty, state |-> state]

(* submit_ticket. A stop is listed before its push, any other ticket after.*)
SubmitTicket(t, snap) ==
    LET p == LimitPrice(t, snap)
        id == next_order_id
        fires == t.type = "Stop" => Triggered(t.side, t.trigger, snap)
    IN  /\ Idle /\ id \in Ids /\ p \in Prices
        /\ Acceptable(t, p, snap)
        /\ next_order_id' = id + 1
        /\ handler' = IF fires THEN t.type ELSE "none"
        /\ outbox' = IF fires THEN PushesOf(t, AddOf(id, t.side, p, t.qty)) ELSE <<>>
        /\ desk_orders' =
              IF t.type # "Stop" THEN desk_orders
              ELSE [desk_orders EXCEPT ![id] =
                      Listed(t.type, t.side, p, t.qty,
                             IF fires THEN "Pending" ELSE "Conditional")]
        /\ conditional_orders' =
              IF fires THEN conditional_orders
              ELSE [conditional_orders EXCEPT ![id] =
                      [side |-> t.side, price |-> p, qty |-> t.qty, trigger |-> t.trigger]]
        /\ UNCHANGED <<ring, engine, sent, withdrawn, simulated>>

(* submit_simulated_order, the first half of a tick: odd ids buy.          *)
SubmitSimulatedOrder(q) ==
    /\ Idle /\ next_order_id \in Ids
    /\ q.side = IF next_order_id % 2 = 1 THEN "Bid" ELSE "Ask"
    /\ next_order_id' = next_order_id + 1
    /\ handler' = "simulation"
    /\ outbox' = <<AddOf(next_order_id, q.side, q.price, q.qty)>>
    /\ simulated' = simulated \union {next_order_id}
    /\ UNCHANGED <<desk_orders, conditional_orders, ring, engine, sent, withdrawn>>

(* The ids of a set as the vectors of the code hold them: oldest first.    *)
InOrder(ids) ==
    LET upTo[n \in 0 .. Cardinality(Ids)] ==
            IF n = 0 THEN <<>>
            ELSE IF n \in ids THEN Append(upTo[n - 1], n) ELSE upTo[n - 1]
    IN  upTo[Cardinality(Ids)]

Armed == {id \in Ids : conditional_orders[id] # Nothing}

TriggeredOrders(snap) ==
    {id \in Armed :
        Triggered(conditional_orders[id].side, conditional_orders[id].trigger, snap)}

(* process_conditional_orders, the second half of a tick.                  *)
ProcessConditionalOrders(snap) ==
    LET adds == [i \in DOMAIN InOrder(TriggeredOrders(snap)) |->
                   LET id == InOrder(TriggeredOrders(snap))[i]
                       o  == conditional_orders[id]
                   IN  AddOf(id, o.side, o.price, o.qty)]
    IN  /\ Idle /\ TriggeredOrders(snap) # {}
        /\ handler' = "conditional"
        /\ outbox' = adds
        /\ UNCHANGED <<orders, ring, engine, sent, withdrawn, simulated>>

Cancellable == {id \in Ids : desk_orders[id] # Nothing /\ desk_orders[id].state = "Pending"}

SetState(ids, state) ==
    [id \in Ids |-> IF id \in ids THEN [desk_orders[id] EXCEPT !.state = state]
                                  ELSE desk_orders[id]]

CancelsOf(ids) == [i \in DOMAIN InOrder(ids) |-> CancelOf(InOrder(ids)[i])]

(* The Cancel button of one order.                                         *)
CancelOrderClicked(id) ==
    /\ Idle /\ id \in Cancellable
    /\ handler' = "cancel"
    /\ outbox' = <<CancelOf(id)>>
    /\ desk_orders' = SetState({id}, "Cancel pending")
    /\ UNCHANGED <<next_order_id, conditional_orders, ring, engine, sent, withdrawn,
                   simulated>>

(* Mutants of CancelAll: only the first order is sent a cancel; the orders *)
(* that wait for their trigger are left to wait.                           *)
CancelAllSendingOne ==
    /\ Idle /\ (Cancellable # {} \/ Armed # {})
    /\ handler' = "cancel"
    /\ outbox' = CancelsOf({id \in Cancellable : \A i \in Cancellable : id <= i})
    /\ desk_orders' = SetState(Cancellable, "Cancel pending")
    /\ conditional_orders' = [id \in Ids |-> Nothing]
    /\ withdrawn' = withdrawn \union Armed
    /\ UNCHANGED <<next_order_id, ring, engine, sent, simulated>>

CancelAllKeepingArmed ==
    /\ Idle /\ (Cancellable # {} \/ Armed # {})
    /\ handler' = "cancel"
    /\ outbox' = CancelsOf(Cancellable)
    /\ desk_orders' = SetState(Cancellable, "Cancel pending")
    /\ withdrawn' = withdrawn \union Armed
    /\ UNCHANGED <<next_order_id, conditional_orders, ring, engine, sent, simulated>>

(* cancel_all, by its buttons or by the kill switch, which does no more.   *)
CancelAll ==
    /\ Idle /\ (Cancellable # {} \/ Armed # {})
    /\ handler' = "cancel"
    /\ outbox' = CancelsOf(Cancellable)
    /\ desk_orders' = SetState(Cancellable, "Cancel pending")
    /\ conditional_orders' = [id \in Ids |-> Nothing]
    /\ withdrawn' = withdrawn \union Armed
    /\ UNCHANGED <<next_order_id, ring, engine, sent, simulated>>

(* Apply in the Modify popup, which any listed order opens: the list shows *)
(* the new price and quantity at once, whatever comes of the command.      *)
ModifyOrderApplied(id, p, qty) ==
    /\ Idle /\ desk_orders[id] # Nothing
    /\ ModifyAgain \/ desk_orders[id].state # "Modify pending"
    /\ handler' = "modify"
    /\ outbox' = <<[type |-> "Modify", order_id |-> id, side |-> "Bid", price |-> p,
                    qty |-> qty]>>
    /\ desk_orders' = [desk_orders EXCEPT ![id].price = p, ![id].qty = qty,
                                          ![id].state = "Modify pending"]
    /\ UNCHANGED <<next_order_id, conditional_orders, ring, engine, sent, withdrawn,
                   simulated>>

(* A click on a symbol's tab.                                              *)
SelectSymbol ==
    /\ Idle
    /\ active' = IF active = "live" THEN "other" ELSE "live"
    /\ UNCHANGED <<orders, outbox, handler, ring, cpc, book, view, sent, withdrawn,
                   simulated>>

(* A replay that has ended shows its last book as the first symbol's.      *)
ReplayPublished(snap) ==
    /\ view' = snap
    /\ UNCHANGED <<orders, outbox, handler, ring, cpc, book, active, sent, withdrawn,
                   simulated>>

-----------------------------------------------------------------------------
(* One push. The result matters to a ticket, which ends when its order is  *)
(* refused, and to a triggered order, which stays armed; a cancel or a     *)
(* modify that is refused is lost.                                         *)

(* Mutant: a ticket is listed although its push was refused. *)
ListedRegardless(c, taken) ==
    IF c.type # "Add" \/ handler \in {"simulation", "Stop"} THEN desk_orders
    ELSE IF handler = "conditional"
    THEN IF taken THEN SetState({c.order_id}, "Pending") ELSE desk_orders
    ELSE [desk_orders EXCEPT ![c.order_id] = 
               Listed(handler, c.side, c.price, c.qty, "Pending")]

ListedAfter(c, taken) ==
    IF ~ taken \/ c.type # "Add" \/ handler \in {"simulation", "Stop"} THEN desk_orders
    ELSE IF handler = "conditional" THEN SetState({c.order_id}, "Pending")
    ELSE [desk_orders EXCEPT ![c.order_id] = 
               Listed(handler, c.side, c.price, c.qty, "Pending")]

(* Mutant: a triggered order is taken off although the ring refused it.    *)
DisarmedRegardless(c, taken) ==
    IF handler = "conditional"
    THEN [conditional_orders EXCEPT ![c.order_id] = Nothing]
    ELSE conditional_orders

ArmedAfter(c, taken) ==
    IF taken /\ handler = "conditional"
    THEN [conditional_orders EXCEPT ![c.order_id] = Nothing]
    ELSE conditional_orders

Push ==
    /\ outbox # <<>>
    /\ LET c == Head(outbox)
           taken == Len(ring) < QueueCapacity
       IN  /\ ring' = IF taken THEN Append(ring, c) ELSE ring
           /\ outbox' = IF ~ taken /\ handler \in TicketTypes THEN <<>> ELSE Tail(outbox)
           /\ handler' = IF outbox' = <<>> THEN "none" ELSE handler
           /\ desk_orders' = ListedAfter(c, taken)
           /\ conditional_orders' = ArmedAfter(c, taken)
           /\ added' = IF taken /\ c.type = "Add"
                       THEN [added EXCEPT ![c.order_id] = @ + 1] ELSE added
           /\ refused' = IF ~ taken /\ c.type = "Cancel"
                         THEN refused \union {c.order_id} ELSE refused
           /\ lost' = IF ~ taken /\ c.type = "Add" /\ handler = "Stop"
                      THEN lost \union {c.order_id} ELSE lost
    /\ UNCHANGED <<next_order_id, engine, withdrawn, simulated>>

-----------------------------------------------------------------------------
(* The consumer: process_all until the ring is empty, then the book is     *)
(* published.                                                              *)

Apply ==
    /\ cpc = "drain" /\ ring # <<>>
    /\ ring' = Tail(ring)
    /\ book' = ApplyCommand(book, Head(ring)).book
    /\ withdrawn' = IF Head(ring).type # "Cancel" THEN withdrawn
                    ELSE withdrawn \union {Head(ring).order_id}
    /\ UNCHANGED <<orders, outbox, handler, cpc, screen, sent, simulated>>

Drained ==
    /\ cpc = "drain" /\ ring = <<>>
    /\ cpc' = "publish"
    /\ UNCHANGED <<orders, outbox, handler, ring, book, screen, sent, withdrawn, simulated>>

Publish ==
    /\ cpc = "publish"
    /\ view' = L2Snapshot(book, Depth)
    /\ cpc' = "drain"
    /\ UNCHANGED <<orders, outbox, handler, ring, active, book, sent, withdrawn, simulated>>

Next == \/ \E t \in Tickets, snap \in Snapshots : SubmitTicket(t, snap)
        \/ \E q \in Quotes : SubmitSimulatedOrder(q)
        \/ \E snap \in Snapshots : ProcessConditionalOrders(snap)
        \/ \E id \in Ids : CancelOrderClicked(id)
        \/ CancelAll
        \/ \E id \in Ids, c \in Changes : ModifyOrderApplied(id, c[1], c[2])
        \/ SelectSymbol
        \/ \E snap \in Replays : ReplayPublished(snap)
        \/ Push
        \/ Apply \/ Drained \/ Publish

Spec == Init /\ [][Next]_vars

(* The window keeps drawing frames, each with a tick, a handler runs to    *)
(* its end, and the consumer thread is scheduled. These are the steps of   *)
(* ProcessConditionalOrders, of Push and of the consumer, by their effect  *)
(* on the variables that tell who moved.                                   *)
Tick == /\ Idle /\ \E snap \in Snapshots : TriggeredOrders(snap) # {}
        /\ handler' = "conditional"

PushMade == outbox # <<>> /\ outbox' \in {<<>>, Tail(outbox)}

Consumed == \/ cpc = "drain" /\ ring # <<>> /\ ring' = Tail(ring) /\ cpc' = cpc
            \/ cpc = "drain" /\ ring = <<>> /\ ring' = ring /\ cpc' = "publish"
            \/ cpc = "publish" /\ ring' = ring /\ cpc' = "drain"

FairSpec == Spec /\ WF_handler(Tick) /\ WF_outbox(PushMade) /\ WF_<<cpc, ring>>(Consumed)

-----------------------------------------------------------------------------
TypeOK ==
    /\ next_order_id \in 1 .. Cardinality(Ids) + 1
    /\ desk_orders \in [Ids -> DeskOrder \union {Nothing}]
    /\ conditional_orders \in [Ids -> ConditionalOrder \union {Nothing}]
    /\ outbox \in Seq(Command) /\ ring \in Seq(Command) /\ Len(ring) <= QueueCapacity
    /\ active \in {"live", "other"}
    /\ cpc \in {"drain", "publish"} /\ book \in Book
    /\ withdrawn \subseteq Ids /\ refused \subseteq Ids
    /\ simulated \subseteq Ids /\ lost \subseteq Ids

ToGo(type, id) ==
    \E i \in DOMAIN (ring \o outbox) :
        (ring \o outbox)[i].type = type /\ (ring \o outbox)[i].order_id = id

(* The list of active orders, which is all that cancel_all goes by, and    *)
(* the orders sent agree. An order of the desk that went out is listed; an *)
(* order listed as on its way has gone out or is about to; and an order    *)
(* listed in any state is accounted for: sent, about to be, waiting for    *)
(* its trigger, or taken off by cancel_all. The exception is a stop that   *)
(* fired at once into a full ring, which stays listed though it never      *)
(* existed. A retry after a full ring never loses an order nor sends it    *)
(* twice: the matcher would let the second one trade before its id is      *)
(* found to be taken.                                                      *)
ListAgreesWithSubmissions ==
    /\ TypeOK
    /\ \A id \in Ids :
            /\ added[id] <= 1
            /\ added[id] = 1 => desk_orders[id] # Nothing \/ id \in simulated
            /\ id \in Cancellable => added[id] = 1 \/ ToGo("Add", id) \/ id \in lost
            /\ desk_orders[id] # Nothing =>
                  \/ added[id] = 1 \/ ToGo("Add", id) \/ id \in lost
                  \/ id \in Armed \/ id \in withdrawn
            /\ id \in Armed => added[id] = 0 /\ desk_orders[id] # Nothing

(* What was cancelled stays out of the market: an order whose cancel the   *)
(* engine has handled does not come back, whatever modify is behind it in  *)
(* the ring, and an order cancel_all took off the desk while it waited for *)
(* its trigger is never sent, though a tick may have found it triggered.   *)
WithdrawnStaysOut ==
    \A id \in withdrawn : id \notin Resting(book) /\ ~ ToGo("Add", id)

(* "Cancel pending" is true: the order is off the book, or its cancel is   *)
(* on the way, or the full ring refused it and the desk will not try again.*)
CancelPendingIsTrue ==
    \A id \in Resting(book) :
        desk_orders[id] # Nothing /\ desk_orders[id].state = "Cancel pending" =>
            ToGo("Cancel", id) \/ id \in refused

Transient == {id \in Ids : desk_orders[id] # Nothing
                            /\ desk_orders[id].type \in {"IOC", "FOK", "Market"}}

(* An immediate order only takes: nothing gets between its add and its     *)
(* cancel, so nobody trades against its remainder, unless the ring filled  *)
(* up between the two pushes and refused the cancel.                       *)
TransientOnlyTakes ==
    ring # <<>> =>
        LET trades == ApplyCommand(book, Head(ring)).trades
        IN  \A i \in DOMAIN trades : trades[i].maker_id \notin Transient \ refused

(* The checks of the desk are those of the engine: judged on a snapshot of *)
(* the book as it is, a post-only ticket it accepts would not trade and a  *)
(* fill-or-kill ticket would be filled, unless the matcher stopped at      *)
(* MAX_TRADES. What breaks them is a snapshot that is stale, or of another *)
(* symbol.                                                                 *)
JudgedRightIfCurrent ==
    view = L2Snapshot(book, Depth) =>
        \A t \in Tickets :
            LET r == Fills(book, t.side, t.price, t.qty)
            IN  Acceptable(t, t.price, view) =>
                    /\ t.type = "PostOnly" => r.trades = <<>>
                    /\ t.type = "FOK" => r.left = 0 \/ Len(r.trades) = MaxTrades

Met(id) ==
    \A snap \in Snapshots :
        Triggered(conditional_orders[id].side, conditional_orders[id].trigger, snap)

(* An order whose trigger is met on the screen is sent as soon as the ring *)
(* has room, unless cancel_all takes it off the desk or, before that, the  *)
(* trigger is no longer met and it goes on waiting: it is never dropped,   *)
(* whatever the ring refuses, nor held up by the orders armed before it    *)
(* that are not triggered.                                                 *)
TriggeredIsSent ==
    \A id \in Ids :
        id \in Armed /\ Met(id) ~>
            \/ added[id] = 1
            \/ id \in withdrawn
            \/ id \in Armed /\ ~ Met(id)
=============================================================================
