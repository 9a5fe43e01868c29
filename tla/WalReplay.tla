------------------------------ MODULE WalReplay ------------------------------
(***************************************************************************)
(* Commands, the records of the write-ahead log, what OmsEngine does with  *)
(* a command (src/include/engine/oms_engine.hpp) and what WalReplayer      *)
(* makes of a log (src/include/io/wal.hpp, wal_replay.hpp).                *)
(*                                                                         *)
(* A cancel carries side, price and quantity fields that nobody reads; the *)
(* model leaves them out, and the times and padding of a record.           *)
(***************************************************************************)
EXTENDS MatchOps

Command == [type : {"Add", "Modify"}, order_id : Ids, side : Side,
            price : Prices, qty : Quantities]
           \union [type : {"Cancel"}, order_id : Ids]

(* from_trade. From_command is the identity on the fields modelled.        *)
FromTrade(t, c, s) ==
    [type |-> "Trade", order_id |-> c.order_id, counterparty_id |-> t.maker_id,
     side |-> s, price |-> t.price, qty |-> t.qty]

-----------------------------------------------------------------------------
(* Mutant: the new order has the side the command names. *)
ApplyWithNamedSide(b, c) ==
    CASE c.type = "Add"    -> SubmitOrder(b, c.order_id, c.side, c.price, c.qty)
      [] c.type = "Cancel" -> EngineCancel(b, c.order_id)
      [] c.type = "Modify" ->
            LET cancelled == CancelOrder(b, c.order_id)
            IN  IF cancelled.ok
                THEN SubmitOrder(cancelled.book, c.order_id, c.side, c.price, c.qty)
                ELSE NoFills(cancelled)

(* apply_command: what the matcher returns and the book it leaves. Unlike  *)
(* the replay it does not call modify_order.                               *)
ApplyCommand(b, c) ==
    CASE c.type = "Add"    -> SubmitOrder(b, c.order_id, c.side, c.price, c.qty)
      [] c.type = "Cancel" -> EngineCancel(b, c.order_id)
      [] c.type = "Modify" ->
            LET cancelled == CancelOrder(b, c.order_id)
            IN  IF cancelled.ok
                THEN SubmitOrder(cancelled.book, c.order_id, b.orders[c.order_id].side,
                                 c.price, c.qty)
                ELSE NoFills(cancelled)

(* The side of the trades of a command: that of the order it names.        *)
Aggressor(b, c) == IF c.type = "Modify" THEN b.orders[c.order_id].side ELSE c.side

TradeRecords(b, c, ts) ==
    [i \in DOMAIN ts |-> FromTrade(ts[i], c, Aggressor(b, c))]

-----------------------------------------------------------------------------
(* The replay, record by record, into an empty book of the same capacity.  *)

NothingReplayed == [book |-> EmptyBook, commands |-> 0, trades |-> 0, errors |-> 0]

Counted(r, ok) == IF ok THEN [r EXCEPT !.commands = @ + 1]
                        ELSE [r EXCEPT !.errors = @ + 1]

ReplayRecord(r, rec) ==
    CASE rec.type = "Add" ->
            LET sub == SubmitOrder(r.book, rec.order_id, rec.side, rec.price, rec.qty)
            IN  Counted([r EXCEPT !.book = sub.book, !.trades = @ + Len(sub.trades)], TRUE)
      [] rec.type = "Modify" ->
            LET mod == EngineModify(r.book, rec.order_id, rec.price, rec.qty)
            IN  Counted([r EXCEPT !.book = mod.book], mod.ok)
      [] rec.type = "Cancel" ->
            LET can == EngineCancel(r.book, rec.order_id)
            IN  Counted([r EXCEPT !.book = can.book], can.ok)
      [] rec.type = "Trade" -> [r EXCEPT !.trades = @ + 1]

Replay(log) ==
    LET run[n \in 0 .. Len(log)] ==
            IF n = 0 THEN NothingReplayed
            ELSE LET r == run[n - 1] IN ReplayRecord(r, log[n])
    IN  run[Len(log)]

(* The records of a log that are of these types, in their order.           *)
OfType(log, types) ==
    LET run[n \in 0 .. Len(log)] ==
            IF n = 0 THEN <<>>
            ELSE IF log[n].type \in types THEN Append(run[n - 1], log[n]) ELSE run[n - 1]
    IN  run[Len(log)]

Commands(log) == OfType(log, {"Add", "Modify", "Cancel"})
Trades(log) == OfType(log, {"Trade"})

(* A cancel or a modify that comes too late, or a modify that leaves       *)
(* nothing, neither a trade nor an order.                                  *)
RefusedBy(c, result) ==
    c.type # "Add" /\ ~ result.ok /\ result.trades = <<>>

(* What the commands of a log do when they are applied in order.           *)
AppliedNext(r, c, result) ==
    [book |-> result.book,
     trades |-> r.trades \o TradeRecords(r.book, c, result.trades),
     refused |-> r.refused + IF RefusedBy(c, result) THEN 1 ELSE 0]

Applied(cs) ==
    LET run[n \in 0 .. Len(cs)] ==
            IF n = 0 THEN [book |-> EmptyBook, trades |-> <<>>, refused |-> 0]
            ELSE LET r == run[n - 1]
                 IN  AppliedNext(r, cs[n], ApplyCommand(r.book, cs[n]))
    IN  run[Len(cs)]
=============================================================================
