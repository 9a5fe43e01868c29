--------------------------- MODULE MarketSession ---------------------------
(***************************************************************************)
(* The sessions that run market data through a book and the signals: the   *)
(* replay of a LOBSTER file (src/include/io/market_replay.hpp), the tape   *)
(* of Binance trades (src/include/app/real_data_modes.hpp), the simulation *)
(* (src/include/app/session_services.hpp), and the backtest engine on bars *)
(* of any signal and price, as a library.                                  *)
(*                                                                         *)
(* The loops are sequential: one action is one event, with the sample that *)
(* may follow it. The lines of a file, and the random numbers of the       *)
(* simulation, are the environment's choice.                               *)
(***************************************************************************)
EXTENDS Analytics

CONSTANTS Modes,           \* the kinds of session
          Lines, Tape,     \* of the files
          Jitter,          \* prices of the simulation
          BarSignals, BarMids,
          Gaps,            \* between the timestamps of two events
          LotsPerUnit,     \* the tape's quantities are in lots, fractions of a unit
          SampleEvery, HistoryEvery, FlowEvery,
          Depth, Horizons,
          SimulatedVolume, CancelBack, ExecuteBack,
          MaxEvents        \* bound, for each mode: events of a session

EventTypes == {"Submission", "PartialCancel", "Deletion", "VisibleExecution",
               "HiddenExecution", "CrossTrade", "TradingHalt", "Unknown"}

Line == [fields : Nat, type : EventTypes, order_id : Ids, size : Nat, price : Prices,
         direction : Int]

(* Files have positive prices and no negative sizes; INVALID_PRICE is      *)
(* negative. The simulation looks back by a fixed number of ids.           *)
ASSUME SessionAssumption ==
    /\ Modes \subseteq {"lobster", "tape", "simulation", "bars"}
    /\ Lines \subseteq Line
    /\ Tape \subseteq [lots : Nat, price : Nat \ {0}, buyer_is_maker : BOOLEAN]
    /\ IsFiniteSet(Prices) /\ Prices \subseteq Nat \ {0} /\ Jitter \subseteq Prices
    /\ InvalidPrice \notin Nat /\ BarMids \subseteq Nat \union {InvalidPrice}
    /\ Cardinality(Ids) \in Nat /\ Ids = 1 .. Cardinality(Ids)
    /\ {SampleEvery, HistoryEvery, FlowEvery, LotsPerUnit} \subseteq Nat \ {0}
    /\ {CancelBack, ExecuteBack} \subseteq Nat \ {0} /\ SimulatedVolume \in Nat
    /\ Horizons \subseteq Nat \ {0} /\ Gaps \subseteq Nat
    /\ MaxEvents \in [Modes -> Nat]

VARIABLES mode, over,
          event,         \* index of the next event
          now,           \* timestamp of the last sample
          id,            \* next id of the simulation
          book, vpin, momentum, stats, profile, samples, bt,
          counts,        \* events_applied, events_skipped, submissions, cancels, executions
          history,       \* composite_history, mid_history, vpin_history: their lengths
          flow, cancelled, unknown,   \* history: what went in
          extra          \* history: points of the equity curve that are no bars

signals == <<vpin, momentum, flow>>
sampled == <<samples, bt, extra>>
lobster == <<stats, profile, counts, cancelled, unknown>>
vars == <<mode, over, event, now, id, book, signals, sampled, lobster, history>>

Init == /\ mode \in Modes /\ over = FALSE
        /\ event = 0 /\ now = 0 /\ id = 1
        /\ book = EmptyBook
        /\ vpin = NewVpin /\ momentum = NewMomentum
        /\ stats = NewStats /\ profile = NewProfile
        /\ samples = <<>> /\ bt = NewBacktest(<<>>)
        /\ counts = [applied |-> 0, skipped |-> 0,
                     submissions |-> 0, cancels |-> 0, executions |-> 0]
        /\ history = [composite |-> 0, mid |-> 0, vpin |-> 0]
        /\ flow = [bought |-> 0, sold |-> 0] /\ cancelled = 0 /\ unknown = 0 /\ extra = 0

Running(m) == mode = m /\ ~ over /\ event < MaxEvents[mode]

(* Only the times of the samples are read.                                 *)
Tick(due) == /\ event' = event + 1
             /\ \E gap \in IF due THEN Gaps ELSE {0} : now' = now + gap

Flowed(aggressor, volume) ==
    IF aggressor = "Bid" THEN [flow EXCEPT !.bought = @ + volume]
    ELSE [flow EXCEPT !.sold = @ + volume]

(* Every so many events the book is published and the signal computed: the *)
(* decay analyzer and the backtest get the sample, a price or not.         *)
Sample(b, v, due) ==
    LET snap   == L2Snapshot(b, Depth)
        m      == MomentumUpdate(momentum, MidPrice(snap))
        signal == Composite(snap, v, m)
    IN  IF ~ due THEN UNCHANGED <<momentum, sampled, history>>
        ELSE /\ momentum' = m
             /\ samples' = Append(samples, SampleOf(signal, MidPrice(snap), now'))
             /\ bt' = OnBar(bt, signal, MidPrice(snap))
             /\ history' = [history EXCEPT !.composite = @ + 1,
                              !.mid = @ + IF MidPrice(snap) = InvalidPrice THEN 0 ELSE 1]
             /\ UNCHANGED extra

-----------------------------------------------------------------------------
(* LOBSTER. A line with too few fields and a trading halt are dropped when *)
(* the file is loaded.                                                     *)

Messages == {l \in Lines : l.fields >= 6 /\ l.type # "TradingHalt"}

(* -2 and -1 buy and sell, and in older files 1 buys. The direction of an  *)
(* execution is read the same way.                                         *)
DirectionToSide(direction) == IF direction \in {-2, 1} THEN "Bid" ELSE "Ask"

Executes(msg) == msg.type \in {"VisibleExecution", "HiddenExecution"}

(* Mutant: the cancelled size is what is left. *)
ApplyLeavingSize(b, msg) ==
    LET rest == IF msg.order_id \in Resting(b) THEN b.orders[msg.order_id].qty - msg.size ELSE 0
    IN  CASE msg.type = "Submission" ->
                AddOrder(b, msg.order_id, DirectionToSide(msg.direction), msg.price, msg.size)
          [] msg.type = "PartialCancel" /\ rest > 0 ->
                ModifyOrder(b, msg.order_id, b.orders[msg.order_id].price, msg.size)
          [] msg.type = "PartialCancel" /\ rest <= 0 -> CancelOrder(b, msg.order_id)
          [] msg.type = "Deletion" -> CancelOrder(b, msg.order_id)
          [] Executes(msg) -> ExecuteOrder(b, msg.order_id, msg.size)
          [] OTHER -> Rejected(b)

Apply(b, msg) ==
    LET rest == IF msg.order_id \in Resting(b) THEN b.orders[msg.order_id].qty - msg.size ELSE 0
    IN  CASE msg.type = "Submission" ->
                AddOrder(b, msg.order_id, DirectionToSide(msg.direction), msg.price, msg.size)
          [] msg.type = "PartialCancel" /\ rest > 0 ->
                ModifyOrder(b, msg.order_id, b.orders[msg.order_id].price, rest)
          [] msg.type = "PartialCancel" /\ rest <= 0 -> CancelOrder(b, msg.order_id)
          [] msg.type = "Deletion" -> CancelOrder(b, msg.order_id)
          [] Executes(msg) -> ExecuteOrder(b, msg.order_id, msg.size)
          [] OTHER -> Rejected(b)

One(condition) == IF condition THEN 1 ELSE 0

(* An unknown type is skipped by the switch and once more after it.        *)
Counted(msg, ok) ==
    [counts EXCEPT !.applied = @ + One(ok),
        !.skipped = @ + One(~ ok) + One(msg.type = "Unknown"),
        !.submissions = @ + One(ok /\ msg.type = "Submission"),
        !.cancels     = @ + One(ok /\ msg.type \in {"PartialCancel", "Deletion"}),
        !.executions  = @ + One(ok /\ Executes(msg))]

(* History: what a message takes off the book without a trade.             *)
CancelledBy(msg) ==
    IF msg.order_id \notin Resting(book) THEN 0
    ELSE CASE msg.type = "Deletion" -> book.orders[msg.order_id].qty
           [] msg.type = "PartialCancel" ->
                 IF msg.size < book.orders[msg.order_id].qty THEN msg.size
                 ELSE book.orders[msg.order_id].qty
           [] OTHER -> 0

ReplayMessage(msg) ==
    LET r == Apply(book, msg)
        aggressor == DirectionToSide(msg.direction)
        executed == r.ok /\ Executes(msg)
        traded == IF executed THEN StatsOnTrade(stats, msg.size) ELSE stats
        due == event % SampleEvery = 0
    IN  /\ Running("lobster")
        /\ Tick(due)
        /\ book' = r.book
        /\ counts' = Counted(msg, r.ok)
        /\ profile' = IF r.ok /\ msg.type = "Submission"
                      THEN ProfileAdd(profile, aggressor, msg.price, msg.size) ELSE profile
        /\ vpin' = IF executed THEN VpinOnTrade(vpin, aggressor, msg.size) ELSE vpin
        /\ flow' = IF executed THEN Flowed(aggressor, msg.size) ELSE flow
        /\ stats' = IF due THEN StatsOnL2(traded, L2Snapshot(r.book, Depth)) ELSE traded
        /\ cancelled' = cancelled + CancelledBy(msg)
        /\ unknown' = unknown + One(msg.type = "Unknown")
        /\ Sample(r.book, vpin', due)
        /\ UNCHANGED <<mode, over, id>>

-----------------------------------------------------------------------------
(* The tape. A quantity is cut down to whole units, to none at all when it *)
(* is a fraction.                                                          *)

ParsedQty(lots) == lots \div LotsPerUnit

TapeTrade(t) ==
    LET qty == ParsedQty(t.lots)
        aggressor == IF t.buyer_is_maker THEN "Ask" ELSE "Bid"
    IN  /\ Running("tape")
        /\ Tick(FALSE)
        /\ stats' = StatsOnTrade(stats, qty)
        /\ vpin' = VpinOnTrade(vpin, aggressor, qty)
        /\ flow' = Flowed(aggressor, qty)
        /\ momentum' = MomentumUpdate(momentum, t.price)
        /\ history' = [history EXCEPT !.vpin = @ + One((event + 1) % HistoryEvery = 0)]
        /\ UNCHANGED <<mode, over, id, book, sampled, profile, counts, cancelled, unknown>>

-----------------------------------------------------------------------------
(* The simulation: of five events two are bids, one is an ask, one cancels *)
(* and one executes an order of some time ago, if there is one.            *)
SimulationStep(price, qty) ==
    LET add(side) == /\ id \in Ids
                     /\ book' = AddOrder(book, id, side, price, qty).book
                     /\ id' = id + 1
        aggressor == IF event % 2 = 0 THEN "Bid" ELSE "Ask"
        fed == event % FlowEvery = 0
        due == event % SampleEvery = 0
    IN  /\ Running("simulation")
        /\ Tick(due)
        /\ \/ event % 5 \in {0, 1} /\ add("Bid")
           \/ event % 5 = 2 /\ add("Ask")
           \/ /\ event % 5 = 3 /\ UNCHANGED id
              /\ book' = IF id > 2 * CancelBack
                         THEN CancelOrder(book, id - CancelBack).book ELSE book
           \/ /\ event % 5 = 4 /\ UNCHANGED id
              /\ book' = IF id > 2 * ExecuteBack
                         THEN ExecuteOrder(book, id - ExecuteBack, 1).book ELSE book
        /\ Sample(book', vpin, due)
        /\ vpin' = IF fed THEN VpinOnTrade(vpin, aggressor, SimulatedVolume) ELSE vpin
        /\ flow' = IF fed THEN Flowed(aggressor, SimulatedVolume) ELSE flow
        /\ UNCHANGED <<mode, over, lobster>>

-----------------------------------------------------------------------------
(* The backtest engine on its own.                                         *)

Bar(signal, mid) ==
    /\ Running("bars")
    /\ Tick(TRUE)
    /\ bt' = OnBar(bt, signal, mid)
    /\ samples' = Append(samples, SampleOf(signal, mid, now'))
    /\ UNCHANGED <<mode, over, id, book, signals, lobster, history, extra>>

Reset ==
    /\ Running("bars") /\ samples # <<>>
    /\ bt' = NewBacktest(<<Unit>>)
    /\ samples' = <<>> /\ event' = event + 1 /\ now' = 0 /\ extra' = 1
    /\ UNCHANGED <<mode, over, id, book, signals, lobster, history>>

(* result() of the backtest, which a caller may ask for again, and go on.  *)
Concluded == /\ bt' = Result(bt)
             /\ extra' = extra + One(bt'.curve # bt.curve)
             /\ UNCHANGED <<mode, now, id, book, signals, samples, lobster, history>>

AskResult ==
    /\ Running("bars") /\ event > 0
    /\ event' = event + 1 /\ UNCHANGED over
    /\ Concluded

(* A session ends with its last event, and there is none without events.   *)
Ended(m) == /\ mode = m /\ ~ over /\ event > 0
            /\ over' = TRUE /\ UNCHANGED event
            /\ Concluded

ReplayEnded == Ended("lobster")
TapeEnded == Ended("tape")
SimulationReported == Ended("simulation")

Next == \/ \E msg \in Messages : ReplayMessage(msg)
        \/ \E t \in Tape : TapeTrade(t)
        \/ \E price \in Jitter, qty \in Quantities : SimulationStep(price, qty)
        \/ \E signal \in BarSignals, mid \in BarMids : Bar(signal, mid)
        \/ Reset
        \/ AskResult
        \/ ReplayEnded \/ TapeEnded \/ SimulationReported

Spec == Init /\ [][Next]_vars

-----------------------------------------------------------------------------
TypeOK ==
    /\ mode \in Modes /\ over \in BOOLEAN
    /\ event \in 0 .. MaxEvents[mode] /\ now \in Nat /\ id \in 1 .. Cardinality(Ids) + 1
    /\ SoundBook(book)
    /\ vpin \in [buy : Nat, sell : Nat, vol : 0 .. BucketVolume - 1, buckets : Seq(Nat)]
    /\ momentum.prev \in (Nat \ {0}) \union {InvalidPrice} /\ momentum.returns \in Seq(Int)
    /\ profile \in [LevelKeys -> Nat] /\ counts \in [DOMAIN counts -> Nat]
    /\ bt.position \in -1 .. 1 /\ bt.drawdown \in 0 .. Unit /\ bt.curve \in Seq(Int)

(* Every message of a replay is counted, once, as applied or skipped, and  *)
(* what is applied is of one kind; only a message of an unknown type is    *)
(* skipped twice. No order rests that was not counted.                     *)
EventsAccounted ==
    mode = "lobster" =>
        /\ counts.applied + counts.skipped = event + unknown
        /\ counts.applied = counts.submissions + counts.cancels + counts.executions
        /\ counts.executions = stats.trades
        /\ Cardinality(Resting(book)) <= counts.submissions

SumOver(f, S) == FoldSet(LAMBDA x, sum : f[x] + sum, 0, S)

Shares(b) == [i \in Ids |-> IF i \in Resting(b) THEN b.orders[i].qty ELSE 0]

(* The volume profile, the statistics and the book of a replay account for *)
(* every share: submitted is resting, executed or cancelled, and the book  *)
(* never shows more at a price than was submitted there.                   *)
EveryShareAccounted ==
    mode = "lobster" =>
        /\ SumOver(profile, LevelKeys)
              = SumOver(Shares(book), Ids) + stats.volume + cancelled
        /\ \A k \in LevelKeys : LevelQty(book, k) <= profile[k]

(* The state is of its type, and the messages and the shares of a replay   *)
(* add up (market_replay.hpp:61-114).                                      *)
ReplayAddsUp == TypeOK /\ EventsAccounted /\ EveryShareAccounted

FlowVolume == flow.bought + flow.sold

(* The buckets of the VPIN are the volume that went in: as many as were    *)
(* filled, and the open one holds the rest.                                *)
BucketsAreVolume ==
    /\ vpin.vol = FlowVolume % BucketVolume
    /\ LET filled == FlowVolume \div BucketVolume
       IN  Len(vpin.buckets) = IF filled < BucketCount THEN filled ELSE BucketCount
    /\ mode \in {"lobster", "tape"} => stats.volume = FlowVolume

(* The imbalance of a bucket is a share of it, all of it when the flow was *)
(* one-sided, and truncation loses at most one unit of a side per bucket.  *)
ImbalanceIsAShare ==
    /\ vpin.buy + vpin.sell \in vpin.vol - FlowVolume \div BucketVolume .. vpin.vol
    /\ \A i \in DOMAIN vpin.buckets :
          /\ vpin.buckets[i] \in 0 .. Unit
          /\ 0 \in {flow.bought, flow.sold} => vpin.buckets[i] = Unit

(* The buckets of the VPIN are made of the flow that went in (vpin.hpp:24).*)
BucketsAreTheFlow == BucketsAreVolume /\ ImbalanceIsAShare

(* The bars of a backtest are the samples with a price.                    *)
Priced(x) == x.mid \notin {InvalidPrice, 0}

BarsOf(all) ==
    LET upTo[n \in 0 .. Len(all)] ==
            IF n = 0 THEN <<>>
            ELSE IF Priced(all[n]) THEN Append(upTo[n - 1], all[n]) ELSE upTo[n - 1]
    IN  upTo[Len(all)]

(* The position after a bar, how far it was from the one before, and what  *)
(* the one before earned.                                                  *)
HeldAt(bars, i) == IF i = 0 THEN 0 ELSE Target(bars[i].signal)

Moved(bars) == [i \in 1 .. Len(bars) |-> Abs(HeldAt(bars, i) - HeldAt(bars, i - 1))]

Earned(bars) ==
    [i \in 1 .. Len(bars) |->
        IF i = 1 THEN 0
        ELSE HeldAt(bars, i - 1) * ((Unit * (bars[i].mid - bars[i - 1].mid))
                                        \div bars[i - 1].mid)]

Fall(curve, i, j) == Clamp((Unit * (curve[i] - curve[j])) \div curve[i], 0, Unit)

DeepestFall(curve, drawdown) ==
    /\ \A i \in DOMAIN curve : \A j \in i .. Len(curve) :
          curve[i] > 0 => Fall(curve, i, j) <= drawdown
    /\ drawdown > 0 => \E i \in DOMAIN curve : \E j \in i .. Len(curve) :
                          curve[i] > 0 /\ Fall(curve, i, j) = drawdown

(* The accounts of the backtest are those of the bars: each earned the     *)
(* return of the position of the bar before, less the cost of the change   *)
(* of position, and the drawdown is the deepest fall of the curve. A point *)
(* is recorded for each bar, and one more for each result asked for while  *)
(* a position is open. Bars without a price count nowhere.                 *)
EquityIsOfTheBars ==
    LET bars == BarsOf(samples)
    IN  /\ bt.turnover = Total(Moved(bars))
        /\ Equity(bt) = Unit + Total(Earned(bars)) - Cost * bt.turnover
        /\ bt.bars = Len(bars) /\ Len(bt.curve) = Len(bars) + extra
        /\ mode = "lobster" => stats.snapshots = Len(bars) /\ history.mid = Len(bars)
        /\ DeepestFall(<<Unit>> \o bt.curve, bt.drawdown)

(* "Pearson correlation between signal at t and forward return at          *)
(* t+horizon": the two samples of a pair have a price, or there is no      *)
(* return.                                                                 *)
DecayUsesPrices ==
    \A h \in Horizons : \A p \in Pairs(samples, h) :
        InvalidPrice \notin {samples[p[1]].mid, samples[p[2]].mid}
=============================================================================
