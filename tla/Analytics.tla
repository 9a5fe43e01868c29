------------------------------ MODULE Analytics ------------------------------
(***************************************************************************)
(* What is made of the samples of a session: the backtest                  *)
(* (src/include/backtest/backtest_engine.hpp), the decay of the signal     *)
(* (alpha_decay.hpp), the statistics of the market and the volume profile  *)
(* (src/include/analytics/market_stats.hpp).                               *)
(*                                                                         *)
(* The ratio of Sharpe, a square root, is left out. max_drawdown is in     *)
(* whole parts, rounded down.                                              *)
(***************************************************************************)
EXTENDS Signals

CONSTANTS Cost,         \* cost_bps: of one unit of turnover, in parts
          MaxHistory    \* kMaxHistory

ASSUME AnalyticsAssumption == Cost \in Nat /\ MaxHistory \in Nat

(* A new engine has an empty curve, one that was reset a curve of one.     *)
NewBacktest(curve) ==
    [position |-> 0, entry |-> 0, last |-> 0, pnl |-> 0, cost |-> 0, turnover |-> 0,
     peak |-> Unit, drawdown |-> 0, trades |-> 0, bars |-> 0, curve |-> curve]

Equity(bt) == Unit + bt.pnl - bt.cost

(* Mutant: the return is taken from the price the position was entered at, *)
(* over and over.                                                          *)
MarkFromEntry(bt, mid) ==
    IF bt.position = 0 \/ bt.entry = 0 THEN [bt EXCEPT !.last = mid]
    ELSE [bt EXCEPT !.pnl = @ + bt.position * ((Unit * (mid - bt.entry)) \div bt.entry),
                    !.last = mid]

MarkToMarket(bt, mid) ==
    IF bt.position = 0 \/ bt.entry = 0 THEN [bt EXCEPT !.last = mid]
    ELSE [bt EXCEPT !.pnl = @ + bt.position * ((Unit * (mid - bt.entry)) \div bt.entry),
                    !.entry = mid, !.last = mid]

Greater(x, y) == IF x > y THEN x ELSE y
Clamp(x, lo, hi) == IF x < lo THEN lo ELSE IF x > hi THEN hi ELSE x

RecordEquity(bt) ==
    LET equity == Equity(bt)
        peak == Greater(bt.peak, equity)
    IN  [bt EXCEPT !.curve = Append(@, equity), !.peak = peak,
                   !.drawdown = Greater(@, Clamp((Unit * (peak - equity)) \div peak, 0, Unit))]

(* The threshold is 0.05 and the signal in tenths of a part.               *)
Target(signal) == IF 2 * signal > Unit THEN 1 ELSE IF -2 * signal > Unit THEN -1 ELSE 0

Rebalanced(bt, target, mid) ==
    LET delta == Abs(target - bt.position)
    IN  IF delta = 0 THEN bt
        ELSE [bt EXCEPT !.cost = @ + delta * Cost, !.turnover = @ + delta, !.trades = @ + 1,
                        !.position = target, !.entry = mid]

OnBar(bt, signal, mid) ==
    IF mid \in {InvalidPrice, 0} THEN bt
    ELSE LET r == RecordEquity(Rebalanced(MarkToMarket(bt, mid), Target(signal), mid))
         IN  [r EXCEPT !.bars = @ + 1]

(* result() marks an open position again, at the price it is marked at     *)
(* already, and closes nothing; it adds a point to the curve each time it  *)
(* is called.                                                              *)
Result(bt) ==
    IF bt.position # 0 /\ bt.entry # 0 /\ bt.last # 0
    THEN RecordEquity(MarkToMarket(bt, bt.last))
    ELSE bt

-----------------------------------------------------------------------------
(* Alpha decay: each sample is paired with the first one after it that is  *)
(* horizon later. The correlation over the pairs, floating point, is left  *)
(* out: its sample_count is the number of pairs.                           *)

SampleOf(signal, mid, ts) == [signal |-> signal, mid |-> mid, timestamp |-> ts]

Pairs(samples, horizon) ==
    {p \in (DOMAIN samples) \X (DOMAIN samples) :
        LET i == p[1]
            j == p[2]
        IN  /\ i < j /\ samples[j].timestamp >= samples[i].timestamp + horizon
            /\ \A k \in i + 1 .. j - 1 :
                  samples[k].timestamp < samples[i].timestamp + horizon
            /\ samples[i].mid # 0 /\ samples[j].mid # 0}

-----------------------------------------------------------------------------
(* Statistics of the market, and the volume at each price.                 *)

NewStats == [snapshots |-> 0, spread_sum |-> 0, min_spread |-> InvalidPrice,
             max_spread |-> 0, trades |-> 0, volume |-> 0, spreads |-> <<>>]

(* INVALID_PRICE is the least of all prices: no spread is below it.        *)
StatsOnL2(st, snap) ==
    IF InvalidPrice \in {snap.best_bid, snap.best_ask} THEN st
    ELSE LET spread == snap.best_ask - snap.best_bid
         IN  [st EXCEPT !.snapshots = @ + 1, !.spread_sum = @ + spread,
                        !.min_spread =
                            IF @ # InvalidPrice /\ spread < @ THEN spread ELSE @,
                        !.max_spread = Greater(@, spread),
                        !.spreads = IF Len(@) < MaxHistory THEN Append(@, spread) ELSE @]

StatsOnTrade(st, qty) == [st EXCEPT !.trades = @ + 1, !.volume = @ + qty]

NewProfile == [k \in LevelKeys |-> 0]

ProfileAdd(profile, side, price, qty) == [profile EXCEPT ![<<side, price>>] = @ + qty]
=============================================================================
