------------------------------- MODULE Signals -------------------------------
(***************************************************************************)
(* The signals of src/include/signals: VPIN, momentum of the mid price,    *)
(* order book imbalance, and their blend.                                  *)
(*                                                                         *)
(* A fraction of type double is a number of parts, Unit of them to the     *)
(* whole; Unit is a multiple of every number the code divides by, so that  *)
(* no quotient here is rounded. What the code truncates to an integer is.  *)
(***************************************************************************)
EXTENDS BookOps

CONSTANTS Unit,             \* 1.0
          Divisors,         \* 1 .. the greatest volume, price or count divided by
          BucketCount,      \* of the VPIN
          BucketVolume,
          MomentumWindow

ASSUME SignalAssumption ==
    /\ Unit \in Nat \ {0} /\ \A n \in Divisors : Unit % n = 0
    /\ BucketCount \in Nat \ {0} /\ BucketVolume \in Nat \ {0}
    /\ MomentumWindow \in Nat \ {0}

Abs(x) == IF x < 0 THEN -x ELSE x

Mean(s) == IF s = <<>> THEN 0 ELSE Total(s) \div Len(s)

(* A deque of at most n items: the oldest is dropped for the newest.       *)
Pushed(s, x, n) == IF Len(s) < n THEN Append(s, x) ELSE Append(Tail(s), x)

-----------------------------------------------------------------------------
(* Volume-synchronized probability of informed trading: the imbalance of   *)
(* buying and selling in buckets of BucketVolume.                          *)

NewVpin == [buy |-> 0, sell |-> 0, vol |-> 0, buckets |-> <<>>]

(* Mutant: what was bought and sold before the bucket closed is kept.      *)
CloseKeepingFlow(v) ==
    [v EXCEPT !.vol = @ - BucketVolume,
              !.buckets = Pushed(@, (Unit * Abs(v.buy - v.sell)) \div v.vol, BucketCount)]

(* A trade that overfills the bucket is split in proportion, and what the  *)
(* split leaves of buys and sells is truncated.                            *)
CloseBucket(v) ==
    LET overflow == v.vol - BucketVolume
    IN  [buy  |-> (v.buy * overflow) \div v.vol,
         sell |-> (v.sell * overflow) \div v.vol,
         vol  |-> overflow,
         buckets |-> Pushed(v.buckets, (Unit * Abs(v.buy - v.sell)) \div v.vol, BucketCount)]

Filled(v, aggressor, volume) ==
    [v EXCEPT !.buy  = @ + IF aggressor = "Bid" THEN volume ELSE 0,
              !.sell = @ + IF aggressor = "Ask" THEN volume ELSE 0,
              !.vol  = @ + volume]

(* A large trade closes several buckets.                                   *)
VpinOnTrade(v, aggressor, volume) ==
    LET f == Filled(v, aggressor, volume)
        run[k \in 0 .. f.vol \div BucketVolume] ==
            IF k = 0 THEN f ELSE CloseBucket(run[k - 1])
    IN  run[f.vol \div BucketVolume]

VpinValue(v) == Mean(v.buckets)

-----------------------------------------------------------------------------
(* Momentum: the mean of the last returns. The average ema_ is not read by *)
(* anyone and is left out.                                                 *)

NewMomentum == [prev |-> InvalidPrice, returns |-> <<>>]

MomentumUpdate(m, mid) ==
    IF mid = InvalidPrice THEN m
    ELSE [prev |-> mid,
          returns |-> IF m.prev = InvalidPrice THEN m.returns
                      ELSE Pushed(m.returns, (Unit * (mid - m.prev)) \div m.prev,
                                  MomentumWindow)]

MomentumSignal(m) == Mean(m.returns)

-----------------------------------------------------------------------------
(* Order book imbalance over the first depth levels of both sides; a level *)
(* that is not there has quantity zero. The vector code computes the same  *)
(* sums.                                                                   *)

QtyWithin(levels, depth) ==
    Total([i \in 1 .. IF depth < Len(levels) THEN depth ELSE Len(levels) |-> levels[i].qty])

ObiCompute(snap, depth) ==
    LET bid == QtyWithin(snap.bids, depth)
        ask == QtyWithin(snap.asks, depth)
    IN  IF bid + ask = 0 THEN 0 ELSE (Unit * (bid - ask)) \div (bid + ask)

(* 0.4, 0.3 and 0.3 of the signals: in tenths of a part.                   *)
Composite(snap, vpin, momentum) ==
    4 * ObiCompute(snap, 5) + 3 * VpinValue(vpin) + 3 * MomentumSignal(momentum)
=============================================================================
