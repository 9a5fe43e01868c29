------------------------- MODULE MarketSessionProofs -------------------------
(***************************************************************************)
(* Three theorems of a session. The buckets of the VPIN are the volume     *)
(* that traded: FlowInv, with the loop of on_trade as a function that is   *)
(* the code's whatever function the definition chose. A replay counts each *)
(* message and each share: SessionInv, where the sums over orders and over *)
(* levels are Summed, and each kind of message moves shares from one       *)
(* account to another. The accounts of the backtest are those of its bars: *)
(* BarsInv, with the sums over the bars that AccountsOf states, and Falls  *)
(* for the drawdown, which has a witness for the deepest fall and a bound  *)
(* for all of them.                                                        *)
(***************************************************************************)
EXTENDS MarketSession, BookLemmas

-----------------------------------------------------------------------------
(* The VPIN. Of the volume that went in, n whole buckets are closed and    *)
(* the rest is in the open one; of bought and sold, each closing lost at   *)
(* most one.                                                               *)

Whole(v, n, volume) == n * BucketVolume + v.vol = volume

Shared(v, n) == v.vol - n <= v.buy + v.sell /\ v.buy + v.sell <= v.vol

KeptLast(s, n) == Len(s) = IF n < BucketCount THEN n ELSE BucketCount

AllUnit(s) == \A i \in 1 .. Len(s) : s[i] = Unit

Sided(v, bought, sold) ==
    /\ bought = 0 => v.buy = 0 /\ v.sell = v.vol /\ AllUnit(v.buckets)
    /\ sold = 0 => v.sell = 0 /\ v.buy = v.vol /\ AllUnit(v.buckets)

VpinTyped(v) == v \in [buy : Nat, sell : Nat, vol : Nat, buckets : Seq(0 .. Unit)]

Flowing(v, n, bought, sold) ==
    /\ VpinTyped(v) /\ n \in Nat
    /\ Whole(v, n, bought + sold) /\ Shared(v, n)
    /\ KeptLast(v.buckets, n) /\ Sided(v, bought, sold)

AtMost(s, n) == Len(s) <= n

(* t holds the items of s and x, or but the oldest of them.                *)
OneMore(t, s, x, n) ==
    /\ Len(t) = IF Len(s) < n THEN Len(s) + 1 ELSE n
    /\ \A i \in 1 .. Len(t) : t[i] = x \/ \E j \in 1 .. Len(s) : t[i] = s[j]

LEMMA PushedFacts ==
    ASSUME NEW S, NEW s \in Seq(S), NEW x \in S, NEW n \in Nat \ {0}, AtMost(s, n)
    PROVE  Pushed(s, x, n) \in Seq(S) /\ OneMore(Pushed(s, x, n), s, x, n)
<1>1. Len(s) \in Nat
    OBVIOUS
<1>2. CASE Len(s) < n
  <2>1. Pushed(s, x, n) = Append(s, x)
    BY <1>2 DEF Pushed
  <2>2. /\ Append(s, x) \in Seq(S) /\ Len(Append(s, x)) = Len(s) + 1
        /\ \A i \in 1 .. Len(s) + 1 : Append(s, x)[i] = IF i = Len(s) + 1 THEN x ELSE s[i]
    BY AppendFacts
  <2>3. \A i \in 1 .. Len(s) + 1 : i = Len(s) + 1 \/ i \in 1 .. Len(s)
    BY <1>1
  <2>4. QED
    BY <1>2, <2>1, <2>2, <2>3 DEF OneMore
<1>3. CASE ~ (Len(s) < n)
  <2> DEFINE t == Tail(s)
  <2>1. Len(s) = n /\ s # <<>>
    BY <1>1, <1>3 DEF AtMost
  <2>2. t \in Seq(S) /\ Len(t) = n - 1 /\ \A i \in 1 .. n - 1 : t[i] = s[i + 1]
    BY <2>1
  <2> HIDE DEF t
  <2>3. Pushed(s, x, n) = Append(t, x)
    BY <1>3 DEF Pushed, t
  <2>4. /\ Append(t, x) \in Seq(S) /\ Len(Append(t, x)) = n
        /\ \A i \in 1 .. n : Append(t, x)[i] = IF i = n THEN x ELSE t[i]
    BY <2>2, AppendFacts
  <2>5. \A i \in 1 .. n : i = n \/ (i \in 1 .. n - 1 /\ i + 1 \in 1 .. Len(s))
    BY <2>1
  <2>6. QED
    BY <1>3, <2>2, <2>3, <2>4, <2>5 DEF OneMore
<1>4. QED
    BY <1>2, <1>3

(* What of c the share of a in v is, rounded down.                         *)
ShareOf(a, c, v) == (a * c) \div v

LEMMA ShareBounds ==
    ASSUME NEW a \in Nat, NEW c \in Nat, NEW v \in Nat \ {0}
    PROVE  LET q == ShareOf(a, c, v)
           IN  q \in Nat /\ v * q <= a * c /\ a * c < v * (q + 1)
<1> DEFINE q == ShareOf(a, c, v)
<1>1. a * c \in Nat
    OBVIOUS
<1>2. q \in Nat /\ v * q <= a * c /\ a * c < v * q + v
    BY <1>1 DEF ShareOf
<1>3. v * (q + 1) = v * q + v
    BY <1>2
<1>4. QED
    BY <1>2, <1>3

LEMMA ShareIsNat ==
    ASSUME NEW a \in Nat, NEW c \in Nat, NEW v \in Nat \ {0}
    PROVE  ShareOf(a, c, v) \in Nat
    BY ShareBounds

LEMMA ShareOfNone ==
    ASSUME NEW c \in Nat, NEW v \in Nat \ {0}
    PROVE  ShareOf(0, c, v) = 0
<1> DEFINE q == ShareOf(0, c, v)
<1>1. q \in Nat /\ v * q <= 0 * c
    BY ShareBounds
<1> HIDE DEF q
<1>2. v * q <= 0
    BY <1>1
<1>3. SUFFICES ASSUME q >= 1 PROVE FALSE
    BY <1>1 DEF q
<1>4. v <= v * q
    BY <1>1, <1>3
<1>5. v * q \in Int
    BY <1>1
<1>6. QED
    BY <1>2, <1>4, <1>5

LEMMA ShareOfAll ==
    ASSUME NEW c \in Nat, NEW v \in Nat \ {0}
    PROVE  ShareOf(v, c, v) = c
<1> DEFINE q == ShareOf(v, c, v)
<1>1. q \in Nat /\ v * q <= v * c /\ v * c < v * (q + 1)
    BY ShareBounds
<1> HIDE DEF q
<1>2. ~ (q > c)
  <2> SUFFICES ASSUME q >= c + 1 PROVE FALSE
    BY <1>1
  <2>1. v * (c + 1) <= v * q /\ v * (c + 1) = v * c + v
    BY <1>1
  <2>2. QED
    BY <1>1, <2>1
<1>3. ~ (q < c)
  <2> SUFFICES ASSUME q + 1 <= c PROVE FALSE
    BY <1>1
  <2>1. v * (q + 1) <= v * c
    BY <1>1
  <2>2. QED
    BY <1>1, <2>1
<1>4. q = c
    BY <1>1, <1>2, <1>3
<1>5. QED
    BY <1>4 DEF q

LEMMA ShareOfPart ==
    ASSUME NEW v \in Nat \ {0}, NEW a \in 0 .. v, NEW c \in Nat
    PROVE  ShareOf(a, c, v) \in 0 .. c
<1> DEFINE q == ShareOf(a, c, v)
<1>1. q \in Nat /\ v * q <= a * c
    BY ShareBounds
<1> HIDE DEF q
<1>2. ~ (q > c)
  <2> SUFFICES ASSUME q >= c + 1 PROVE FALSE
    BY <1>1
  <2>1. a * c <= v * c
    OBVIOUS
  <2>2. v * (c + 1) <= v * q /\ v * (c + 1) = v * c + v
    BY <1>1
  <2>3. QED
    BY <1>1, <2>1, <2>2
<1>3. q \in 0 .. c
    BY <1>1, <1>2
<1>4. QED
    BY <1>3 DEF q

(* Truncation loses at most one of each side: together less than two.      *)
LEMMA SplitLosesLittle ==
    ASSUME NEW v \in Nat \ {0}, NEW o \in 0 .. v, NEW n \in Nat,
           NEW b \in Nat, NEW s \in Nat, b + s \in v - n .. v
    PROVE  ShareOf(b, o, v) + ShareOf(s, o, v) \in o - (n + 1) .. o
<1> DEFINE x == ShareOf(b, o, v)
           y == ShareOf(s, o, v)
<1>1. x \in Nat /\ v * x <= b * o /\ b * o < v * (x + 1)
    BY ShareBounds
<1>2. y \in Nat /\ v * y <= s * o /\ s * o < v * (y + 1)
    BY ShareBounds
<1> HIDE DEF x, y
<1>3. PICK t \in Nat : t = x + y
    BY <1>1, <1>2
<1>4. v * t <= v * o
  <2>1. v * t = v * x + v * y
    BY <1>1, <1>2, <1>3
  <2>2. b * o + s * o = (b + s) * o
    OBVIOUS
  <2>3. (b + s) * o <= v * o
    OBVIOUS
  <2>4. QED
    BY <1>1, <1>2, <2>1, <2>2, <2>3
<1>5. v * (o - n) < v * (t + 2)
  <2>1. v * (t + 2) = v * (x + 1) + v * (y + 1)
    BY <1>1, <1>2, <1>3
  <2>2. b * o + s * o = (b + s) * o
    OBVIOUS
  <2>3. (v - n) * o <= (b + s) * o
    OBVIOUS
  <2>4. v * (o - n) <= (v - n) * o
    <3>1. v * (o - n) = v * o - v * n
      OBVIOUS
    <3>2. (v - n) * o = v * o - n * o
      OBVIOUS
    <3>3. n * o <= v * n
      OBVIOUS
    <3>4. QED
      BY <3>1, <3>2, <3>3
  <2>5. b * o \in Int /\ s * o \in Int /\ v * (x + 1) \in Int /\ v * (y + 1) \in Int
        /\ v * (o - n) \in Int /\ (v - n) * o \in Int
    BY <1>1, <1>2
  <2>6. QED
    BY <1>1, <1>2, <2>1, <2>2, <2>3, <2>4, <2>5
<1>6. t <= o
  <2> SUFFICES ASSUME t >= o + 1 PROVE FALSE
    BY <1>3
  <2>1. v * (o + 1) <= v * t
    BY <1>3
  <2>2. v * (o + 1) = v * o + v
    OBVIOUS
  <2>3. QED
    BY <1>4, <2>1, <2>2
<1>7. o - n < t + 2
  <2> SUFFICES ASSUME o - n >= t + 2 PROVE FALSE
    BY <1>3
  <2>1. v * (t + 2) <= v * (o - n)
    BY <1>3
  <2>2. v * (t + 2) \in Int /\ v * (o - n) \in Int
    BY <1>3
  <2>3. QED
    BY <1>5, <2>1, <2>2
<1>8. t \in o - (n + 1) .. o
    BY <1>3, <1>6, <1>7
<1>9. QED
    BY <1>3, <1>8 DEF x, y

(* The numbers of a bucket that closes: V of v, of which b was bought and  *)
(* s sold; n closed before it.                                             *)
LEMMA CloseNumbers ==
    ASSUME NEW V \in Nat \ {0}, NEW v \in Nat, v >= V, NEW n \in Nat,
           NEW b \in Nat, NEW s \in Nat, b + s \in v - n .. v
    PROVE  /\ v \in Nat \ {0} /\ v - V \in 0 .. v
           /\ ShareOf(b, v - V, v) \in Nat /\ ShareOf(s, v - V, v) \in Nat
           /\ ShareOf(b, v - V, v) + ShareOf(s, v - V, v) \in v - V - (n + 1) .. v - V
           /\ ShareOf(Abs(b - s), Unit, v) \in 0 .. Unit
<1>1. PICK o \in 0 .. v : o = v - V
    OBVIOUS
<1>2. v \in Nat \ {0}
    OBVIOUS
<1>3. ShareOf(b, o, v) \in Nat /\ ShareOf(s, o, v) \in Nat
  <2>1. o \in Nat
    OBVIOUS
  <2>2. QED
    BY <1>2, <2>1, ShareIsNat
<1>4. ShareOf(b, o, v) + ShareOf(s, o, v) \in o - (n + 1) .. o
    BY <1>2, SplitLosesLittle
<1>5. Abs(b - s) \in 0 .. v
    BY DEF Abs
<1>6. ShareOf(Abs(b - s), Unit, v) \in 0 .. Unit
    BY <1>2, <1>5, ShareOfPart, SignalAssumption
<1>7. QED
    BY <1>1, <1>2, <1>3, <1>4, <1>6

(* One bucket is closed of the volume that is open.                        *)
OverFull(v) == v.vol >= BucketVolume

LEMMA CloseBucketFacts ==
    ASSUME NEW v, NEW n, NEW bought \in Nat, NEW sold \in Nat,
           Flowing(v, n, bought, sold), OverFull(v)
    PROVE  /\ Flowing(CloseBucket(v), n + 1, bought, sold)
           /\ CloseBucket(v).vol = v.vol - BucketVolume
<1> DEFINE w == CloseBucket(v)
<1>1. BucketVolume \in Nat \ {0} /\ BucketCount \in Nat \ {0} /\ Unit \in Nat \ {0}
    BY SignalAssumption
<1>2. n \in Nat /\ v \in [buy : Nat, sell : Nat, vol : Nat, buckets : Seq(0 .. Unit)]
    BY DEF Flowing, VpinTyped
<1>3. v.buy \in Nat /\ v.sell \in Nat /\ v.vol \in Nat /\ v.buckets \in Seq(0 .. Unit)
    BY <1>2
<1>4. v.vol >= BucketVolume
    BY DEF OverFull
<1>5. v.buy + v.sell \in v.vol - n .. v.vol
    BY <1>2, <1>3 DEF Flowing, Shared
<1>6. PICK o, x, y, share : /\ o = v.vol - BucketVolume
                            /\ x = ShareOf(v.buy, v.vol - BucketVolume, v.vol)
                            /\ y = ShareOf(v.sell, v.vol - BucketVolume, v.vol)
                            /\ share = ShareOf(Abs(v.buy - v.sell), Unit, v.vol)
    OBVIOUS
<1>7. /\ v.vol \in Nat \ {0} /\ o \in 0 .. v.vol /\ x \in Nat /\ y \in Nat
      /\ x + y \in o - (n + 1) .. o /\ share \in 0 .. Unit
    BY <1>1, <1>2, <1>3, <1>4, <1>5, <1>6, CloseNumbers
<1>8. PICK rows : rows = Pushed(v.buckets, share, BucketCount)
    OBVIOUS
<1>9. w = [buy |-> x, sell |-> y, vol |-> o, buckets |-> rows]
  <2>1. Unit * Abs(v.buy - v.sell) = Abs(v.buy - v.sell) * Unit
    BY <1>1, <1>3 DEF Abs
  <2>2. share = (Unit * Abs(v.buy - v.sell)) \div v.vol
    BY <1>6, <2>1 DEF ShareOf
  <2>3. QED
    BY <1>6, <1>8, <2>2 DEF CloseBucket, ShareOf
<1> HIDE DEF w
<1>10. w.buy = x /\ w.sell = y /\ w.vol = o /\ w.buckets = rows
    BY <1>9
<1>11. KeptLast(v.buckets, n)
    BY DEF Flowing
<1>12. Len(v.buckets) \in Nat /\ Len(v.buckets) <= BucketCount
    BY <1>1, <1>2, <1>3, <1>11 DEF KeptLast
<1>13. /\ rows \in Seq(0 .. Unit)
       /\ Len(rows) = IF Len(v.buckets) < BucketCount THEN Len(v.buckets) + 1 ELSE BucketCount
       /\ \A i \in 1 .. Len(rows) :
            rows[i] = share \/ \E j \in 1 .. Len(v.buckets) : rows[i] = v.buckets[j]
  <2>1. PICK S : S = 0 .. Unit
    OBVIOUS
  <2>2. v.buckets \in Seq(S) /\ share \in S
    BY <1>3, <1>7, <2>1
  <2>3. AtMost(v.buckets, BucketCount) /\ BucketCount \in Nat \ {0}
    BY <1>1, <1>12 DEF AtMost
  <2>4. rows \in Seq(S) /\ OneMore(rows, v.buckets, share, BucketCount)
    BY <1>8, <2>2, <2>3, PushedFacts
  <2>5. QED
    BY <2>1, <2>4 DEF OneMore
<1>14. KeptLast(rows, n + 1)
    BY <1>1, <1>2, <1>11, <1>12, <1>13 DEF KeptLast
<1>15. bought = 0 => x = 0 /\ y = o /\ share = Unit /\ AllUnit(v.buckets)
  <2> SUFFICES ASSUME bought = 0 PROVE x = 0 /\ y = o /\ share = Unit /\ AllUnit(v.buckets)
    OBVIOUS
  <2>1. v.buy = 0 /\ v.sell = v.vol /\ AllUnit(v.buckets)
    BY DEF Flowing, Sided
  <2>2. Abs(v.buy - v.sell) = v.vol
    BY <1>3, <2>1 DEF Abs
  <2>3. x = ShareOf(0, o, v.vol) /\ y = ShareOf(v.vol, o, v.vol)
        /\ share = ShareOf(v.vol, Unit, v.vol)
    BY <1>6, <2>1, <2>2
  <2>4. o \in Nat /\ Unit \in Nat
    BY <1>1, <1>7
  <2>5. QED
    BY <1>7, <2>1, <2>3, <2>4, ShareOfNone, ShareOfAll
<1>16. sold = 0 => y = 0 /\ x = o /\ share = Unit /\ AllUnit(v.buckets)
  <2> SUFFICES ASSUME sold = 0 PROVE y = 0 /\ x = o /\ share = Unit /\ AllUnit(v.buckets)
    OBVIOUS
  <2>1. v.sell = 0 /\ v.buy = v.vol /\ AllUnit(v.buckets)
    BY DEF Flowing, Sided
  <2>2. Abs(v.buy - v.sell) = v.vol
    BY <1>3, <2>1 DEF Abs
  <2>3. y = ShareOf(0, o, v.vol) /\ x = ShareOf(v.vol, o, v.vol)
        /\ share = ShareOf(v.vol, Unit, v.vol)
    BY <1>6, <2>1, <2>2
  <2>4. o \in Nat /\ Unit \in Nat
    BY <1>1, <1>7
  <2>5. QED
    BY <1>7, <2>1, <2>3, <2>4, ShareOfNone, ShareOfAll
<1>17. share = Unit /\ AllUnit(v.buckets) => AllUnit(rows)
    BY <1>13 DEF AllUnit
<1>18. Sided(w, bought, sold)
    BY <1>10, <1>15, <1>16, <1>17 DEF Sided
<1>19. Whole(w, n + 1, bought + sold)
  <2>1. n * BucketVolume + v.vol = bought + sold
    BY DEF Flowing, Whole
  <2>2. (n + 1) * BucketVolume = n * BucketVolume + BucketVolume
    BY <1>1, <1>2
  <2>3. n * BucketVolume \in Nat
    BY <1>1, <1>2
  <2>4. (n + 1) * BucketVolume + o = bought + sold
    <3>1. PICK m \in Nat : m = n * BucketVolume
      BY <2>3
    <3>2. PICK k \in Nat : k = (n + 1) * BucketVolume
      BY <1>1, <2>2, <2>3
    <3>3. k = m + BucketVolume /\ m + v.vol = bought + sold
      BY <2>1, <2>2, <3>1, <3>2
    <3>4. k + o = bought + sold
      <4>1. o = v.vol - BucketVolume /\ v.vol \in Nat /\ BucketVolume \in Nat
        BY <1>1, <1>3, <1>6
      <4>2. QED
        BY <3>3, <4>1
    <3>5. QED
      BY <3>2, <3>4
  <2>5. QED
    BY <1>10, <2>4 DEF Whole
<1>20. VpinTyped(w)
  <2>1. o \in Nat
    BY <1>7
  <2>2. QED
    BY <1>7, <1>9, <1>13, <2>1 DEF VpinTyped
<1>21. Shared(w, n + 1)
    BY <1>2, <1>3, <1>7, <1>10 DEF Shared
<1>22. n + 1 \in Nat
    BY <1>2
<1>23. Flowing(w, n + 1, bought, sold)
    BY <1>10, <1>14, <1>18, <1>19, <1>20, <1>21, <1>22 DEF Flowing
<1>24. QED
    BY <1>6, <1>10, <1>23 DEF w

LEMMA FilledFacts ==
    ASSUME NEW v, NEW n, NEW bought \in Nat, NEW sold \in Nat, NEW volume \in Nat,
           Flowing(v, n, bought, sold)
    PROVE  /\ Flowing(Filled(v, "Bid", volume), n, bought + volume, sold)
           /\ Flowing(Filled(v, "Ask", volume), n, bought, sold + volume)
<1>1. n \in Nat /\ v \in [buy : Nat, sell : Nat, vol : Nat, buckets : Seq(0 .. Unit)]
    BY DEF Flowing, VpinTyped
<1>14. n \in Nat
    BY <1>1
<1>13. v.buy \in Nat /\ v.sell \in Nat /\ v.vol \in Nat
    BY <1>1
<1>2. KeptLast(v.buckets, n) /\ Sided(v, bought, sold)
    BY DEF Flowing
<1>3. v.vol - n <= v.buy + v.sell /\ v.buy + v.sell <= v.vol
    BY DEF Flowing, Shared
<1>4. PICK m \in Nat : m = n * BucketVolume
    BY <1>1, SignalAssumption
<1>5. m + v.vol = bought + sold
    BY <1>4 DEF Flowing, Whole
<1>6. PICK w : w = Filled(v, "Bid", volume)
    OBVIOUS
<1>7. /\ w \in [buy : Nat, sell : Nat, vol : Nat, buckets : Seq(0 .. Unit)]
      /\ w.buy = v.buy + volume /\ w.sell = v.sell /\ w.vol = v.vol + volume
      /\ w.buckets = v.buckets
  <2>1. PICK Q : Q = Seq(0 .. Unit)
    OBVIOUS
  <2>2. v \in [buy : Nat, sell : Nat, vol : Nat, buckets : Q]
    BY <1>1, <2>1
  <2>3. w = [v EXCEPT !.buy = v.buy + volume, !.sell = v.sell + 0, !.vol = v.vol + volume]
    BY <1>6 DEF Filled
  <2>6. v.buy + volume \in Nat /\ v.sell + 0 = v.sell /\ v.vol + volume \in Nat
    BY <1>13
  <2>4. /\ w \in [buy : Nat, sell : Nat, vol : Nat, buckets : Q]
        /\ w.buy = v.buy + volume /\ w.sell = v.sell /\ w.vol = v.vol + volume
        /\ w.buckets = v.buckets
    BY <2>2, <2>3, <2>6
  <2>5. QED
    BY <2>1, <2>4
<1>8. Flowing(w, n, bought + volume, sold)
  <2>6. w.buy = v.buy + volume /\ w.sell = v.sell /\ w.vol = v.vol + volume
        /\ w.buckets = v.buckets
    BY <1>7
  <2>1. Sided(w, bought + volume, sold)
    BY <1>13, <1>2, <2>6 DEF Sided
  <2>2. Shared(w, n)
    BY <1>14, <1>13, <1>3, <2>6 DEF Shared
  <2>3. m + w.vol = bought + volume + sold
    BY <1>13, <1>5, <2>6
  <2>4. Whole(w, n, bought + volume + sold)
    BY <1>4, <2>3 DEF Whole
  <2>5. QED
    BY <1>1, <1>2, <1>7, <2>1, <2>2, <2>4 DEF Flowing, VpinTyped
<1>9. PICK u : u = Filled(v, "Ask", volume)
    OBVIOUS
<1>10. /\ u \in [buy : Nat, sell : Nat, vol : Nat, buckets : Seq(0 .. Unit)]
       /\ u.buy = v.buy /\ u.sell = v.sell + volume /\ u.vol = v.vol + volume
       /\ u.buckets = v.buckets
  <2>1. PICK Q : Q = Seq(0 .. Unit)
    OBVIOUS
  <2>2. v \in [buy : Nat, sell : Nat, vol : Nat, buckets : Q]
    BY <1>1, <2>1
  <2>3. u = [v EXCEPT !.buy = v.buy + 0, !.sell = v.sell + volume, !.vol = v.vol + volume]
    BY <1>9 DEF Filled
  <2>6. v.buy + 0 = v.buy /\ v.sell + volume \in Nat /\ v.vol + volume \in Nat
    BY <1>13
  <2>4. /\ u \in [buy : Nat, sell : Nat, vol : Nat, buckets : Q]
        /\ u.buy = v.buy /\ u.sell = v.sell + volume /\ u.vol = v.vol + volume
        /\ u.buckets = v.buckets
    BY <2>2, <2>3, <2>6
  <2>5. QED
    BY <2>1, <2>4
<1>11. Flowing(u, n, bought, sold + volume)
  <2>6. u.buy = v.buy /\ u.sell = v.sell + volume /\ u.vol = v.vol + volume
        /\ u.buckets = v.buckets
    BY <1>10
  <2>1. Sided(u, bought, sold + volume)
    BY <1>13, <1>2, <2>6 DEF Sided
  <2>2. Shared(u, n)
    BY <1>14, <1>13, <1>3, <2>6 DEF Shared
  <2>3. m + u.vol = bought + (sold + volume)
    BY <1>13, <1>5, <2>6
  <2>4. Whole(u, n, bought + (sold + volume))
    BY <1>4, <2>3 DEF Whole
  <2>5. QED
    BY <1>1, <1>2, <1>10, <2>1, <2>2, <2>4 DEF Flowing, VpinTyped
<1>12. QED
    BY <1>6, <1>8, <1>9, <1>11

(* The loop of on_trade as the buckets it closes.                          *)
Closings(run, K, f) == run[0] = f /\ \A k \in 1 .. K : run[k] = CloseBucket(run[k - 1])

LEMMA VpinRuns ==
    ASSUME NEW v, NEW aggressor, NEW volume, NEW f, f = Filled(v, aggressor, volume),
           NEW K \in Nat, K = f.vol \div BucketVolume
    PROVE  \E run : VpinOnTrade(v, aggressor, volume) = run[K] /\ Closings(run, K, f)
<1> DEFINE step(u) == CloseBucket(u)
           upTo(g, n) == [k \in 0 .. n |-> IF k = 0 THEN f ELSE step(g[k - 1])]
           reached(n) == \E g : g = upTo(g, n)
           T == {n \in 0 .. K : reached(n)}
           run == CHOOSE g : g = upTo(g, K)
<1>1. VpinOnTrade(v, aggressor, volume) = run[K]
    BY DEF VpinOnTrade
<1> HIDE DEF step
<1>2. reached(0)
  <2> DEFINE g == [k \in 0 .. 0 |-> f]
  <2>1. \A k \in 0 .. 0 : g[k] = upTo(g, 0)[k]
    OBVIOUS
  <2>2. QED
    BY <2>1
<1>3. ASSUME NEW n \in 1 .. K, reached(n - 1) PROVE reached(n)
  <2>1. PICK h : h = upTo(h, n - 1)
    BY <1>3
  <2> DEFINE g == [k \in 0 .. n |-> IF k = n THEN step(h[n - 1]) ELSE h[k]]
  <2>2. \A k \in 0 .. n : g[k] = upTo(g, n)[k]
    BY <2>1
  <2>3. g = upTo(g, n)
    BY <2>2
  <2>4. QED
    BY <2>3
<1>4. reached(K)
  <2> HIDE DEF reached
  <2>1. 0 \in T /\ \A k \in 1 .. K : k - 1 \in T => k \in T
    BY <1>2, <1>3
  <2> HIDE DEF T
  <2>2. \A k \in 0 .. K : k \in T
    BY <2>1, InductionTo
  <2>3. QED
    BY <2>2 DEF T
<1>5. run = upTo(run, K)
    BY <1>4
<1>6. run[0] = f /\ \A k \in 1 .. K : run[k] = step(run[k - 1])
  <2> HIDE DEF run
  <2>1. \A k \in 0 .. K : run[k] = IF k = 0 THEN f ELSE step(run[k - 1])
    BY <1>5
  <2>2. QED
    BY <2>1
<1>7. QED
    BY <1>1, <1>6 DEF step, Closings

(* The k-th turn of the loop closes bucket n + k.                          *)
ClosedSince(u, k, f, n, bought, sold) ==
    Flowing(u, n + k, bought, sold) /\ u.vol = f.vol - k * BucketVolume

LEMMA ClosingFacts ==
    ASSUME NEW f, NEW n \in Nat, NEW bought \in Nat, NEW sold \in Nat,
           Flowing(f, n, bought, sold), NEW K \in Nat, K * BucketVolume <= f.vol,
           NEW run, Closings(run, K, f)
    PROVE  ClosedSince(run[K], K, f, n, bought, sold)
<1> DEFINE P(k) == ClosedSince(run[k], k, f, n, bought, sold)
           T == {k \in 0 .. K : P(k)}
<1>1. BucketVolume \in Nat \ {0} /\ f.vol \in Nat
    BY SignalAssumption DEF Flowing, VpinTyped
<1>2. P(0)
  <2>1. f.vol = f.vol - 0 * BucketVolume /\ n + 0 = n
    BY <1>1
  <2>2. run[0] = f
    BY DEF Closings
  <2>3. QED
    BY <2>1, <2>2 DEF ClosedSince
<1>3. ASSUME NEW k \in 1 .. K, P(k - 1) PROVE P(k)
  <2>1. PICK u : u = run[k - 1]
    OBVIOUS
  <2>2. run[k] = CloseBucket(u)
    BY <2>1 DEF Closings
  <2>3. u.vol = f.vol - (k - 1) * BucketVolume /\ Flowing(u, n + (k - 1), bought, sold)
    BY <1>3, <2>1 DEF ClosedSince
  <2>4. k * BucketVolume \in Nat /\ K * BucketVolume \in Nat
    BY <1>1
  <2>5. (k - 1) * BucketVolume = k * BucketVolume - BucketVolume
    BY <1>1
  <2>6. k * BucketVolume <= K * BucketVolume
    BY <1>1
  <2>7. PICK m \in Nat : m = k * BucketVolume
    BY <2>4
  <2>8. m <= f.vol
    BY <1>1, <2>4, <2>6, <2>7
  <2>9. u.vol = f.vol - m + BucketVolume
    BY <1>1, <2>3, <2>5, <2>7
  <2>10. u.vol >= BucketVolume /\ u.vol - BucketVolume = f.vol - m
    BY <1>1, <2>8, <2>9
  <2>11. OverFull(u)
    BY <2>10 DEF OverFull
  <2>12. PICK j \in Nat : j = n + (k - 1)
    OBVIOUS
  <2>13. Flowing(CloseBucket(u), j + 1, bought, sold)
         /\ CloseBucket(u).vol = u.vol - BucketVolume
    BY <2>3, <2>11, <2>12, CloseBucketFacts
  <2>14. j + 1 = n + k
    BY <2>12
  <2>15. QED
    BY <2>2, <2>7, <2>10, <2>13, <2>14 DEF ClosedSince
<1> HIDE DEF P
<1>4. 0 \in T /\ \A k \in 1 .. K : k - 1 \in T => k \in T
    BY <1>2, <1>3
<1> HIDE DEF T
<1>5. \A k \in 0 .. K : k \in T
    BY <1>4, InductionTo
<1>6. P(K)
    BY <1>5 DEF T
<1>7. QED
    BY <1>6 DEF P

(* The buckets hold the flow, and the open one is not full.                *)
HoldsFlow(v, bought, sold) ==
    \E n \in Nat : Flowing(v, n, bought, sold) /\ v.vol < BucketVolume

LEMMA VpinOnTradeFacts ==
    ASSUME NEW v, NEW bought \in Nat, NEW sold \in Nat, NEW volume \in Nat,
           HoldsFlow(v, bought, sold)
    PROVE  /\ HoldsFlow(VpinOnTrade(v, "Bid", volume), bought + volume, sold)
           /\ HoldsFlow(VpinOnTrade(v, "Ask", volume), bought, sold + volume)
<1>1. PICK n \in Nat : Flowing(v, n, bought, sold)
    BY DEF HoldsFlow
<1>2. ASSUME NEW a \in Side, NEW B \in Nat, NEW S \in Nat,
             Flowing(Filled(v, a, volume), n, B, S)
      PROVE  HoldsFlow(VpinOnTrade(v, a, volume), B, S)
  <2>1. PICK f : f = Filled(v, a, volume)
    OBVIOUS
  <2>2. Flowing(f, n, B, S)
    BY <1>2, <2>1
  <2>3. f.vol \in Nat /\ BucketVolume \in Nat \ {0}
    BY <2>2, SignalAssumption DEF Flowing, VpinTyped
  <2>4. PICK K : K = f.vol \div BucketVolume
    OBVIOUS
  <2>5. K \in Nat /\ BucketVolume * K <= f.vol /\ f.vol < BucketVolume * K + BucketVolume
    <3>1. PICK t \in Nat : t = f.vol
      BY <2>3
    <3>2. PICK V \in Nat \ {0} : V = BucketVolume
      BY <2>3
    <3>3. K = t \div V
      BY <2>4, <3>1, <3>2
    <3>4. K \in Nat /\ V * K <= t /\ t < V * K + V
      BY <3>3, QuotientIs
    <3>5. QED
      BY <3>1, <3>2, <3>4
  <2>6. PICK run : VpinOnTrade(v, a, volume) = run[K] /\ Closings(run, K, f)
    BY <2>1, <2>4, <2>5, VpinRuns
  <2>7. BucketVolume * K = K * BucketVolume
    BY <2>3, <2>5
  <2>8. ClosedSince(run[K], K, f, n, B, S)
    BY <2>2, <2>5, <2>6, <2>7, ClosingFacts
  <2>9. Flowing(run[K], n + K, B, S) /\ run[K].vol = f.vol - K * BucketVolume
    BY <2>8 DEF ClosedSince
  <2>10. PICK m \in Nat : m = K * BucketVolume
    BY <2>3, <2>5
  <2>11. f.vol < m + BucketVolume
    BY <2>5, <2>7, <2>10
  <2>12. run[K].vol < BucketVolume
    BY <2>3, <2>9, <2>10, <2>11
  <2>13. n + K \in Nat
    BY <2>5
  <2>14. QED
    BY <2>6, <2>9, <2>12, <2>13 DEF HoldsFlow
<1>3. "Bid" \in Side /\ "Ask" \in Side /\ bought + volume \in Nat /\ sold + volume \in Nat
    BY DEF Side
<1>4. QED
    BY <1>1, <1>2, <1>3, FilledFacts

(* Statistics as StatsOnTrade and StatsOnL2 leave them.                    *)
StatsFields == {"snapshots", "spread_sum", "min_spread", "max_spread", "trades", "volume", "spreads"}

LEMMA StatsOnTradeFacts ==
    ASSUME NEW st, DOMAIN st = StatsFields, NEW qty
    PROVE  /\ DOMAIN StatsOnTrade(st, qty) = StatsFields
           /\ StatsOnTrade(st, qty).trades = st.trades + 1
           /\ StatsOnTrade(st, qty).volume = st.volume + qty
           /\ StatsOnTrade(st, qty).snapshots = st.snapshots
    BY DEF StatsOnTrade, StatsFields

LEMMA StatsOnL2Facts ==
    ASSUME NEW st, DOMAIN st = StatsFields, NEW snap
    PROVE  /\ DOMAIN StatsOnL2(st, snap) = StatsFields
           /\ StatsOnL2(st, snap).trades = st.trades
           /\ StatsOnL2(st, snap).volume = st.volume
           /\ StatsOnL2(st, snap).snapshots =
                 IF InvalidPrice \in {snap.best_bid, snap.best_ask} THEN st.snapshots
                 ELSE st.snapshots + 1
<1>1. CASE InvalidPrice \in {snap.best_bid, snap.best_ask}
  <2>1. StatsOnL2(st, snap) = st
    BY <1>1 DEF StatsOnL2
  <2>2. QED
    BY <1>1, <2>1
<1>2. CASE InvalidPrice \notin {snap.best_bid, snap.best_ask}
  <2>1. PICK sum : sum = st.spread_sum + (snap.best_ask - snap.best_bid)
    OBVIOUS
  <2>2. PICK least : least = IF /\ st.min_spread # InvalidPrice
                                /\ snap.best_ask - snap.best_bid < st.min_spread
                             THEN snap.best_ask - snap.best_bid ELSE st.min_spread
    OBVIOUS
  <2>3. PICK most : most = Greater(st.max_spread, snap.best_ask - snap.best_bid)
    OBVIOUS
  <2>4. PICK all : all = IF Len(st.spreads) < MaxHistory
                         THEN Append(st.spreads, snap.best_ask - snap.best_bid) ELSE st.spreads
    OBVIOUS
  <2>5. StatsOnL2(st, snap) = [st EXCEPT !.snapshots = st.snapshots + 1, !.spread_sum = sum,
                                  !.min_spread = least, !.max_spread = most, !.spreads = all]
    BY <1>2, <2>1, <2>2, <2>3, <2>4, Zenon DEF StatsOnL2
  <2>6. QED
    BY <1>2, <2>5 DEF StatsFields
<1>3. QED
    BY <1>1, <1>2

-----------------------------------------------------------------------------
(* What trades, in every mode.                                             *)
FlowInv ==
    /\ flow \in [bought : Nat, sold : Nat]
    /\ HoldsFlow(vpin, flow.bought, flow.sold)
    /\ DOMAIN stats = StatsFields /\ stats.volume \in Nat
    /\ mode \in {"lobster", "tape"} => stats.volume = flow.bought + flow.sold

(* A trade of q, if there is one: the flow, the VPIN and the volume have   *)
(* it all, or none has.                                                    *)
Traded(a, q) == /\ vpin' = VpinOnTrade(vpin, a, q) /\ flow' = Flowed(a, q)
                /\ stats'.volume = stats.volume + q
Untraded == vpin' = vpin /\ flow' = flow /\ stats'.volume = stats.volume
FlowStep == Untraded \/ \E a \in Side, q \in Nat : Traded(a, q)

LEMMA FlowInvKept ==
    ASSUME FlowInv, mode' = mode, DOMAIN stats' = StatsFields,
           \/ FlowStep
           \/ /\ mode \notin {"lobster", "tape"} /\ stats' = stats
              /\ \E a \in Side, q \in Nat :
                    vpin' = VpinOnTrade(vpin, a, q) /\ flow' = Flowed(a, q)
    PROVE  FlowInv'
<1>1. flow \in [bought : Nat, sold : Nat] /\ flow.bought \in Nat /\ flow.sold \in Nat
    BY DEF FlowInv
<1>2. HoldsFlow(vpin, flow.bought, flow.sold) /\ stats.volume \in Nat
    BY DEF FlowInv
<1>3. ASSUME NEW a \in Side, NEW q \in Nat,
             vpin' = VpinOnTrade(vpin, a, q), flow' = Flowed(a, q)
      PROVE  /\ flow' \in [bought : Nat, sold : Nat]
             /\ flow'.bought + flow'.sold = flow.bought + flow.sold + q
             /\ HoldsFlow(vpin', flow'.bought, flow'.sold)
  <2>1. /\ HoldsFlow(VpinOnTrade(vpin, "Bid", q), flow.bought + q, flow.sold)
        /\ HoldsFlow(VpinOnTrade(vpin, "Ask", q), flow.bought, flow.sold + q)
    BY <1>1, <1>2, VpinOnTradeFacts
  <2>2. CASE a = "Bid"
    <3>1. /\ flow' \in [bought : Nat, sold : Nat]
          /\ flow'.bought = flow.bought + q /\ flow'.sold = flow.sold
      BY <1>1, <1>3, <2>2 DEF Flowed
    <3>2. QED
      BY <1>1, <1>3, <2>1, <2>2, <3>1
  <2>3. CASE a = "Ask"
    <3>1. /\ flow' \in [bought : Nat, sold : Nat]
          /\ flow'.bought = flow.bought /\ flow'.sold = flow.sold + q
      BY <1>1, <1>3, <2>3 DEF Flowed
    <3>2. QED
      BY <1>1, <1>3, <2>1, <2>3, <3>1
  <2>4. QED
    BY <2>2, <2>3 DEF Side
<1>4. CASE Untraded
    BY <1>4 DEF FlowInv, Untraded
<1>5. ASSUME NEW a \in Side, NEW q \in Nat, Traded(a, q) PROVE FlowInv'
  <2>1. vpin' = VpinOnTrade(vpin, a, q) /\ flow' = Flowed(a, q) /\ stats'.volume = stats.volume + q
    BY <1>5 DEF Traded
  <2>2. /\ flow' \in [bought : Nat, sold : Nat]
        /\ flow'.bought + flow'.sold = flow.bought + flow.sold + q
        /\ HoldsFlow(vpin', flow'.bought, flow'.sold)
    BY <1>3, <2>1
  <2>3. stats'.volume \in Nat
    BY <1>2, <2>1
  <2>4. mode \in {"lobster", "tape"} => stats'.volume = flow'.bought + flow'.sold
    BY <2>1, <2>2 DEF FlowInv
  <2>5. QED
    BY <2>2, <2>3, <2>4 DEF FlowInv
<1>6. ASSUME NEW a \in Side, NEW q \in Nat, mode \notin {"lobster", "tape"}, stats' = stats,
             vpin' = VpinOnTrade(vpin, a, q), flow' = Flowed(a, q)
      PROVE  FlowInv'
  <2>1. flow' \in [bought : Nat, sold : Nat] /\ HoldsFlow(vpin', flow'.bought, flow'.sold)
    BY <1>3, <1>6
  <2>2. QED
    BY <1>2, <1>6, <2>1 DEF FlowInv
<1>7. QED
    BY <1>4, <1>5, <1>6 DEF FlowStep

LEMMA LinesTyped ==
    ASSUME NEW msg \in Messages
    PROVE  /\ msg.size \in Nat /\ msg.price \in Prices /\ msg.order_id \in Ids
           /\ msg.type \in EventTypes /\ DirectionToSide(msg.direction) \in Side
<1>1. msg \in Line
    BY SessionAssumption DEF Messages
<1>2. QED
    BY <1>1 DEF Line, DirectionToSide, Side

LEMMA FlowInvInit == Init => FlowInv
<1> SUFFICES ASSUME Init PROVE FlowInv
    OBVIOUS
<1>1. flow = [bought |-> 0, sold |-> 0] /\ stats = NewStats /\ vpin = NewVpin
    BY DEF Init
<1>2. Flowing(NewVpin, 0, 0, 0)
  <2>1. PICK Q : Q = Seq(0 .. Unit)
    OBVIOUS
  <2>2. <<>> \in Q
    BY <2>1
  <2>3. VpinTyped(NewVpin)
    <3>1. NewVpin \in [buy : Nat, sell : Nat, vol : Nat, buckets : Q]
      BY <2>2 DEF NewVpin
    <3>2. QED
      BY <2>1, <3>1 DEF VpinTyped
  <2>4. NewVpin.buy = 0 /\ NewVpin.sell = 0 /\ NewVpin.vol = 0 /\ NewVpin.buckets = <<>>
    BY DEF NewVpin
  <2>5. 0 * BucketVolume = 0 /\ BucketCount \in Nat \ {0}
    BY SignalAssumption
  <2>6. Whole(NewVpin, 0, 0 + 0) /\ Shared(NewVpin, 0) /\ KeptLast(NewVpin.buckets, 0)
    BY <2>4, <2>5 DEF Whole, Shared, KeptLast
  <2>7. Sided(NewVpin, 0, 0)
    BY <2>4 DEF Sided, AllUnit
  <2>8. QED
    BY <2>3, <2>6, <2>7 DEF Flowing
<1>3. HoldsFlow(NewVpin, 0, 0)
  <2>1. NewVpin.vol < BucketVolume
    BY SignalAssumption DEF NewVpin
  <2>2. QED
    BY <1>2, <2>1 DEF HoldsFlow
<1>4. DOMAIN NewStats = StatsFields /\ NewStats.volume = 0
    BY DEF NewStats, StatsFields
<1>5. QED
    BY <1>1, <1>3, <1>4 DEF FlowInv

LEMMA ReplayFlow ==
    ASSUME FlowInv, NEW msg \in Messages, ReplayMessage(msg)
    PROVE  FlowInv'
<1> DEFINE aggressor == DirectionToSide(msg.direction)
           executed == Apply(book, msg).ok /\ Executes(msg)
           traded == IF executed THEN StatsOnTrade(stats, msg.size) ELSE stats
           snap == L2Snapshot(Apply(book, msg).book, Depth)
           due == event % SampleEvery = 0
<1>1. /\ vpin' = IF executed THEN VpinOnTrade(vpin, aggressor, msg.size) ELSE vpin
      /\ flow' = IF executed THEN Flowed(aggressor, msg.size) ELSE flow
      /\ stats' = IF due THEN StatsOnL2(traded, snap) ELSE traded
      /\ mode' = mode
    BY Zenon DEF ReplayMessage
<1>2. aggressor \in Side /\ msg.size \in Nat
    BY LinesTyped
<1>3. DOMAIN stats = StatsFields
    BY DEF FlowInv
<1> HIDE DEF aggressor, executed, snap, due
<1>4. /\ DOMAIN traded = StatsFields
      /\ traded.volume = IF executed THEN stats.volume + msg.size ELSE stats.volume
    BY <1>3, StatsOnTradeFacts
<1> HIDE DEF traded
<1>5. DOMAIN stats' = StatsFields /\ stats'.volume = traded.volume
    BY <1>1, <1>4, StatsOnL2Facts
<1>6. CASE executed
  <2>1. Traded(aggressor, msg.size)
    BY <1>1, <1>4, <1>5, <1>6 DEF Traded
  <2>2. QED
    BY <1>1, <1>2, <1>5, <2>1, FlowInvKept DEF FlowStep
<1>7. CASE ~ executed
  <2>1. Untraded
    BY <1>1, <1>4, <1>5, <1>7 DEF Untraded
  <2>2. QED
    BY <1>1, <1>5, <2>1, FlowInvKept DEF FlowStep
<1>8. QED
    BY <1>6, <1>7

LEMMA TapeFlow ==
    ASSUME FlowInv, NEW t \in Tape, TapeTrade(t)
    PROVE  FlowInv'
<1> DEFINE aggressor == IF t.buyer_is_maker THEN "Ask" ELSE "Bid"
<1>1. /\ vpin' = VpinOnTrade(vpin, aggressor, ParsedQty(t.lots))
      /\ flow' = Flowed(aggressor, ParsedQty(t.lots))
      /\ stats' = StatsOnTrade(stats, ParsedQty(t.lots)) /\ mode' = mode
    BY Zenon DEF TapeTrade
<1>2. ParsedQty(t.lots) \in Nat
  <2>1. t.lots \in Nat /\ LotsPerUnit \in Nat \ {0}
    BY SessionAssumption
  <2>2. QED
    BY <2>1, QuotientIs DEF ParsedQty
<1>3. aggressor \in Side
    BY DEF Side
<1>4. DOMAIN stats = StatsFields
    BY DEF FlowInv
<1> HIDE DEF aggressor
<1>5. DOMAIN stats' = StatsFields /\ Traded(aggressor, ParsedQty(t.lots))
    BY <1>1, <1>4, StatsOnTradeFacts DEF Traded
<1>6. QED
    BY <1>1, <1>2, <1>3, <1>5, FlowInvKept DEF FlowStep

LEMMA SimulationFlow ==
    ASSUME FlowInv, NEW price, NEW qty, SimulationStep(price, qty)
    PROVE  FlowInv'
<1> DEFINE aggressor == IF event % 2 = 0 THEN "Bid" ELSE "Ask"
           fed == event % FlowEvery = 0
<1>1. /\ vpin' = IF fed THEN VpinOnTrade(vpin, aggressor, SimulatedVolume) ELSE vpin
      /\ flow' = IF fed THEN Flowed(aggressor, SimulatedVolume) ELSE flow
      /\ stats' = stats /\ mode' = mode /\ mode = "simulation"
    BY Zenon DEF SimulationStep, Running, lobster
<1>2. aggressor \in Side /\ SimulatedVolume \in Nat
    BY SessionAssumption DEF Side
<1>3. DOMAIN stats' = StatsFields
    BY <1>1 DEF FlowInv
<1> HIDE DEF aggressor, fed
<1>4. CASE fed
  <2>1. \E a \in Side, q \in Nat : vpin' = VpinOnTrade(vpin, a, q) /\ flow' = Flowed(a, q)
    BY <1>1, <1>2, <1>4
  <2>2. mode \notin {"lobster", "tape"} /\ stats' = stats /\ mode' = mode
    BY <1>1
  <2>3. QED
    BY <1>3, <2>1, <2>2, FlowInvKept
<1>5. CASE ~ fed
  <2>1. Untraded
    BY <1>1, <1>5 DEF Untraded
  <2>2. QED
    BY <1>1, <1>3, <2>1, FlowInvKept DEF FlowStep
<1>6. QED
    BY <1>4, <1>5

LEMMA FlowInvNext ==
    ASSUME FlowInv, [Next]_vars
    PROVE  FlowInv'
<1>1. ASSUME vpin' = vpin, flow' = flow, stats' = stats, mode' = mode PROVE FlowInv'
    BY <1>1 DEF FlowInv
<1>2. CASE \E msg \in Messages : ReplayMessage(msg)
    BY <1>2, ReplayFlow
<1>3. CASE \E t \in Tape : TapeTrade(t)
    BY <1>3, TapeFlow
<1>4. CASE \E price \in Jitter, qty \in Quantities : SimulationStep(price, qty)
    BY <1>4, SimulationFlow
<1>5. CASE \E signal \in BarSignals, mid \in BarMids : Bar(signal, mid)
    BY <1>1, <1>5 DEF Bar, signals, lobster
<1>6. CASE Reset
    BY <1>1, <1>6 DEF Reset, signals, lobster
<1>7. ASSUME Concluded PROVE FlowInv'
    BY <1>1, <1>7 DEF Concluded, signals, lobster
<1>8. CASE AskResult
    BY <1>7, <1>8 DEF AskResult
<1>9. CASE ReplayEnded \/ TapeEnded \/ SimulationReported
    BY <1>7, <1>9 DEF ReplayEnded, TapeEnded, SimulationReported, Ended
<1>10. CASE UNCHANGED vars
    BY <1>1, <1>10 DEF vars, signals, lobster
<1>11. QED
    BY <1>2, <1>3, <1>4, <1>5, <1>6, <1>8, <1>9, <1>10 DEF Next

(* What the invariant says of the buckets.                                 *)
LEMMA FlowInvSays == FlowInv => BucketsAreTheFlow
<1> SUFFICES ASSUME FlowInv PROVE BucketsAreTheFlow
    OBVIOUS
<1>1. flow.bought \in Nat /\ flow.sold \in Nat
    BY DEF FlowInv
<1>2. PICK n \in Nat : Flowing(vpin, n, flow.bought, flow.sold) /\ vpin.vol < BucketVolume
    BY DEF FlowInv, HoldsFlow
<1>3. /\ vpin.buy \in Nat /\ vpin.sell \in Nat /\ vpin.vol \in Nat
      /\ vpin.buckets \in Seq(0 .. Unit)
    BY <1>2 DEF Flowing, VpinTyped
<1>4. PICK F \in Nat : F = FlowVolume
    BY <1>1 DEF FlowVolume
<1>5. n * BucketVolume + vpin.vol = F
    BY <1>2, <1>4 DEF Flowing, Whole, FlowVolume
<1>6. F % BucketVolume = vpin.vol /\ F \div BucketVolume = n
  <2>1. PICK V \in Nat \ {0} : V = BucketVolume
    BY SignalAssumption
  <2>2. PICK r \in 0 .. V - 1 : r = vpin.vol
    BY <1>2, <1>3, <2>1
  <2>3. V * n + r = F
    BY <1>5, <2>1, <2>2
  <2>4. F % V = r /\ F \div V = n
    BY <2>3, WholesIs
  <2>5. QED
    BY <2>1, <2>2, <2>4
<1>7. Shared(vpin, n) /\ KeptLast(vpin.buckets, n) /\ Sided(vpin, flow.bought, flow.sold)
    BY <1>2 DEF Flowing
<1>8. BucketsAreVolume
  <2>1. mode \in {"lobster", "tape"} => stats.volume = FlowVolume
    BY DEF FlowInv, FlowVolume
  <2>2. QED
    BY <1>4, <1>6, <1>7, <2>1 DEF BucketsAreVolume, KeptLast
<1>9. ImbalanceIsAShare
  <2>1. vpin.buy + vpin.sell \in vpin.vol - n .. vpin.vol
    BY <1>3, <1>7 DEF Shared
  <2>2. ASSUME NEW i \in DOMAIN vpin.buckets
        PROVE  vpin.buckets[i] \in 0 .. Unit
               /\ (0 \in {flow.bought, flow.sold} => vpin.buckets[i] = Unit)
    <3>1. i \in 1 .. Len(vpin.buckets) /\ vpin.buckets[i] \in 0 .. Unit
      <4>1. PICK S : S = 0 .. Unit
        OBVIOUS
      <4>2. vpin.buckets \in Seq(S)
        BY <1>3, <4>1
      <4>3. i \in 1 .. Len(vpin.buckets) /\ vpin.buckets[i] \in S
        BY <4>2
      <4>4. QED
        BY <4>1, <4>3
    <3>2. QED
      BY <1>7, <3>1 DEF Sided, AllUnit
  <2>3. QED
    BY <1>4, <1>6, <2>1, <2>2 DEF ImbalanceIsAShare
<1>10. QED
    BY <1>8, <1>9 DEF BucketsAreTheFlow

(* The buckets of the VPIN are made of the flow that went in (vpin.hpp:24),*)
(* for every trade, however many buckets it fills.                         *)
THEOREM VpinHoldsTheFlow == Spec => []BucketsAreTheFlow
<1>1. Init => FlowInv
    BY FlowInvInit
<1>2. FlowInv /\ [Next]_vars => FlowInv'
    BY FlowInvNext
<1>3. FlowInv => BucketsAreTheFlow
    BY FlowInvSays
<1>4. QED
    BY <1>1, <1>2, <1>3, PTL DEF Spec

-----------------------------------------------------------------------------
(* FoldSet adds as Summed does.                                            *)
LEMMA SummedIs ==
    ASSUME NEW S, IsFiniteSet(S), NEW f, NEW total, Summed(f, S, total)
    PROVE  SumOver(f, S) = total
<1>1. PICK g \in [SUBSET S -> Int] : Adds(g, f, S) /\ g[S] = total
    BY DEF Summed
<1> DEFINE body(h) == [s \in SUBSET S |-> IF s = {} THEN 0
                          ELSE f[CHOOSE x \in s : TRUE] + h[s \ {CHOOSE x \in s : TRUE}]]
           iter == CHOOSE h : h = body(h)
<1>2. SumOver(f, S) = iter[S]
    BY DEF SumOver, FoldSet, MapThenFoldSet
<1>3. g = body(g)
  <2>1. g = [s \in SUBSET S |-> g[s]]
    OBVIOUS
  <2>2. ASSUME NEW s \in SUBSET S
        PROVE  g[s] = IF s = {} THEN 0
                      ELSE f[CHOOSE x \in s : TRUE] + g[s \ {CHOOSE x \in s : TRUE}]
    BY <1>1 DEF Adds
  <2>3. QED
    BY <2>1, <2>2
<1>4. iter = body(iter)
    BY <1>3
<1>5. Adds(iter, f, S)
  <2> HIDE DEF iter
  <2>1. \A s \in SUBSET S : iter[s] = IF s = {} THEN 0
                      ELSE f[CHOOSE x \in s : TRUE] + iter[s \ {CHOOSE x \in s : TRUE}]
    BY <1>4
  <2>2. DOMAIN iter = SUBSET S
    BY <1>4
  <2>3. QED
    BY <2>1, <2>2 DEF Adds
<1>6. QED
    BY <1>1, <1>2, <1>5, AddsAlike

-----------------------------------------------------------------------------
(* What an operation does to the quantity at a price and to the shares.    *)
OthersSame(b, c, oid) == \A x \in Ids : x # oid => c.orders[x] = b.orders[x]

LEMMA SameQtys ==
    ASSUME NEW b \in Book, QueuesHold(b, Resting(b)), NEW k \in LevelKeys,
           NEW c, c.queue[k] = b.queue[k], NEW oid, OthersSame(b, c, oid), ~ Has(b.queue[k], oid)
    PROVE  LevelQty(c, k) = LevelQty(b, k)
<1>1. \A i \in 1 .. Len(b.queue[k]) : c.orders[b.queue[k][i]] = b.orders[b.queue[k][i]]
    BY QtysAtTyped DEF Resting, OthersSame, Has
<1>2. QtysAt(c, k) = QtysAt(b, k)
    BY <1>1 DEF QtysAt
<1>3. QED
    BY <1>2 DEF LevelQty, QtysAt

LEMMA LevelQtyAppended ==
    ASSUME NEW b \in Book, QueuesHold(b, Resting(b)), NEW oid \in Ids, oid \notin Resting(b),
           NEW o \in Order, NEW app, app = AppendOrder(b, oid, o), NEW k \in LevelKeys
    PROVE  LevelQty(app, k) = IF k = LevelOf(o) THEN LevelQty(b, k) + o.qty ELSE LevelQty(b, k)
<1>1. /\ app.orders[oid] = o
      /\ \A x \in Ids : x # oid => app.orders[x] = b.orders[x]
      /\ app.queue[LevelOf(o)] = Append(b.queue[LevelOf(o)], oid)
      /\ \A h \in LevelKeys : h # LevelOf(o) => app.queue[h] = b.queue[h]
    BY AppendOrderFacts
<1>2. /\ b.queue[k] \in Seq(Ids) /\ Len(b.queue[k]) \in Nat
      /\ QtysAt(b, k) \in Seq(Int) /\ Len(QtysAt(b, k)) = Len(b.queue[k])
      /\ \A i \in 1 .. Len(b.queue[k]) :
            b.queue[k][i] \in Resting(b) /\ QtysAt(b, k)[i] = b.orders[b.queue[k][i]].qty
      /\ LevelQty(b, k) = Total(QtysAt(b, k))
    BY QtysAtTyped
<1>3. ~ Has(b.queue[k], oid) /\ OthersSame(b, app, oid)
    BY <1>1, <1>2 DEF Has, OthersSame
<1>4. CASE k # LevelOf(o)
  <2>1. app.queue[k] = b.queue[k]
    BY <1>1, <1>4
  <2>2. LevelQty(app, k) = LevelQty(b, k)
    BY <1>3, <2>1, SameQtys
  <2>3. QED
    BY <1>4, <2>2
<1>5. CASE k = LevelOf(o)
  <2>1. PICK n \in Nat : n = Len(b.queue[k])
    BY <1>2
  <2>2. app.queue[k] = Append(b.queue[k], oid)
    BY <1>1, <1>5
  <2>3. /\ Len(app.queue[k]) = n + 1
        /\ \A i \in 1 .. n + 1 : app.queue[k][i] = IF i = n + 1 THEN oid ELSE b.queue[k][i]
    BY <1>2, <2>1, <2>2, AppendFacts
  <2>4. PICK w : w = Append(QtysAt(b, k), o.qty)
    OBVIOUS
  <2>5. o.qty \in Int
    BY DEF Order
  <2>6. /\ w \in Seq(Int) /\ Len(w) = n + 1
        /\ \A i \in 1 .. n + 1 : w[i] = IF i = n + 1 THEN o.qty ELSE QtysAt(b, k)[i]
    BY <1>2, <2>1, <2>4, <2>5, AppendFacts
  <2>7. ASSUME NEW i \in 1 .. n + 1 PROVE w[i] = app.orders[app.queue[k][i]].qty
    <3>1. CASE i = n + 1
      BY <1>1, <2>3, <2>6, <3>1
    <3>2. CASE i # n + 1
      <4>1. i \in 1 .. Len(b.queue[k])
        BY <2>1, <3>2
      <4>2. w[i] = b.orders[b.queue[k][i]].qty /\ app.queue[k][i] = b.queue[k][i]
        BY <1>2, <2>3, <2>6, <3>2, <4>1
      <4>3. app.orders[b.queue[k][i]] = b.orders[b.queue[k][i]]
        BY <1>1, <1>2, <4>1 DEF Resting
      <4>4. QED
        BY <4>2, <4>3
    <3>3. QED
      BY <3>1, <3>2
  <2>8. QtysAt(app, k) = w
    <3>1. QtysAt(app, k) = [i \in 1 .. n + 1 |-> app.orders[app.queue[k][i]].qty]
      BY <2>3 DEF QtysAt
    <3>2. w = [i \in 1 .. n + 1 |-> w[i]]
      BY <2>6
    <3>3. QED
      BY <2>7, <3>1, <3>2
  <2>9. LevelQty(app, k) = Total(w)
    BY <2>8 DEF LevelQty, QtysAt
  <2>10. Total(w) = Total(QtysAt(b, k)) + o.qty
    BY <1>2, <2>4, <2>5, TotalOfAppend
  <2>11. QED
    BY <1>2, <1>5, <2>9, <2>10
<1>6. QED
    BY <1>4, <1>5

LEMMA LevelQtyResized ==
    ASSUME NEW b \in Book, QueuesHold(b, Resting(b)), NEW oid \in Resting(b), NEW qty \in Int,
           NEW re, re = Resized(b, oid, qty), NEW k \in LevelKeys
    PROVE  LevelQty(re, k) = IF k = LevelOf(b.orders[oid])
                             THEN LevelQty(b, k) + (qty - b.orders[oid].qty) ELSE LevelQty(b, k)
<1>1. oid \in Ids /\ b.orders[oid] \in Order /\ LevelOf(b.orders[oid]) \in LevelKeys
    BY RestingTyped
<1>2. /\ re.queue = b.queue /\ re.orders[oid].qty = qty
      /\ \A x \in Ids : x # oid => re.orders[x] = b.orders[x]
  <2>1. re.orders = [b.orders EXCEPT ![oid] = [b.orders[oid] EXCEPT !.qty = qty]]
    BY DEF Resized, Book
  <2>2. re.queue = b.queue
    BY ResizedFacts
  <2>3. [b.orders[oid] EXCEPT !.qty = qty].qty = qty
    BY <1>1 DEF Order
  <2>4. b.orders \in [Ids -> Order \union {NoOrder}]
    BY DEF Book
  <2>5. QED
    BY <1>1, <2>1, <2>2, <2>3, <2>4
<1>3. /\ b.queue[k] \in Seq(Ids) /\ Len(b.queue[k]) \in Nat
      /\ QtysAt(b, k) \in Seq(Int) /\ Len(QtysAt(b, k)) = Len(b.queue[k])
      /\ \A i \in 1 .. Len(b.queue[k]) :
            b.queue[k][i] \in Resting(b) /\ QtysAt(b, k)[i] = b.orders[b.queue[k][i]].qty
      /\ LevelQty(b, k) = Total(QtysAt(b, k))
    BY QtysAtTyped
<1>4. CASE k # LevelOf(b.orders[oid])
  <2>1. ~ Has(b.queue[k], oid)
    BY <1>4 DEF QueuesHold, Has
  <2>4. re.queue[k] = b.queue[k] /\ OthersSame(b, re, oid)
    BY <1>2 DEF OthersSame
  <2>2. LevelQty(re, k) = LevelQty(b, k)
    BY <2>1, <2>4, SameQtys
  <2>3. QED
    BY <1>4, <2>2
<1>5. CASE k = LevelOf(b.orders[oid])
  <2>1. PICK j \in 1 .. Len(b.queue[k]) : b.queue[k][j] = oid
    BY <1>5 DEF QueuesHold
  <2>2. \A i \in 1 .. Len(b.queue[k]) : b.queue[k][i] = oid => i = j
    BY <2>1 DEF QueuesHold
  <2>3. PICK w : w = [QtysAt(b, k) EXCEPT ![j] = qty]
    OBVIOUS
  <2>4. PICK n \in Nat : n = Len(b.queue[k])
    BY <1>3
  <2>5. QtysAt(b, k) = [i \in 1 .. n |-> QtysAt(b, k)[i]]
    BY <1>3, <2>4
  <2>6. w = [i \in 1 .. n |-> IF i = j THEN qty ELSE QtysAt(b, k)[i]]
    BY <2>3, <2>5
  <2>7. ASSUME NEW i \in 1 .. n
        PROVE  re.orders[re.queue[k][i]].qty = IF i = j THEN qty ELSE QtysAt(b, k)[i]
    <3>1. CASE i = j
      BY <1>2, <2>1, <3>1
    <3>2. CASE i # j
      <4>1. i \in 1 .. Len(b.queue[k])
        BY <2>4
      <4>2. b.queue[k][i] # oid /\ b.queue[k][i] \in Ids
        BY <1>3, <2>2, <3>2, <4>1 DEF Resting
      <4>3. QED
        BY <1>2, <1>3, <3>2, <4>1, <4>2
    <3>3. QED
      BY <3>1, <3>2
  <2>8. QtysAt(re, k) = w
    <3>1. QtysAt(re, k) = [i \in 1 .. n |-> re.orders[re.queue[k][i]].qty]
      BY <1>2, <2>4 DEF QtysAt
    <3>2. QED
      BY <2>6, <2>7, <3>1
  <2>9. j \in 1 .. Len(QtysAt(b, k))
    BY <1>3, <2>1
  <2>10. Total(w) = Total(QtysAt(b, k)) + (qty - QtysAt(b, k)[j])
    BY <1>3, <2>3, <2>9, TotalOfChanged
  <2>11. LevelQty(re, k) = Total(w) /\ QtysAt(b, k)[j] = b.orders[oid].qty
    BY <1>3, <2>1, <2>8 DEF LevelQty, QtysAt
  <2>12. QED
    BY <1>3, <1>5, <2>10, <2>11
<1>6. QED
    BY <1>4, <1>5

LEMMA LevelQtyDropped ==
    ASSUME NEW b \in Book, QueuesHold(b, Resting(b)), NEW oid \in Resting(b),
           NEW dr, dr = Dropped(b, oid), NEW k \in LevelKeys
    PROVE  LevelQty(dr, k) = IF k = LevelOf(b.orders[oid])
                             THEN LevelQty(b, k) - b.orders[oid].qty ELSE LevelQty(b, k)
<1>1. oid \in Ids /\ b.orders[oid] \in Order /\ LevelOf(b.orders[oid]) \in LevelKeys
    BY RestingTyped
<1>2. PICK h : h = LevelOf(b.orders[oid])
    OBVIOUS
<1>3. /\ dr.queue = [b.queue EXCEPT ![h] = WithoutId(b.queue[h], oid)]
      /\ dr.orders = [b.orders EXCEPT ![oid] = NoOrder]
  <2>1. dr.orders = [b.orders EXCEPT ![oid] = NoOrder]
    BY DroppedFacts
  <2>2. dr.queue = [b.queue EXCEPT ![h] = WithoutId(b.queue[h], oid)]
    BY <1>2 DEF Dropped, OffLevel, Book
  <2>3. QED
    BY <2>1, <2>2
<1>4. /\ b.queue \in [LevelKeys -> Seq(Ids)] /\ b.orders \in [Ids -> Order \union {NoOrder}]
    BY DEF Book
<1>5. /\ b.queue[k] \in Seq(Ids) /\ Len(b.queue[k]) \in Nat
      /\ QtysAt(b, k) \in Seq(Int) /\ Len(QtysAt(b, k)) = Len(b.queue[k])
      /\ \A i \in 1 .. Len(b.queue[k]) :
            b.queue[k][i] \in Resting(b) /\ QtysAt(b, k)[i] = b.orders[b.queue[k][i]].qty
      /\ LevelQty(b, k) = Total(QtysAt(b, k))
    BY QtysAtTyped
<1>6. \A x \in Ids : x # oid => dr.orders[x] = b.orders[x]
    BY <1>3, <1>4
<1>7. CASE k # h
  <2>1. ~ Has(b.queue[k], oid)
    BY <1>2, <1>7 DEF QueuesHold, Has
  <2>2. dr.queue[k] = b.queue[k]
    BY <1>3, <1>4, <1>7
  <2>5. OthersSame(b, dr, oid)
    BY <1>6 DEF OthersSame
  <2>3. LevelQty(dr, k) = LevelQty(b, k)
    BY <2>1, <2>2, <2>5, SameQtys
  <2>4. QED
    BY <1>2, <1>7, <2>3
<1>8. CASE k = h
  <2>1. PICK j \in 1 .. Len(b.queue[k]) : b.queue[k][j] = oid
    BY <1>2, <1>8 DEF QueuesHold
  <2>2. \A i \in 1 .. Len(b.queue[k]) : b.queue[k][i] = oid => i = j
    BY <2>1 DEF QueuesHold
  <2>3. PICK n \in Nat : n = Len(b.queue[k])
    BY <1>5
  <2>4. dr.queue[k] = RemoveAt(b.queue[k], j)
    <3>1. dr.queue[k] = WithoutId(b.queue[k], oid)
      BY <1>3, <1>4, <1>8
    <3>2. QED
      BY <2>1, <2>2, <3>1, WithoutIdIsRemoveAt
  <2>5. /\ Len(dr.queue[k]) = n - 1
        /\ \A i \in 1 .. n - 1 : dr.queue[k][i] = IF i < j THEN b.queue[k][i] ELSE b.queue[k][i + 1]
    <3>1. PICK q \in Seq(Ids) : q = b.queue[k]
      BY <1>5
    <3>2. j \in 1 .. Len(q) /\ dr.queue[k] = RemoveAt(q, j) /\ Len(q) = n
      BY <2>3, <2>4, <3>1
    <3>3. /\ Len(RemoveAt(q, j)) = n - 1
          /\ \A i \in 1 .. n - 1 : RemoveAt(q, j)[i] = IF i < j THEN q[i] ELSE q[i + 1]
      BY <3>2, RemoveAtFacts
    <3>4. QED
      BY <3>1, <3>2, <3>3
  <2>6. PICK w : w = RemoveAt(QtysAt(b, k), j)
    OBVIOUS
  <2>7. j \in 1 .. Len(QtysAt(b, k)) /\ Len(QtysAt(b, k)) = n
    BY <1>5, <2>1, <2>3
  <2>8. /\ w \in Seq(Int) /\ Len(w) = n - 1
        /\ \A i \in 1 .. n - 1 : w[i] = IF i < j THEN QtysAt(b, k)[i] ELSE QtysAt(b, k)[i + 1]
    BY <1>5, <2>6, <2>7, RemoveAtFacts
  <2>9. ASSUME NEW i \in 1 .. n - 1 PROVE w[i] = dr.orders[dr.queue[k][i]].qty
    <3>1. PICK m : m = IF i < j THEN i ELSE i + 1
      OBVIOUS
    <3>6. m \in 1 .. n /\ m # j
      BY <2>3, <3>1
    <3>7. w[i] = QtysAt(b, k)[m]
      BY <2>8, <3>1
    <3>8. dr.queue[k][i] = b.queue[k][m]
      BY <2>5, <3>1
    <3>2. m # j /\ w[i] = QtysAt(b, k)[m] /\ dr.queue[k][i] = b.queue[k][m]
      BY <3>6, <3>7, <3>8
    <3>3. m \in 1 .. Len(b.queue[k])
      BY <2>3, <3>6
    <3>4. b.queue[k][m] # oid /\ b.queue[k][m] \in Ids /\ QtysAt(b, k)[m] = b.orders[b.queue[k][m]].qty
      BY <1>5, <2>2, <3>2, <3>3 DEF Resting
    <3>5. QED
      BY <1>6, <3>2, <3>4
  <2>10. QtysAt(dr, k) = w
    <3>1. QtysAt(dr, k) = [i \in 1 .. n - 1 |-> dr.orders[dr.queue[k][i]].qty]
      BY <2>5 DEF QtysAt
    <3>2. w = [i \in 1 .. n - 1 |-> w[i]]
      BY <2>8
    <3>3. QED
      BY <2>9, <3>1, <3>2
  <2>11. Total(w) = Total(QtysAt(b, k)) - QtysAt(b, k)[j]
    BY <1>5, <2>6, <2>7, TotalOfRemoveAt
  <2>12. LevelQty(dr, k) = Total(w) /\ QtysAt(b, k)[j] = b.orders[oid].qty
    BY <1>5, <2>1, <2>10 DEF LevelQty, QtysAt
  <2>13. QED
    BY <1>2, <1>5, <1>8, <2>11, <2>12
<1>9. QED
    BY <1>2, <1>7, <1>8

-----------------------------------------------------------------------------
(* What a message of a replay does to the book.                            *)
NothingNegative(b) == \A x \in Resting(b) : b.orders[x].qty \in Nat

SharesChange(b, c, oid, left) ==
    /\ \A x \in Ids : x # oid => Shares(c)[x] = Shares(b)[x]
    /\ Shares(c)[oid] = left /\ left \in Nat

LEMMA SharesTyped ==
    ASSUME NEW b \in Book, NothingNegative(b)
    PROVE  /\ Shares(b) \in [Ids -> Nat]
           /\ \A x \in Ids : Shares(b)[x] = IF x \in Resting(b) THEN b.orders[x].qty ELSE 0
    BY DEF Shares, NothingNegative

LEMMA SharesAppended ==
    ASSUME NEW b \in Book, QueuesHold(b, Resting(b)), NothingNegative(b), NEW oid \in Ids,
           oid \notin Resting(b), NEW o \in Order, o.qty \in Nat,
           NEW app, app = AppendOrder(b, oid, o)
    PROVE  /\ NothingNegative(app) /\ SharesChange(b, app, oid, o.qty)
           /\ Resting(app) = Resting(b) \union {oid}
<1>1. /\ app \in Book /\ app.orders[oid] = o
      /\ \A x \in Ids : x # oid => app.orders[x] = b.orders[x]
      /\ Resting(app) = Resting(b) \union {oid}
    BY AppendOrderFacts
<1>2. NothingNegative(app)
    BY <1>1 DEF NothingNegative, Resting
<1>3. SharesChange(b, app, oid, o.qty)
    BY <1>1 DEF SharesChange, Shares
<1>4. QED
    BY <1>1, <1>2, <1>3

LEMMA SharesResized ==
    ASSUME NEW b \in Book, QueuesHold(b, Resting(b)), NothingNegative(b), NEW oid \in Resting(b),
           NEW qty \in Nat, NEW re, re = Resized(b, oid, qty)
    PROVE  /\ NothingNegative(re) /\ SharesChange(b, re, oid, qty)
           /\ Resting(re) = Resting(b)
<1>1. oid \in Ids /\ b.orders[oid] \in Order
    BY RestingTyped
<1>2. re \in Book /\ Resting(re) = Resting(b)
    BY ResizedFacts
<1>3. re.orders[oid].qty = qty /\ \A x \in Ids : x # oid => re.orders[x] = b.orders[x]
  <2>1. re.orders = [b.orders EXCEPT ![oid] = [b.orders[oid] EXCEPT !.qty = qty]]
    BY DEF Resized, Book
  <2>2. [b.orders[oid] EXCEPT !.qty = qty].qty = qty
    BY <1>1 DEF Order
  <2>3. b.orders \in [Ids -> Order \union {NoOrder}]
    BY DEF Book
  <2>4. QED
    BY <1>1, <2>1, <2>2, <2>3
<1>4. NothingNegative(re)
    BY <1>2, <1>3 DEF NothingNegative, Resting
<1>5. SharesChange(b, re, oid, qty)
    BY <1>1, <1>2, <1>3 DEF SharesChange, Shares
<1>6. QED
    BY <1>2, <1>4, <1>5

LEMMA SharesDropped ==
    ASSUME NEW b \in Book, QueuesHold(b, Resting(b)), NothingNegative(b), NEW oid \in Resting(b),
           NEW dr, dr = Dropped(b, oid)
    PROVE  /\ NothingNegative(dr) /\ SharesChange(b, dr, oid, 0)
           /\ Resting(dr) = Resting(b) \ {oid}
<1>1. oid \in Ids
    BY RestingTyped
<1>2. /\ dr \in Book /\ dr.orders = [b.orders EXCEPT ![oid] = NoOrder]
      /\ Resting(dr) = Resting(b) \ {oid}
    BY DroppedFacts
<1>3. \A x \in Ids : x # oid => dr.orders[x] = b.orders[x]
    BY <1>2 DEF Book
<1>4. NothingNegative(dr)
    BY <1>2, <1>3 DEF NothingNegative, Resting
<1>5. SharesChange(b, dr, oid, 0)
    BY <1>1, <1>2, <1>3 DEF SharesChange, Shares
<1>6. QED
    BY <1>2, <1>4, <1>5

(* Executed are the shares of the message, cancelled those it names.       *)
TakenBy(msg) == IF Executes(msg) THEN msg.size ELSE CancelledBy(msg)

Ignored(r, msg) == ~ r.ok /\ r.book = book /\ CancelledBy(msg) = 0

Submitted(r, msg) ==
    /\ r.ok /\ msg.type = "Submission" /\ CancelledBy(msg) = 0
    /\ msg.order_id \notin Resting(book)
    /\ Resting(r.book) = Resting(book) \union {msg.order_id}
    /\ SharesChange(book, r.book, msg.order_id, msg.size)
    /\ \A k \in LevelKeys :
          LevelQty(r.book, k) = IF k = <<DirectionToSide(msg.direction), msg.price>>
                                THEN LevelQty(book, k) + msg.size ELSE LevelQty(book, k)

Reduced(r, msg) ==
    /\ r.ok /\ msg.type \in {"PartialCancel", "Deletion", "VisibleExecution", "HiddenExecution"}
    /\ msg.order_id \in Resting(book) /\ Resting(r.book) \subseteq Resting(book)
    /\ \E left \in Nat : /\ SharesChange(book, r.book, msg.order_id, left)
                         /\ Shares(book)[msg.order_id] - left = TakenBy(msg)
    /\ \A k \in LevelKeys : LevelQty(r.book, k) <= LevelQty(book, k)

ReplayOf(r, msg) ==
    /\ SoundBook(r.book) /\ NothingNegative(r.book) /\ r.ok \in BOOLEAN
    /\ Ignored(r, msg) \/ Submitted(r, msg) \/ Reduced(r, msg)

(* An order that leaves, and one of which some shares are left.            *)
LEMMA ReducedAway ==
    ASSUME SoundBook(book), NothingNegative(book), NEW msg \in Messages,
           msg.type \in {"PartialCancel", "Deletion", "VisibleExecution", "HiddenExecution"},
           msg.order_id \in Resting(book), TakenBy(msg) = book.orders[msg.order_id].qty,
           NEW r, r = Done(Dropped(book, msg.order_id))
    PROVE  ReplayOf(r, msg)
<1>1. r.ok = TRUE /\ r.book = Dropped(book, msg.order_id)
    BY DEF Done
<1>2. book \in Book /\ QueuesHold(book, Resting(book))
    BY DEF SoundBook
<1>3. PICK oid \in Resting(book) : oid = msg.order_id
    OBVIOUS
<1>4. PICK c : c = r.book
    OBVIOUS
<1>5. SoundBook(c)
    BY <1>1, <1>3, <1>4, DroppedOrderFacts
<1>6. /\ NothingNegative(c) /\ SharesChange(book, c, oid, 0)
      /\ Resting(c) = Resting(book) \ {oid}
    BY <1>1, <1>2, <1>3, <1>4, SharesDropped
<1>7. oid \in Ids /\ Shares(book)[oid] = book.orders[oid].qty /\ book.orders[oid].qty \in Nat
    BY <1>2, <1>3, SharesTyped, RestingTyped DEF NothingNegative
<1>8. ASSUME NEW k \in LevelKeys PROVE LevelQty(c, k) <= LevelQty(book, k)
  <2>1. LevelQty(c, k) = IF k = LevelOf(book.orders[oid])
                         THEN LevelQty(book, k) - book.orders[oid].qty ELSE LevelQty(book, k)
    BY <1>1, <1>2, <1>3, <1>4, LevelQtyDropped
  <2>2. LevelQty(book, k) \in Int
    BY <1>2, QtysAtTyped
  <2>3. QED
    BY <1>7, <2>1, <2>2
<1>9. \E left \in Nat : SharesChange(book, c, oid, left) /\ Shares(book)[oid] - left = TakenBy(msg)
  <2>1. Shares(book)[oid] - 0 = TakenBy(msg)
    BY <1>3, <1>7
  <2>2. QED
    BY <1>6, <2>1
<1>10. Reduced(r, msg)
    BY <1>1, <1>3, <1>4, <1>6, <1>8, <1>9 DEF Reduced
<1>11. QED
    BY <1>1, <1>4, <1>5, <1>6, <1>10 DEF ReplayOf

LEMMA ReducedTo ==
    ASSUME SoundBook(book), NothingNegative(book), NEW msg \in Messages,
           msg.type \in {"PartialCancel", "Deletion", "VisibleExecution", "HiddenExecution"},
           msg.order_id \in Resting(book), NEW left \in Nat,
           TakenBy(msg) \in Nat, book.orders[msg.order_id].qty = left + TakenBy(msg),
           NEW r, r = Done(Resized(book, msg.order_id, left))
    PROVE  ReplayOf(r, msg)
<1>1. r.ok = TRUE /\ r.book = Resized(book, msg.order_id, left)
    BY DEF Done
<1>2. book \in Book /\ QueuesHold(book, Resting(book))
    BY DEF SoundBook
<1>3. PICK oid \in Resting(book) : oid = msg.order_id
    OBVIOUS
<1>4. PICK c : c = r.book
    OBVIOUS
<1>12. left \in Int
    OBVIOUS
<1>5. SoundBook(c)
    BY <1>1, <1>3, <1>4, <1>12, ResizedOrderFacts
<1>6. /\ NothingNegative(c) /\ SharesChange(book, c, oid, left)
      /\ Resting(c) = Resting(book)
    BY <1>1, <1>2, <1>3, <1>4, SharesResized
<1>7. oid \in Ids /\ Shares(book)[oid] = book.orders[oid].qty
    BY <1>2, <1>3, SharesTyped, RestingTyped
<1>8. ASSUME NEW k \in LevelKeys PROVE LevelQty(c, k) <= LevelQty(book, k)
  <2>1. LevelQty(c, k) = IF k = LevelOf(book.orders[oid])
                         THEN LevelQty(book, k) + (left - book.orders[oid].qty) ELSE LevelQty(book, k)
    BY <1>1, <1>2, <1>3, <1>4, <1>12, LevelQtyResized
  <2>2. LevelQty(book, k) \in Int
    BY <1>2, QtysAtTyped
  <2>3. QED
    BY <1>3, <2>1, <2>2
<1>9. Shares(book)[oid] - left = TakenBy(msg)
    BY <1>3, <1>7
<1>10. Reduced(r, msg)
    BY <1>1, <1>3, <1>4, <1>6, <1>8, <1>9 DEF Reduced
<1>11. QED
    BY <1>1, <1>4, <1>5, <1>6, <1>10 DEF ReplayOf

LEMMA IgnoredIs ==
    ASSUME SoundBook(book), NothingNegative(book), NEW msg, CancelledBy(msg) = 0,
           NEW r, r = Rejected(book)
    PROVE  ReplayOf(r, msg)
    BY DEF Rejected, ReplayOf, Ignored

LEMMA SubmittedIs ==
    ASSUME SoundBook(book), NothingNegative(book), NEW msg \in Messages,
           msg.type = "Submission", NEW r,
           r = AddOrder(book, msg.order_id, DirectionToSide(msg.direction), msg.price, msg.size)
    PROVE  ReplayOf(r, msg)
<1>1. /\ msg.size \in Nat /\ msg.price \in Prices /\ msg.order_id \in Ids
      /\ DirectionToSide(msg.direction) \in Side
    BY LinesTyped
<1>2. CancelledBy(msg) = 0
    BY DEF CancelledBy
<1>3. PICK oid \in Ids, s \in Side, p \in Prices, qty \in Nat :
         oid = msg.order_id /\ s = DirectionToSide(msg.direction) /\ p = msg.price /\ qty = msg.size
    BY <1>1
<1>4. r = AddOrder(book, oid, s, p, qty)
    BY <1>3
<1>5. PICK o : o = [side |-> s, price |-> p, qty |-> qty]
    OBVIOUS
<1>6. o \in Order /\ o.qty = qty /\ LevelOf(o) = <<s, p>>
    BY <1>5 DEF Order, LevelOf
<1>7. \/ r = Rejected(book)
      \/ r = Done(AppendOrder(book, oid, o)) /\ oid \notin Resting(book)
    BY <1>4, <1>5 DEF AddOrder
<1>8. CASE r = Rejected(book)
    BY <1>2, <1>8, IgnoredIs
<1>9. CASE r = Done(AppendOrder(book, oid, o)) /\ oid \notin Resting(book)
  <2>1. book \in Book /\ QueuesHold(book, Resting(book))
    BY DEF SoundBook
  <2>2. PICK c : c = r.book
    OBVIOUS
  <2>3. r.ok = TRUE /\ c = AppendOrder(book, oid, o)
    BY <1>9, <2>2 DEF Done
  <2>4. SoundBook(c)
    <3>1. qty \in Int
      OBVIOUS
    <3>2. QED
      BY <1>4, <2>2, <3>1, AddOrderFacts
  <2>5. /\ NothingNegative(c) /\ SharesChange(book, c, oid, qty)
        /\ Resting(c) = Resting(book) \union {oid}
    BY <1>6, <1>9, <2>1, <2>3, SharesAppended
  <2>6. \A k \in LevelKeys :
            LevelQty(c, k) = IF k = <<s, p>> THEN LevelQty(book, k) + qty ELSE LevelQty(book, k)
    BY <1>6, <1>9, <2>1, <2>3, LevelQtyAppended
  <2>7. Submitted(r, msg)
    BY <1>2, <1>3, <1>9, <2>2, <2>3, <2>5, <2>6 DEF Submitted
  <2>8. QED
    BY <2>2, <2>3, <2>4, <2>5, <2>7 DEF ReplayOf
<1>10. QED
    BY <1>7, <1>8, <1>9

LEMMA ApplyFacts ==
    ASSUME SoundBook(book), NothingNegative(book), NEW msg \in Messages
    PROVE  ReplayOf(Apply(book, msg), msg)
<1>1. PICK r : r = Apply(book, msg)
    OBVIOUS
<1>2. /\ msg.size \in Nat /\ msg.price \in Prices /\ msg.order_id \in Ids
      /\ msg.type \in EventTypes
    BY LinesTyped
<1>3. PICK oid \in Ids : oid = msg.order_id
    BY <1>2
<1>4. oid \in Resting(book) => book.orders[oid].qty \in Nat
    BY DEF NothingNegative
<1>5. CASE msg.type = "Submission"
  <2>1. r = AddOrder(book, msg.order_id, DirectionToSide(msg.direction), msg.price, msg.size)
    BY <1>1, <1>5 DEF Apply, Executes
  <2>2. QED
    BY <1>1, <1>5, <2>1, SubmittedIs
<1>6. CASE msg.type = "PartialCancel" /\ oid \in Resting(book) /\ msg.size < book.orders[oid].qty
  <2>1. PICK rest \in Nat : rest = book.orders[oid].qty - msg.size /\ rest > 0
    BY <1>2, <1>4, <1>6
  <2>2. r = ModifyOrder(book, oid, book.orders[oid].price, rest)
    BY <1>1, <1>3, <1>6, <2>1 DEF Apply, Executes
  <2>3. r = Done(Resized(book, oid, rest))
    BY <1>6, <2>2 DEF ModifyOrder
  <2>4. TakenBy(msg) = msg.size
    BY <1>3, <1>6 DEF TakenBy, CancelledBy, Executes
  <2>5. book.orders[oid].qty = rest + TakenBy(msg) /\ TakenBy(msg) \in Nat
    BY <1>2, <1>4, <1>6, <2>1, <2>4
  <2>6. QED
    BY <1>1, <1>3, <1>6, <2>3, <2>5, ReducedTo
<1>7. CASE /\ msg.type \in {"PartialCancel", "Deletion"} /\ oid \in Resting(book)
           /\ msg.type = "PartialCancel" => ~ (msg.size < book.orders[oid].qty)
  <2>1. r = CancelOrder(book, oid)
    <3>1. CASE msg.type = "Deletion"
      BY <1>1, <1>3, <3>1 DEF Apply, Executes
    <3>2. CASE msg.type = "PartialCancel"
      <4>1. book.orders[oid].qty - msg.size <= 0 /\ ~ (book.orders[oid].qty - msg.size > 0)
        BY <1>2, <1>4, <1>7, <3>2
      <4>2. QED
        BY <1>1, <1>3, <1>7, <3>2, <4>1 DEF Apply, Executes
    <3>3. QED
      BY <1>7, <3>1, <3>2
  <2>2. r = Done(Dropped(book, oid))
    BY <1>7, <2>1 DEF CancelOrder
  <2>3. TakenBy(msg) = book.orders[oid].qty
    BY <1>3, <1>7 DEF TakenBy, CancelledBy, Executes
  <2>4. QED
    BY <1>1, <1>3, <1>7, <2>2, <2>3, ReducedAway
<1>8. CASE msg.type \in {"PartialCancel", "Deletion"} /\ oid \notin Resting(book)
  <2>1. r = CancelOrder(book, oid)
    BY <1>1, <1>3, <1>8 DEF Apply, Executes
  <2>2. r = Rejected(book) /\ CancelledBy(msg) = 0
    BY <1>3, <1>8, <2>1 DEF CancelOrder, CancelledBy
  <2>3. QED
    BY <1>1, <2>2, IgnoredIs
<1>9. CASE msg.type \in {"VisibleExecution", "HiddenExecution"}
  <2>1. r = ExecuteOrder(book, oid, msg.size)
    BY <1>1, <1>3, <1>9 DEF Apply, Executes
  <2>2. CancelledBy(msg) = 0 /\ TakenBy(msg) = msg.size
    BY <1>9 DEF CancelledBy, TakenBy, Executes
  <2>3. CASE r = Rejected(book)
    BY <1>1, <2>2, <2>3, IgnoredIs
  <2>4. CASE ~ (r = Rejected(book))
    <3>1. /\ oid \in Resting(book) /\ ~ (msg.size <= 0) /\ ~ (msg.size > book.orders[oid].qty)
          /\ r = IF msg.size = book.orders[oid].qty THEN Done(Dropped(book, oid))
                 ELSE Done(Resized(book, oid, book.orders[oid].qty - msg.size))
      BY <2>1, <2>4 DEF ExecuteOrder
    <3>2. CASE msg.size = book.orders[oid].qty
      BY <1>1, <1>3, <1>9, <2>2, <3>1, <3>2, ReducedAway
    <3>3. CASE msg.size # book.orders[oid].qty
      <4>1. PICK left \in Nat : left = book.orders[oid].qty - msg.size
        BY <1>2, <1>4, <3>1
      <4>2. r = Done(Resized(book, oid, left))
        BY <3>1, <3>3, <4>1
      <4>3. book.orders[oid].qty = left + TakenBy(msg) /\ TakenBy(msg) \in Nat
        BY <1>2, <1>4, <2>2, <3>1, <4>1
      <4>4. QED
        BY <1>1, <1>3, <1>9, <3>1, <4>2, <4>3, ReducedTo
    <3>4. QED
      BY <3>2, <3>3
  <2>5. QED
    BY <2>3, <2>4
<1>10. CASE msg.type \in {"CrossTrade", "TradingHalt", "Unknown"}
  <2>1. r = Rejected(book) /\ CancelledBy(msg) = 0
    BY <1>1, <1>10 DEF Apply, CancelledBy, Executes
  <2>2. QED
    BY <1>1, <2>1, IgnoredIs
<1>11. QED
    BY <1>2, <1>5, <1>6, <1>7, <1>8, <1>9, <1>10 DEF EventTypes

-----------------------------------------------------------------------------
(* The accounts of a backtest, and the momentum.                           *)
Accounts == [position : -1 .. 1, entry : Nat, last : Nat, pnl : Int, cost : Int, turnover : Int,
             peak : Int, drawdown : Int, trades : Nat, bars : Nat, curve : Seq(Int)]

BacktestTyped(t) == t \in Accounts /\ t.peak >= Unit /\ t.drawdown \in 0 .. Unit

MomentumTyped(m) == /\ m \in [prev : (Nat \ {0}) \union {InvalidPrice}, returns : Seq(Int)]

LEMMA QuotientTyped ==
    ASSUME NEW x \in Int, NEW y \in Nat \ {0}
    PROVE  x \div y \in Int
    OBVIOUS

LEMMA ClampFacts ==
    ASSUME NEW x \in Int, NEW hi \in Nat
    PROVE  Clamp(x, 0, hi) \in 0 .. hi
    BY DEF Clamp

LEMMA MarkTyped ==
    ASSUME NEW t \in Accounts, NEW mid \in Nat
    PROVE  MarkToMarket(t, mid) \in Accounts
           /\ MarkToMarket(t, mid).peak = t.peak /\ MarkToMarket(t, mid).drawdown = t.drawdown
<1>1. /\ t.position \in Int /\ t.entry \in Nat /\ t.pnl \in Int /\ Unit \in Nat
    BY SignalAssumption DEF Accounts
<1>2. CASE t.position = 0 \/ t.entry = 0
  <2>1. MarkToMarket(t, mid) = [t EXCEPT !.last = mid]
    BY <1>2 DEF MarkToMarket
  <2>2. QED
    BY <2>1 DEF Accounts
<1>3. CASE ~ (t.position = 0 \/ t.entry = 0)
  <2>1. PICK x : x = (Unit * (mid - t.entry)) \div t.entry
    OBVIOUS
  <2>2. x \in Int
    <3>1. PICK y : y = Unit * (mid - t.entry)
      OBVIOUS
    <3>2. y \in Int
      BY <1>1, <3>1
    <3>3. QED
      BY <1>1, <1>3, <2>1, <3>1, <3>2, QuotientTyped
  <2>3. PICK pnl : pnl = t.pnl + t.position * x
    OBVIOUS
  <2>4. pnl \in Int
    BY <1>1, <2>2, <2>3
  <2>5. MarkToMarket(t, mid) = [t EXCEPT !.pnl = pnl, !.entry = mid, !.last = mid]
    BY <1>3, <2>1, <2>3, Zenon DEF MarkToMarket
  <2>6. QED
    BY <2>4, <2>5 DEF Accounts
<1>4. QED
    BY <1>2, <1>3

LEMMA RebalancedTyped ==
    ASSUME NEW t \in Accounts, NEW target \in -1 .. 1, NEW mid \in Nat
    PROVE  Rebalanced(t, target, mid) \in Accounts
           /\ Rebalanced(t, target, mid).peak = t.peak
           /\ Rebalanced(t, target, mid).drawdown = t.drawdown
<1>1. PICK delta : delta = Abs(target - t.position)
    OBVIOUS
<1>2. t.position \in Int /\ t.cost \in Int /\ t.turnover \in Int /\ t.trades \in Nat /\ Cost \in Nat
    BY AnalyticsAssumption DEF Accounts
<1>3. delta \in Int
    BY <1>1, <1>2 DEF Abs
<1>4. PICK cost : cost = t.cost + delta * Cost
    OBVIOUS
<1>5. cost \in Int
    BY <1>2, <1>3, <1>4
<1>6. CASE delta = 0
    BY <1>1, <1>6 DEF Rebalanced
<1>7. CASE delta # 0
  <2>1. Rebalanced(t, target, mid)
           = [t EXCEPT !.cost = cost, !.turnover = t.turnover + delta, !.trades = t.trades + 1,
                       !.position = target, !.entry = mid]
    BY <1>1, <1>4, <1>7, Zenon DEF Rebalanced
  <2>2. PICK turnover \in Int : turnover = t.turnover + delta
    BY <1>2, <1>3
  <2>3. PICK trades \in Nat : trades = t.trades + 1
    BY <1>2
  <2>4. QED
    BY <1>5, <2>1, <2>2, <2>3 DEF Accounts
<1>8. QED
    BY <1>6, <1>7

LEMMA RecordTyped ==
    ASSUME NEW t, BacktestTyped(t)
    PROVE  BacktestTyped(RecordEquity(t))
<1>1. PICK equity : equity = Equity(t)
    OBVIOUS
<1>2. t \in Accounts /\ t.peak \in Int /\ t.pnl \in Int /\ t.cost \in Int /\ t.curve \in Seq(Int)
      /\ Unit \in Nat \ {0} /\ t.peak >= Unit
    BY SignalAssumption DEF Accounts, BacktestTyped
<1>3. equity \in Int
    BY <1>1, <1>2 DEF Equity
<1>4. PICK peak : peak = Greater(t.peak, equity)
    OBVIOUS
<1>5. peak \in Int /\ peak >= Unit
    BY <1>2, <1>3, <1>4 DEF Greater
<1>6. PICK fall : fall = Clamp((Unit * (peak - equity)) \div peak, 0, Unit)
    OBVIOUS
<1>7. fall \in 0 .. Unit
  <2>1. PICK y : y = Unit * (peak - equity)
    OBVIOUS
  <2>2. y \in Int
    BY <1>2, <1>3, <1>5, <2>1
  <2>3. y \div peak \in Int
    BY <1>2, <1>5, <2>2, QuotientTyped
  <2>4. QED
    BY <1>2, <1>6, <2>1, <2>3, ClampFacts
<1>8. PICK drawdown : drawdown = Greater(t.drawdown, fall)
    OBVIOUS
<1>9. drawdown \in 0 .. Unit
    BY <1>2, <1>7, <1>8 DEF Greater, BacktestTyped
<1>10. RecordEquity(t) = [t EXCEPT !.curve = Append(t.curve, equity), !.peak = peak,
                                   !.drawdown = drawdown]
    BY <1>1, <1>4, <1>6, <1>8, Zenon DEF RecordEquity
<1>11. PICK curve : curve = Append(t.curve, equity)
    OBVIOUS
<1>12. curve \in Seq(Int)
    BY <1>2, <1>3, <1>11
<1>13. PICK r : r = [t EXCEPT !.curve = curve, !.peak = peak, !.drawdown = drawdown]
    OBVIOUS
<1>14. r \in Accounts /\ r.peak = peak /\ r.drawdown = drawdown
  <2>1. peak \in Int /\ drawdown \in Int
    BY <1>2, <1>5, <1>9
  <2>2. QED
    BY <1>2, <1>12, <1>13, <2>1 DEF Accounts
<1>15. RecordEquity(t) = r
    BY <1>10, <1>11, <1>13
<1>16. QED
    BY <1>5, <1>9, <1>14, <1>15 DEF BacktestTyped

LEMMA OnBarTyped ==
    ASSUME NEW t, BacktestTyped(t), NEW signal, NEW mid \in Nat \union {InvalidPrice}
    PROVE  BacktestTyped(OnBar(t, signal, mid))
<1>1. CASE mid \in {InvalidPrice, 0}
    BY <1>1 DEF OnBar
<1>2. CASE mid \notin {InvalidPrice, 0}
  <2>1. PICK u : u = Rebalanced(MarkToMarket(t, mid), Target(signal), mid)
    OBVIOUS
  <2>2. mid \in Nat /\ Target(signal) \in -1 .. 1
    BY <1>2 DEF Target
  <2>9. t \in Accounts
    BY DEF BacktestTyped
  <2>10. PICK w : w = MarkToMarket(t, mid)
    OBVIOUS
  <2>11. w \in Accounts /\ w.peak = t.peak /\ w.drawdown = t.drawdown
    BY <2>2, <2>9, <2>10, MarkTyped
  <2>3. u \in Accounts /\ u.peak = t.peak /\ u.drawdown = t.drawdown
    BY <2>1, <2>2, <2>10, <2>11, RebalancedTyped
  <2>4. PICK r : r = RecordEquity(u)
    OBVIOUS
  <2>5. BacktestTyped(r)
    BY <2>3, <2>4, RecordTyped DEF BacktestTyped
  <2>6. OnBar(t, signal, mid) = [r EXCEPT !.bars = r.bars + 1]
    BY <1>2, <2>1, <2>4 DEF OnBar
  <2>7. PICK bars \in Nat : bars = r.bars + 1
    <3>1. r \in Accounts
      BY <2>5 DEF BacktestTyped
    <3>2. r.bars \in Nat
      BY <3>1 DEF Accounts
    <3>3. r.bars + 1 \in Nat
      BY <3>2
    <3>4. QED
      BY <3>3
  <2>8. QED
    BY <2>5, <2>6, <2>7 DEF BacktestTyped, Accounts
<1>3. QED
    BY <1>1, <1>2

LEMMA ResultTyped ==
    ASSUME NEW t, BacktestTyped(t)
    PROVE  BacktestTyped(Result(t))
<1>1. t \in Accounts /\ t.last \in Nat
    BY DEF BacktestTyped, Accounts
<1>2. BacktestTyped(MarkToMarket(t, t.last))
    BY <1>1, MarkTyped DEF BacktestTyped
<1>3. QED
    BY <1>2, RecordTyped DEF Result

LEMMA NewBacktestTyped ==
    ASSUME NEW curve \in Seq(Int)
    PROVE  BacktestTyped(NewBacktest(curve))
    BY SignalAssumption DEF NewBacktest, BacktestTyped, Accounts

LEMMA MomentumUpdateTyped ==
    ASSUME NEW m, MomentumTyped(m), NEW mid \in (Nat \ {0}) \union {InvalidPrice}
    PROVE  MomentumTyped(MomentumUpdate(m, mid))
<1>1. CASE mid = InvalidPrice
    BY <1>1 DEF MomentumUpdate
<1>2. CASE mid # InvalidPrice
  <2>1. m.returns \in Seq(Int) /\ m.prev \in (Nat \ {0}) \union {InvalidPrice}
    BY DEF MomentumTyped
  <2>2. PICK returns : returns = IF m.prev = InvalidPrice THEN m.returns
                      ELSE Pushed(m.returns, (Unit * (mid - m.prev)) \div m.prev, MomentumWindow)
    OBVIOUS
  <2>3. returns \in Seq(Int)
    <3>1. CASE m.prev = InvalidPrice
      BY <2>1, <2>2, <3>1
    <3>2. CASE m.prev # InvalidPrice
      <4>1. PICK y : y = Unit * (mid - m.prev)
        OBVIOUS
      <4>2. y \in Int
        BY <1>2, <2>1, <3>2, <4>1, SignalAssumption
      <4>3. PICK x : x = y \div m.prev
        OBVIOUS
      <4>4. x \in Int
        BY <2>1, <3>2, <4>2, <4>3, QuotientTyped
      <4>5. returns = Pushed(m.returns, x, MomentumWindow)
        BY <2>2, <3>2, <4>1, <4>3
      <4>6. m.returns # <<>> => Tail(m.returns) \in Seq(Int)
        BY <2>1
      <4>7. CASE Len(m.returns) < MomentumWindow
        BY <2>1, <4>4, <4>5, <4>7 DEF Pushed
      <4>8. CASE ~ (Len(m.returns) < MomentumWindow)
        <5>1. m.returns # <<>>
          BY <4>8, SignalAssumption
        <5>2. Append(Tail(m.returns), x) \in Seq(Int)
          BY <4>4, <4>6, <5>1
        <5>3. QED
          BY <4>5, <4>8, <5>2 DEF Pushed
      <4>9. QED
        BY <4>7, <4>8
    <3>3. QED
      BY <3>1, <3>2
  <2>4. MomentumUpdate(m, mid) = [prev |-> mid, returns |-> returns]
    BY <1>2, <2>2 DEF MomentumUpdate
  <2>5. QED
    BY <1>2, <2>3, <2>4 DEF MomentumTyped
<1>3. QED
    BY <1>1, <1>2

(* A book has no best price, or one of its prices, and the middle of two   *)
(* prices is none less than one.                                           *)
LEMMA MidOf ==
    ASSUME NEW b, SoundBook(b), NEW snap, snap = L2Snapshot(b, Depth)
    PROVE  MidPrice(snap) \in (Nat \ {0}) \union {InvalidPrice}
<1>1. \A s \in Side : SidePrices(b, s) # {} => BestPrice(b, s) \in SidePrices(b, s)
    BY BestIsBest
<1>2. \A s \in Side : BestPrice(b, s) \in (Nat \ {0}) \union {InvalidPrice}
    BY <1>1, SessionAssumption DEF SidePrices, BestPrice
<1>3. PICK x, y : x = BestPrice(b, "Bid") /\ y = BestPrice(b, "Ask")
    OBVIOUS
<1>4. snap.best_bid = x /\ snap.best_ask = y
    BY <1>3 DEF L2Snapshot
<1>5. {x, y} \subseteq (Nat \ {0}) \union {InvalidPrice}
    BY <1>2, <1>3 DEF Side
<1>6. CASE InvalidPrice \in {x, y}
    BY <1>4, <1>6 DEF MidPrice
<1>7. CASE InvalidPrice \notin {x, y}
  <2>1. x \in Nat \ {0} /\ y \in Nat \ {0}
    BY <1>5, <1>7
  <2>2. (x + y) \div 2 \in Nat \ {0}
    BY <2>1
  <2>3. QED
    BY <1>4, <1>7, <2>2 DEF MidPrice
<1>8. QED
    BY <1>6, <1>7

-----------------------------------------------------------------------------
(* The invariant of a session: its parts are of their types, and a replay  *)
(* has counted each message and each share.                                *)
ClockTyped == /\ mode \in Modes /\ over \in BOOLEAN /\ event \in 0 .. MaxEvents[mode]
              /\ now \in Nat /\ id \in 1 .. Cardinality(Ids) + 1

MachinesTyped == SoundBook(book) /\ MomentumTyped(momentum) /\ BacktestTyped(bt)

Counters == [applied : Nat, skipped : Nat, submissions : Nat, cancels : Nat, executions : Nat]

LedgerTyped == /\ profile \in [LevelKeys -> Nat] /\ counts \in Counters
               /\ unknown \in Nat /\ cancelled \in Nat

Counting(c, e, u, trades) ==
    /\ c.applied + c.skipped = e + u
    /\ c.applied = c.submissions + c.cancels + c.executions
    /\ c.executions = trades

(* What was submitted is in the book, was traded or was cancelled.         *)
Balanced(p, shares, gone) ==
    \E a, b \in Int : Summed(p, LevelKeys, a) /\ Summed(shares, Ids, b) /\ a = b + gone

ShownIn(b, p) == \A k \in LevelKeys : LevelQty(b, k) <= p[k]

Replayed == /\ NothingNegative(book)
            /\ Counting(counts, event, unknown, stats.trades)
            /\ Cardinality(Resting(book)) <= counts.submissions
            /\ Balanced(profile, Shares(book), stats.volume + cancelled)
            /\ ShownIn(book, profile)

SessionInv == ClockTyped /\ MachinesTyped /\ LedgerTyped /\ (mode = "lobster" => Replayed)

LEMMA SampleTyped ==
    ASSUME MomentumTyped(momentum), BacktestTyped(bt), NEW b, SoundBook(b), NEW v, NEW due,
           Sample(b, v, due)
    PROVE  MomentumTyped(momentum') /\ BacktestTyped(bt')
<1>1. PICK snap : snap = L2Snapshot(b, Depth)
    OBVIOUS
<1>2. PICK signal : signal = Composite(snap, v, MomentumUpdate(momentum, MidPrice(snap)))
    OBVIOUS
<1>3. MidPrice(snap) \in (Nat \ {0}) \union {InvalidPrice}
    BY <1>1, MidOf
<1>4. CASE due
  <2>1. momentum' = MomentumUpdate(momentum, MidPrice(snap)) /\ bt' = OnBar(bt, signal, MidPrice(snap))
    BY <1>1, <1>2, <1>4, Zenon DEF Sample
  <2>2. QED
    BY <1>3, <2>1, MomentumUpdateTyped, OnBarTyped
<1>5. CASE ~ due
  <2>1. momentum' = momentum /\ bt' = bt
    BY <1>5, Zenon DEF Sample, sampled
  <2>2. QED
    BY <2>1
<1>6. QED
    BY <1>4, <1>5

LEMMA ClockTicks ==
    ASSUME ClockTyped, NEW m, Running(m), NEW due, Tick(due), mode' = mode, over' = over,
           id' \in 1 .. Cardinality(Ids) + 1
    PROVE  ClockTyped'
<1>1. event < MaxEvents[mode] /\ event' = event + 1 /\ MaxEvents[mode] \in Nat
    BY SessionAssumption DEF Running, Tick, ClockTyped
<1>2. now' \in Nat
  <2>1. PICK gap \in IF due THEN Gaps ELSE {0} : now' = now + gap
    BY DEF Tick
  <2>2. gap \in Nat
    BY SessionAssumption
  <2>3. QED
    BY <2>1, <2>2 DEF ClockTyped
<1>3. QED
    BY <1>1, <1>2 DEF ClockTyped

-----------------------------------------------------------------------------
(* A message of a replay, and the five counters.                           *)
LEMMA CountedFacts ==
    ASSUME counts \in Counters, NEW msg \in Messages, NEW ok \in BOOLEAN,
           NEW c, c = Counted(msg, ok)
    PROVE  /\ c \in Counters
           /\ c.applied = counts.applied + One(ok)
           /\ c.skipped = counts.skipped + One(~ ok) + One(msg.type = "Unknown")
           /\ c.submissions = counts.submissions + One(ok /\ msg.type = "Submission")
           /\ c.cancels = counts.cancels + One(ok /\ msg.type \in {"PartialCancel", "Deletion"})
           /\ c.executions = counts.executions + One(ok /\ Executes(msg))
<1>1. \A x : One(x) \in Nat
    BY DEF One
<1>2. PICK a, s, n, d, e :
        /\ a = counts.applied + One(ok)
        /\ s = counts.skipped + One(~ ok) + One(msg.type = "Unknown")
        /\ n = counts.submissions + One(ok /\ msg.type = "Submission")
        /\ d = counts.cancels + One(ok /\ msg.type \in {"PartialCancel", "Deletion"})
        /\ e = counts.executions + One(ok /\ Executes(msg))
    OBVIOUS
<1>3. a \in Nat /\ s \in Nat /\ n \in Nat /\ d \in Nat /\ e \in Nat
    BY <1>1, <1>2 DEF Counters
<1>4. c = [counts EXCEPT !.applied = a, !.skipped = s, !.submissions = n, !.cancels = d,
                         !.executions = e]
    BY <1>2, Zenon DEF Counted
<1>5. c \in Counters /\ c.applied = a /\ c.skipped = s /\ c.submissions = n /\ c.cancels = d
      /\ c.executions = e
    BY <1>3, <1>4 DEF Counters
<1>6. QED
    BY <1>2, <1>5

LEMMA CountingKept ==
    ASSUME counts \in Counters, NEW e \in Nat, NEW u \in Nat, NEW trades \in Nat,
           Counting(counts, e, u, trades), NEW msg \in Messages, NEW r, ReplayOf(r, msg),
           NEW c, c = Counted(msg, r.ok)
    PROVE  Counting(c, e + 1, u + One(msg.type = "Unknown"), trades + One(r.ok /\ Executes(msg)))
<1>1. r.ok \in BOOLEAN
    BY DEF ReplayOf
<1>2. /\ c.applied = counts.applied + One(r.ok)
      /\ c.skipped = counts.skipped + One(~ r.ok) + One(msg.type = "Unknown")
      /\ c.submissions = counts.submissions + One(r.ok /\ msg.type = "Submission")
      /\ c.cancels = counts.cancels + One(r.ok /\ msg.type \in {"PartialCancel", "Deletion"})
      /\ c.executions = counts.executions + One(r.ok /\ Executes(msg))
    BY <1>1, CountedFacts
<1>3. /\ counts.applied \in Nat /\ counts.skipped \in Nat /\ counts.submissions \in Nat
      /\ counts.cancels \in Nat /\ counts.executions \in Nat
    BY DEF Counters
<1>4. CASE ~ r.ok
    BY <1>2, <1>3, <1>4 DEF Counting, One
<1>5. CASE r.ok /\ msg.type = "Submission"
    BY <1>2, <1>3, <1>5 DEF Counting, One, Executes
<1>6. CASE r.ok /\ msg.type \in {"PartialCancel", "Deletion"}
  <2>1. /\ c.applied = counts.applied + 1 /\ c.skipped = counts.skipped + 0 + 0
        /\ c.submissions = counts.submissions + 0 /\ c.cancels = counts.cancels + 1
        /\ c.executions = counts.executions + 0
        /\ One(msg.type = "Unknown") = 0 /\ One(r.ok /\ Executes(msg)) = 0
    BY <1>2, <1>6 DEF One, Executes
  <2>2. QED
    BY <1>3, <2>1 DEF Counting
<1>7. CASE r.ok /\ msg.type \in {"VisibleExecution", "HiddenExecution"}
    BY <1>2, <1>3, <1>7 DEF Counting, One, Executes
<1>8. QED
    BY <1>4, <1>5, <1>6, <1>7 DEF ReplayOf, Ignored, Submitted, Reduced

(* The shares of a message move from one heap to another.                  *)
LEMMA SharesMove ==
    ASSUME NEW b \in Book, NEW c, NEW oid \in Ids, NEW left, SharesChange(b, c, oid, left),
           NothingNegative(b), NEW total \in Int, Summed(Shares(b), Ids, total)
    PROVE  Summed(Shares(c), Ids, total + (left - Shares(b)[oid]))
<1>1. Shares(b) \in [Ids -> Int]
    BY SharesTyped
<1>2. Shares(c) = [Shares(b) EXCEPT ![oid] = left]
    BY DEF SharesChange, Shares
<1>3. left \in Int
    BY DEF SharesChange
<1>4. PICK f \in [Ids -> Int] : f = Shares(b)
    BY <1>1
<1>5. Summed([f EXCEPT ![oid] = left], Ids, total + (left - f[oid]))
    BY <1>3, <1>4, SummedChanged
<1>6. QED
    BY <1>2, <1>4, <1>5

LEMMA BalancedKept ==
    ASSUME SoundBook(book), NothingNegative(book), LedgerTyped, NEW msg \in Messages,
           NEW r, ReplayOf(r, msg), NEW gone \in Int, Balanced(profile, Shares(book), gone),
           ShownIn(book, profile), NEW p,
           p = IF r.ok /\ msg.type = "Submission"
               THEN ProfileAdd(profile, DirectionToSide(msg.direction), msg.price, msg.size)
               ELSE profile
    PROVE  /\ p \in [LevelKeys -> Nat]
           /\ Balanced(p, Shares(r.book), gone + ((IF r.ok /\ Executes(msg) THEN msg.size ELSE 0)
                                                + CancelledBy(msg)))
           /\ ShownIn(r.book, p)
<1>1. /\ msg.size \in Nat /\ msg.price \in Prices /\ msg.order_id \in Ids
      /\ DirectionToSide(msg.direction) \in Side
    BY LinesTyped
<1>2. book \in Book /\ QueuesHold(book, Resting(book)) /\ profile \in [LevelKeys -> Nat]
    BY DEF SoundBook, LedgerTyped
<1>3. PICK a, b \in Int : Summed(profile, LevelKeys, a) /\ Summed(Shares(book), Ids, b) /\ a = b + gone
    BY DEF Balanced
<1>4. \A k \in LevelKeys : LevelQty(book, k) \in Int
    BY <1>2, QtysAtTyped
<1>5. CASE Ignored(r, msg)
    BY <1>2, <1>5 DEF Ignored
<1>6. CASE Submitted(r, msg)
  <2>1. PICK size \in Nat, oid \in Ids, k \in LevelKeys :
           size = msg.size /\ oid = msg.order_id /\ k = <<DirectionToSide(msg.direction), msg.price>>
    BY <1>1 DEF LevelKeys
  <2>2. p = [profile EXCEPT ![k] = profile[k] + size]
    BY <1>6, <2>1 DEF ProfileAdd, Submitted
  <2>3. PICK v \in Nat : v = profile[k] + size
    BY <1>2
  <2>4. p \in [LevelKeys -> Nat] /\ p[k] = v /\ \A h \in LevelKeys : h # k => p[h] = profile[h]
    BY <1>2, <2>2, <2>3
  <2>5. Summed(p, LevelKeys, a + (v - profile[k]))
    <3>1. profile \in [LevelKeys -> Int] /\ v \in Int
      BY <1>2
    <3>2. p = [profile EXCEPT ![k] = v]
      BY <2>2, <2>3
    <3>3. QED
      BY <1>3, <3>1, <3>2, SummedChanged
  <2>6. Summed(Shares(r.book), Ids, b + (size - Shares(book)[oid]))
    BY <1>2, <1>3, <1>6, <2>1, SharesMove DEF Submitted
  <2>7. Shares(book)[oid] = 0
    BY <1>6, <2>1 DEF Submitted, Shares
  <2>8. a + (v - profile[k]) = a + size /\ b + (size - Shares(book)[oid]) = b + size
    BY <1>2, <2>3, <2>7
  <2>9. a + size \in Int /\ b + size \in Int /\ a + size = (b + size) + gone
    BY <1>3
  <2>10. CancelledBy(msg) = 0 /\ ~ Executes(msg)
    BY <1>6 DEF Submitted, Executes
  <2>11. gone + ((IF r.ok /\ Executes(msg) THEN msg.size ELSE 0) + CancelledBy(msg)) = gone
    BY <2>10
  <2>12. Balanced(p, Shares(r.book), gone)
    BY <2>5, <2>6, <2>8, <2>9 DEF Balanced
  <2>13. ShownIn(r.book, p)
    <3>1. \A h \in LevelKeys : /\ LevelQty(r.book, h) = IF h = k THEN LevelQty(book, h) + size
                                                        ELSE LevelQty(book, h)
                               /\ LevelQty(book, h) <= profile[h] /\ profile[h] \in Nat
      BY <1>2, <1>6, <2>1 DEF Submitted, ShownIn
    <3>2. QED
      BY <1>4, <2>3, <2>4, <3>1 DEF ShownIn
  <2>14. QED
    BY <2>4, <2>11, <2>12, <2>13
<1>7. CASE Reduced(r, msg)
  <2>1. p = profile
    BY <1>7 DEF Reduced
  <2>2. PICK oid \in Ids : oid = msg.order_id
    BY <1>1
  <2>3. PICK left \in Nat : /\ SharesChange(book, r.book, oid, left)
                            /\ Shares(book)[oid] - left = TakenBy(msg)
    BY <1>7, <2>2 DEF Reduced
  <2>4. Summed(Shares(r.book), Ids, b + (left - Shares(book)[oid]))
    BY <1>2, <1>3, <2>3, SharesMove
  <2>5. Shares(book)[oid] \in Nat
    BY <1>2, SharesTyped
  <2>6. PICK t : t = TakenBy(msg)
    OBVIOUS
  <2>7. PICK more : more = (IF r.ok /\ Executes(msg) THEN msg.size ELSE 0) + CancelledBy(msg)
    OBVIOUS
  <2>8. t \in Int
    BY <2>3, <2>5, <2>6
  <2>9. more = t
    <3>1. CASE Executes(msg)
      <4>1. CancelledBy(msg) = 0
        BY <3>1 DEF Executes, CancelledBy
      <4>2. QED
        BY <1>1, <1>7, <2>6, <2>7, <3>1, <4>1 DEF TakenBy, Reduced
    <3>2. CASE ~ Executes(msg)
      BY <2>6, <2>7, <2>8, <3>2 DEF TakenBy
    <3>3. QED
      BY <3>1, <3>2
  <2>10. PICK c \in Int : c = b + (left - Shares(book)[oid])
    BY <2>5
  <2>11. a = c + (gone + t)
    BY <1>3, <2>3, <2>5, <2>6, <2>8, <2>10
  <2>12. Balanced(p, Shares(r.book), gone + t)
    BY <1>3, <2>1, <2>4, <2>10, <2>11 DEF Balanced
  <2>13. ShownIn(r.book, p)
    <3>1. \A h \in LevelKeys : /\ LevelQty(r.book, h) <= LevelQty(book, h)
                               /\ LevelQty(book, h) <= profile[h] /\ profile[h] \in Nat
      BY <1>2, <1>7 DEF Reduced, ShownIn
    <3>2. \A h \in LevelKeys : LevelQty(r.book, h) \in Int
      BY QtysAtTyped DEF ReplayOf, SoundBook
    <3>3. QED
      BY <1>4, <2>1, <3>1, <3>2 DEF ShownIn
  <2>14. QED
    BY <1>2, <2>1, <2>7, <2>9, <2>12, <2>13
<1>8. QED
    BY <1>5, <1>6, <1>7 DEF ReplayOf

-----------------------------------------------------------------------------
(* What the actions of a session do to its invariant.                      *)

LEMMA CancelledIsNat ==
    ASSUME NothingNegative(book), NEW msg \in Messages
    PROVE  CancelledBy(msg) \in Nat
    BY LinesTyped DEF CancelledBy, NothingNegative

LEMMA RestingCounted ==
    ASSUME SoundBook(book), counts \in Counters, NEW msg \in Messages, NEW r, ReplayOf(r, msg),
           NEW c, c = Counted(msg, r.ok), Cardinality(Resting(book)) <= counts.submissions
    PROVE  Cardinality(Resting(r.book)) <= c.submissions
<1>1. c.submissions = counts.submissions + One(r.ok /\ msg.type = "Submission")
      /\ counts.submissions \in Nat
    BY CountedFacts DEF ReplayOf, Counters
<1>2. IsFiniteSet(Resting(book)) /\ Cardinality(Resting(book)) \in Nat
    BY FS_CardinalityType DEF SoundBook, FitsPools
<1>3. CASE Ignored(r, msg)
    BY <1>1, <1>2, <1>3 DEF Ignored, One
<1>4. CASE Submitted(r, msg)
  <2>1. Cardinality(Resting(r.book)) = Cardinality(Resting(book)) + 1
    BY <1>2, <1>4, FS_AddElement DEF Submitted
  <2>2. c.submissions = counts.submissions + 1
    BY <1>1, <1>4 DEF Submitted, One
  <2>3. QED
    BY <1>1, <1>2, <2>1, <2>2
<1>5. CASE Reduced(r, msg)
  <2>1. /\ Cardinality(Resting(r.book)) <= Cardinality(Resting(book))
        /\ Cardinality(Resting(r.book)) \in Nat
    BY <1>2, <1>5, FS_Subset, FS_CardinalityType DEF Reduced
  <2>2. c.submissions = counts.submissions
    BY <1>1, <1>5 DEF Reduced, One
  <2>3. QED
    BY <1>1, <1>2, <2>1, <2>2
<1>6. QED
    BY <1>3, <1>4, <1>5 DEF ReplayOf

LEMMA ReplayKept ==
    ASSUME FlowInv, SessionInv, NEW msg \in Messages, ReplayMessage(msg)
    PROVE  SessionInv'
<1>1. PICK r : r = Apply(book, msg)
    OBVIOUS
<1>2. PICK executed \in BOOLEAN : executed = (r.ok /\ Executes(msg))
    OBVIOUS
<1>3. PICK traded : traded = IF executed THEN StatsOnTrade(stats, msg.size) ELSE stats
    OBVIOUS
<1>4. PICK snap : snap = L2Snapshot(r.book, Depth)
    OBVIOUS
<1>5. PICK due \in BOOLEAN : due = (event % SampleEvery = 0)
    OBVIOUS
<1>6. /\ Running("lobster") /\ Tick(due) /\ mode' = mode /\ over' = over /\ id' = id
      /\ book' = r.book /\ counts' = Counted(msg, r.ok)
      /\ profile' = IF r.ok /\ msg.type = "Submission"
                    THEN ProfileAdd(profile, DirectionToSide(msg.direction), msg.price, msg.size)
                    ELSE profile
      /\ stats' = IF due THEN StatsOnL2(traded, snap) ELSE traded
      /\ cancelled' = cancelled + CancelledBy(msg)
      /\ unknown' = unknown + One(msg.type = "Unknown")
      /\ Sample(r.book, vpin', due)
    BY <1>1, <1>2, <1>3, <1>4, <1>5, Zenon DEF ReplayMessage
<1>7. mode = "lobster" /\ Replayed /\ ClockTyped /\ MachinesTyped /\ LedgerTyped
    BY <1>6 DEF SessionInv, Running
<1>8. SoundBook(book) /\ NothingNegative(book)
    BY <1>7 DEF MachinesTyped, Replayed
<1>9. ReplayOf(r, msg)
    BY <1>1, <1>8, ApplyFacts
<1>10. SoundBook(r.book) /\ NothingNegative(r.book) /\ r.ok \in BOOLEAN
    BY <1>9 DEF ReplayOf
<1>11. ClockTyped'
  <2>1. id' \in 1 .. Cardinality(Ids) + 1
    BY <1>6, <1>7 DEF ClockTyped
  <2>2. QED
    BY <1>6, <1>7, <2>1, ClockTicks
<1>12. MachinesTyped'
  <2>1. MomentumTyped(momentum') /\ BacktestTyped(bt')
    BY <1>6, <1>7, <1>10, SampleTyped DEF MachinesTyped
  <2>2. QED
    BY <1>6, <1>10, <2>1 DEF MachinesTyped
<1>13. stats.volume \in Nat /\ cancelled \in Nat /\ unknown \in Nat /\ event \in Nat
       /\ DOMAIN stats = StatsFields /\ counts \in Counters
    BY <1>7, SessionAssumption DEF FlowInv, LedgerTyped, ClockTyped
<1>14. CancelledBy(msg) \in Nat /\ One(msg.type = "Unknown") \in Nat /\ msg.size \in Nat
    BY <1>8, CancelledIsNat, LinesTyped DEF One
<1>15. stats'.volume = stats.volume + (IF executed THEN msg.size ELSE 0)
       /\ stats'.trades = stats.trades + One(executed)
  <2>1. stats.trades \in Nat
    BY <1>7, <1>13 DEF Replayed, Counting, Counters
  <2>2. /\ DOMAIN traded = StatsFields
        /\ traded.volume = IF executed THEN stats.volume + msg.size ELSE stats.volume
        /\ traded.trades = IF executed THEN stats.trades + 1 ELSE stats.trades
    BY <1>3, <1>13, StatsOnTradeFacts
  <2>3. stats'.volume = traded.volume /\ stats'.trades = traded.trades
    BY <1>6, <2>2, StatsOnL2Facts
  <2>4. QED
    BY <1>13, <2>1, <2>2, <2>3 DEF One
<1>16. PICK gone \in Int : gone = stats.volume + cancelled
    BY <1>13
<1>17. PICK more \in Int : more = (IF executed THEN msg.size ELSE 0) + CancelledBy(msg)
    BY <1>14
<1>18. /\ profile' \in [LevelKeys -> Nat] /\ Balanced(profile', Shares(r.book), gone + more)
       /\ ShownIn(r.book, profile')
  <2>1. Balanced(profile, Shares(book), gone) /\ ShownIn(book, profile)
    BY <1>7, <1>16 DEF Replayed
  <2>2. PICK p : p = profile'
    OBVIOUS
  <2>3. p = IF r.ok /\ msg.type = "Submission"
            THEN ProfileAdd(profile, DirectionToSide(msg.direction), msg.price, msg.size)
            ELSE profile
    BY <1>6, <2>2
  <2>4. more = (IF r.ok /\ Executes(msg) THEN msg.size ELSE 0) + CancelledBy(msg)
    BY <1>2, <1>17
  <2>5. /\ p \in [LevelKeys -> Nat] /\ Balanced(p, Shares(r.book), gone + more)
        /\ ShownIn(r.book, p)
    BY <1>7, <1>8, <1>9, <2>1, <2>3, <2>4, BalancedKept
  <2>6. QED
    BY <2>2, <2>5
<1>19. stats'.volume + cancelled' = gone + more
    BY <1>6, <1>13, <1>14, <1>15, <1>16, <1>17
<1>20. LedgerTyped'
  <2>1. counts' \in Counters
    BY <1>6, <1>10, <1>13, CountedFacts
  <2>2. cancelled' \in Nat /\ unknown' \in Nat
    BY <1>6, <1>13, <1>14
  <2>3. QED
    BY <1>18, <2>1, <2>2 DEF LedgerTyped
<1>21. Replayed'
  <2>1. Counting(counts', event', unknown', stats'.trades)
    <3>1. stats.trades \in Nat /\ Counting(counts, event, unknown, stats.trades)
      BY <1>7, <1>13 DEF Replayed, Counting, Counters
    <3>2. Counting(Counted(msg, r.ok), event + 1, unknown + One(msg.type = "Unknown"),
                   stats.trades + One(r.ok /\ Executes(msg)))
      BY <1>9, <1>13, <3>1, CountingKept
    <3>3. event' = event + 1
      BY <1>6 DEF Tick
    <3>4. QED
      BY <1>2, <1>6, <1>15, <3>2, <3>3
  <2>2. Cardinality(Resting(book')) <= counts'.submissions
    BY <1>6, <1>7, <1>8, <1>9, <1>13, RestingCounted DEF Replayed
  <2>3. QED
    BY <1>6, <1>10, <1>18, <1>19, <2>1, <2>2 DEF Replayed
<1>22. QED
    BY <1>11, <1>12, <1>20, <1>21 DEF SessionInv

LEMMA TapeKept ==
    ASSUME SessionInv, NEW t \in Tape, TapeTrade(t)
    PROVE  SessionInv'
<1>1. /\ Running("tape") /\ Tick(FALSE) /\ mode' = mode /\ over' = over /\ id' = id
      /\ book' = book /\ bt' = bt /\ profile' = profile /\ counts' = counts
      /\ cancelled' = cancelled /\ unknown' = unknown
      /\ momentum' = MomentumUpdate(momentum, t.price)
    BY Zenon DEF TapeTrade, sampled
<1>2. t.price \in Nat \ {0} /\ mode' # "lobster"
    BY <1>1, SessionAssumption DEF Running
<1>3. ClockTyped'
    BY <1>1, ClockTicks DEF SessionInv, ClockTyped
<1>4. MachinesTyped'
    BY <1>1, <1>2, MomentumUpdateTyped DEF SessionInv, MachinesTyped
<1>5. LedgerTyped'
    BY <1>1 DEF SessionInv, LedgerTyped
<1>6. QED
    BY <1>2, <1>3, <1>4, <1>5 DEF SessionInv

LEMMA SimulationKept ==
    ASSUME SessionInv, NEW price \in Jitter, NEW qty \in Quantities, SimulationStep(price, qty)
    PROVE  SessionInv'
<1>1. PICK due \in BOOLEAN : due = (event % SampleEvery = 0)
    OBVIOUS
<1>2. /\ Running("simulation") /\ Tick(due) /\ mode' = mode /\ over' = over
      /\ Sample(book', vpin, due)
      /\ profile' = profile /\ counts' = counts /\ cancelled' = cancelled /\ unknown' = unknown
    BY <1>1, Zenon DEF SimulationStep, lobster
<1>3. \/ \E side \in Side : /\ id \in Ids /\ book' = AddOrder(book, id, side, price, qty).book
                            /\ id' = id + 1
      \/ /\ book' = IF id > 2 * CancelBack THEN CancelOrder(book, id - CancelBack).book ELSE book
         /\ id' = id
      \/ /\ book' = IF id > 2 * ExecuteBack THEN ExecuteOrder(book, id - ExecuteBack, 1).book
                    ELSE book
         /\ id' = id
  <2>1. "Bid" \in Side /\ "Ask" \in Side
    BY DEF Side
  <2>2. QED
    BY <2>1 DEF SimulationStep
<1>4. mode' # "lobster" /\ ClockTyped /\ MachinesTyped /\ SoundBook(book)
    BY <1>2 DEF Running, SessionInv, MachinesTyped
<1>5. PICK n \in Nat : n = Cardinality(Ids) /\ Ids = 1 .. n
    BY SessionAssumption
<1>6. id \in 1 .. n + 1
    BY <1>4, <1>5 DEF ClockTyped
<1>7. id' \in 1 .. Cardinality(Ids) + 1 /\ SoundBook(book')
  <2>1. ASSUME NEW side \in Side, id \in Ids, book' = AddOrder(book, id, side, price, qty).book,
               id' = id + 1
        PROVE  id' \in 1 .. n + 1 /\ SoundBook(book')
    <3>1. price \in Prices /\ qty \in Int
      BY SessionAssumption, BookAssumption
    <3>2. SoundBook(AddOrder(book, id, side, price, qty).book)
      BY <1>4, <2>1, <3>1, AddOrderFacts
    <3>3. id \in 1 .. n
      BY <1>5, <2>1
    <3>4. id + 1 \in 1 .. n + 1
      BY <3>3
    <3>5. QED
      BY <2>1, <3>2, <3>4
  <2>2. ASSUME NEW back \in Nat \ {0}, id > 2 * back PROVE id - back \in Ids
    <3>1. id - back \in 1 .. n
      BY <1>6, <2>2
    <3>2. QED
      BY <1>5, <3>1
  <2>3. ASSUME book' = IF id > 2 * CancelBack THEN CancelOrder(book, id - CancelBack).book ELSE book
        PROVE  SoundBook(book')
    <3>1. CancelBack \in Nat \ {0}
      BY SessionAssumption
    <3>2. id > 2 * CancelBack => SoundBook(CancelOrder(book, id - CancelBack).book)
      BY <1>4, <2>2, <3>1, CancelOrderFacts
    <3>3. QED
      BY <1>4, <2>3, <3>2
  <2>4. ASSUME book' = IF id > 2 * ExecuteBack THEN ExecuteOrder(book, id - ExecuteBack, 1).book
                       ELSE book
        PROVE  SoundBook(book')
    <3>1. ExecuteBack \in Nat \ {0}
      BY SessionAssumption
    <3>2. id > 2 * ExecuteBack => SoundBook(ExecuteOrder(book, id - ExecuteBack, 1).book)
      BY <1>4, <2>2, <3>1, ExecuteOrderFacts
    <3>3. QED
      BY <1>4, <2>4, <3>2
  <2>5. QED
    BY <1>3, <1>5, <1>6, <2>1, <2>3, <2>4
<1>8. ClockTyped'
    BY <1>2, <1>4, <1>7, ClockTicks
<1>9. MachinesTyped'
    BY <1>2, <1>4, <1>7, SampleTyped DEF MachinesTyped
<1>10. LedgerTyped'
    BY <1>2 DEF SessionInv, LedgerTyped
<1>11. QED
    BY <1>4, <1>8, <1>9, <1>10 DEF SessionInv

LEMMA BarKept ==
    ASSUME SessionInv, NEW signal, NEW mid \in BarMids, Bar(signal, mid)
    PROVE  SessionInv'
<1>1. /\ Running("bars") /\ Tick(TRUE) /\ mode' = mode /\ over' = over /\ id' = id
      /\ book' = book /\ momentum' = momentum /\ bt' = OnBar(bt, signal, mid)
      /\ profile' = profile /\ counts' = counts /\ cancelled' = cancelled /\ unknown' = unknown
    BY DEF Bar, signals, lobster
<1>2. mode' # "lobster" /\ mid \in Nat \union {InvalidPrice}
    BY <1>1, SessionAssumption DEF Running
<1>3. ClockTyped'
    BY <1>1, ClockTicks DEF SessionInv, ClockTyped
<1>4. MachinesTyped'
    BY <1>1, <1>2, OnBarTyped DEF SessionInv, MachinesTyped
<1>5. LedgerTyped'
    BY <1>1 DEF SessionInv, LedgerTyped
<1>6. QED
    BY <1>2, <1>3, <1>4, <1>5 DEF SessionInv

LEMMA ResetKept ==
    ASSUME SessionInv, Reset
    PROVE  SessionInv'
<1>1. /\ Running("bars") /\ mode' = mode /\ over' = over /\ id' = id
      /\ event' = event + 1 /\ now' = 0
      /\ book' = book /\ momentum' = momentum /\ bt' = NewBacktest(<<Unit>>)
      /\ profile' = profile /\ counts' = counts /\ cancelled' = cancelled /\ unknown' = unknown
    BY DEF Reset, signals, lobster
<1>2. mode' # "lobster"
    BY <1>1 DEF Running
<1>3. ClockTyped'
    BY <1>1, SessionAssumption DEF SessionInv, ClockTyped, Running
<1>4. MachinesTyped'
  <2>1. <<Unit>> \in Seq(Int)
    BY SignalAssumption
  <2>2. QED
    BY <1>1, <2>1, NewBacktestTyped DEF SessionInv, MachinesTyped
<1>5. LedgerTyped'
    BY <1>1 DEF SessionInv, LedgerTyped
<1>6. QED
    BY <1>2, <1>3, <1>4, <1>5 DEF SessionInv

LEMMA ConcludedKept ==
    ASSUME SessionInv, Concluded, over' \in BOOLEAN,
           \/ mode = "bars" /\ event < MaxEvents[mode] /\ event' = event + 1
           \/ event' = event
    PROVE  SessionInv'
<1>1. /\ mode' = mode /\ now' = now /\ id' = id /\ book' = book /\ momentum' = momentum
      /\ bt' = Result(bt) /\ stats' = stats
      /\ profile' = profile /\ counts' = counts /\ cancelled' = cancelled /\ unknown' = unknown
    BY DEF Concluded, signals, lobster
<1>2. ClockTyped'
    BY <1>1, SessionAssumption DEF SessionInv, ClockTyped
<1>3. MachinesTyped'
    BY <1>1, ResultTyped DEF SessionInv, MachinesTyped
<1>4. LedgerTyped'
    BY <1>1 DEF SessionInv, LedgerTyped
<1>5. mode' = "lobster" => Replayed'
    BY <1>1 DEF SessionInv, Replayed
<1>6. QED
    BY <1>2, <1>3, <1>4, <1>5 DEF SessionInv

LEMMA SessionInvInit == Init => SessionInv
<1> SUFFICES ASSUME Init PROVE SessionInv
    OBVIOUS
<1>1. /\ mode \in Modes /\ over = FALSE /\ event = 0 /\ now = 0 /\ id = 1 /\ book = EmptyBook
      /\ momentum = NewMomentum /\ stats = NewStats /\ profile = NewProfile
      /\ bt = NewBacktest(<<>>) /\ cancelled = 0 /\ unknown = 0
      /\ counts = [applied |-> 0, skipped |-> 0, submissions |-> 0, cancels |-> 0,
                   executions |-> 0]
    BY DEF Init
<1>2. ClockTyped
  <2>1. MaxEvents[mode] \in Nat /\ Cardinality(Ids) \in Nat
    BY <1>1, SessionAssumption
  <2>2. 0 \in 0 .. MaxEvents[mode] /\ 1 \in 1 .. Cardinality(Ids) + 1 /\ 0 \in Nat
    BY <2>1
  <2>3. QED
    BY <1>1, <2>2, Zenon DEF ClockTyped
<1>3. MachinesTyped
  <2>1. MomentumTyped(NewMomentum)
    BY DEF NewMomentum, MomentumTyped
  <2>2. <<>> \in Seq(Int)
    OBVIOUS
  <2>3. QED
    BY <1>1, <2>1, <2>2, EmptyBookSound, NewBacktestTyped DEF MachinesTyped
<1>4. LedgerTyped
    BY <1>1 DEF LedgerTyped, Counters, NewProfile
<1>5. Replayed
  <2>1. Resting(EmptyBook) = {}
    BY DEF Resting, EmptyBook
  <2>2. Cardinality(Resting(EmptyBook)) = 0
    BY <2>1, FS_EmptySet
  <2>3. NothingNegative(EmptyBook)
    BY <2>1 DEF NothingNegative
  <2>4. Counting(counts, 0, 0, 0)
    BY <1>1 DEF Counting
  <2>5. Balanced(NewProfile, Shares(EmptyBook), 0)
    <3>1. Shares(EmptyBook) = [x \in Ids |-> 0]
      BY <2>1 DEF Shares
    <3>2. QED
      BY <3>1, SummedOfNothing DEF Balanced, NewProfile
  <2>6. ShownIn(EmptyBook, NewProfile)
    <3>1. ASSUME NEW k \in LevelKeys PROVE LevelQty(EmptyBook, k) = 0
      <4>1. EmptyBook.queue[k] = <<>>
        BY DEF EmptyBook
      <4>2. [i \in 1 .. Len(EmptyBook.queue[k]) |-> EmptyBook.orders[EmptyBook.queue[k][i]].qty]
               = <<>>
        BY <4>1
      <4>3. QED
        BY <4>2, TotalOfNone DEF LevelQty
    <3>2. QED
      BY <3>1 DEF ShownIn, NewProfile
  <2>7. stats.volume + cancelled = 0 /\ stats.trades = 0
    BY <1>1 DEF NewStats
  <2>8. QED
    BY <1>1, <2>2, <2>3, <2>4, <2>5, <2>6, <2>7 DEF Replayed
<1>6. QED
    BY <1>2, <1>3, <1>4, <1>5 DEF SessionInv

LEMMA SessionInvNext ==
    ASSUME FlowInv, SessionInv, [Next]_vars
    PROVE  SessionInv'
<1>1. CASE \E msg \in Messages : ReplayMessage(msg)
    BY <1>1, ReplayKept
<1>2. CASE \E t \in Tape : TapeTrade(t)
    BY <1>2, TapeKept
<1>3. CASE \E price \in Jitter, qty \in Quantities : SimulationStep(price, qty)
    BY <1>3, SimulationKept
<1>4. CASE \E signal \in BarSignals, mid \in BarMids : Bar(signal, mid)
    BY <1>4, BarKept
<1>5. CASE Reset
    BY <1>5, ResetKept
<1>6. CASE AskResult
  <2>1. /\ mode = "bars" /\ event < MaxEvents[mode] /\ event' = event + 1 /\ Concluded
        /\ over' = over
    BY <1>6 DEF AskResult, Running
  <2>2. over' \in BOOLEAN
    BY <2>1 DEF SessionInv, ClockTyped
  <2>3. QED
    BY <2>1, <2>2, ConcludedKept
<1>7. CASE ReplayEnded \/ TapeEnded \/ SimulationReported
  <2>1. Concluded /\ over' = TRUE /\ event' = event
    BY <1>7 DEF ReplayEnded, TapeEnded, SimulationReported, Ended
  <2>2. QED
    BY <2>1, ConcludedKept
<1>8. CASE UNCHANGED vars
    BY <1>8 DEF vars, signals, sampled, lobster, SessionInv, ClockTyped, MachinesTyped,
                LedgerTyped, Replayed
<1>9. QED
    BY <1>1, <1>2, <1>3, <1>4, <1>5, <1>6, <1>7, <1>8 DEF Next

LEMMA SessionInvSays == FlowInv /\ SessionInv => ReplayAddsUp
<1> SUFFICES ASSUME FlowInv, SessionInv PROVE ReplayAddsUp
    OBVIOUS
<1>1. ClockTyped /\ MachinesTyped /\ LedgerTyped
    BY DEF SessionInv
<1>2. TypeOK
  <2>1. vpin \in [buy : Nat, sell : Nat, vol : 0 .. BucketVolume - 1, buckets : Seq(Nat)]
    <3>1. PICK n \in Nat : Flowing(vpin, n, flow.bought, flow.sold) /\ vpin.vol < BucketVolume
      BY DEF FlowInv, HoldsFlow
    <3>2. PICK Q : Q = Seq(0 .. Unit)
      OBVIOUS
    <3>3. Q \subseteq Seq(Nat)
      <4>1. PICK S : S = 0 .. Unit
        OBVIOUS
      <4>2. S \subseteq Nat
        BY <4>1, SignalAssumption
      <4>3. ASSUME NEW q \in Seq(S) PROVE q \in Seq(Nat)
        <5>1. Len(q) \in Nat /\ q = [i \in 1 .. Len(q) |-> q[i]]
          OBVIOUS
        <5>2. \A i \in 1 .. Len(q) : q[i] \in Nat
          <6>1. \A i \in 1 .. Len(q) : q[i] \in S
            OBVIOUS
          <6>2. QED
            BY <4>2, <6>1
        <5>3. QED
          BY <5>1, <5>2
      <4>4. QED
        BY <3>2, <4>1, <4>3
    <3>4. vpin \in [buy : Nat, sell : Nat, vol : Nat, buckets : Q]
      BY <3>1, <3>2 DEF Flowing, VpinTyped
    <3>5. vpin.vol \in 0 .. BucketVolume - 1
      BY <3>1, <3>4, SignalAssumption
    <3>6. QED
      BY <3>3, <3>4, <3>5
  <2>2. counts \in [DOMAIN counts -> Nat]
    BY <1>1 DEF LedgerTyped, Counters
  <2>3. momentum.prev \in (Nat \ {0}) \union {InvalidPrice} /\ momentum.returns \in Seq(Int)
    BY <1>1 DEF MachinesTyped, MomentumTyped
  <2>4. bt.position \in -1 .. 1 /\ bt.drawdown \in 0 .. Unit /\ bt.curve \in Seq(Int)
    BY <1>1 DEF MachinesTyped, BacktestTyped, Accounts
  <2>5. QED
    BY <1>1, <2>1, <2>2, <2>3, <2>4 DEF TypeOK, ClockTyped, MachinesTyped, LedgerTyped
<1>3. EventsAccounted
    BY DEF EventsAccounted, SessionInv, Replayed, Counting
<1>4. EveryShareAccounted
  <2> SUFFICES ASSUME mode = "lobster"
               PROVE  /\ SumOver(profile, LevelKeys)
                            = SumOver(Shares(book), Ids) + stats.volume + cancelled
                      /\ \A k \in LevelKeys : LevelQty(book, k) <= profile[k]
    BY DEF EveryShareAccounted
  <2>1. Replayed
    BY DEF SessionInv
  <2>2. IsFiniteSet(LevelKeys) /\ IsFiniteSet(Ids)
    <3>1. IsFiniteSet(Side)
      <4>1. IsFiniteSet({"Bid"})
        BY FS_Singleton
      <4>2. Side = {"Bid"} \union {"Ask"}
        BY DEF Side
      <4>3. QED
        BY <4>1, <4>2, FS_AddElement
    <3>2. IsFiniteSet(LevelKeys)
      BY <3>1, FS_Product, SessionAssumption DEF LevelKeys
    <3>3. PICK n \in Nat : Ids = 1 .. n
      BY SessionAssumption
    <3>4. IsFiniteSet(1 .. n)
      BY FS_Interval
    <3>5. QED
      BY <3>2, <3>3, <3>4
  <2>3. PICK a, b \in Int : /\ Summed(profile, LevelKeys, a) /\ Summed(Shares(book), Ids, b)
                            /\ a = b + (stats.volume + cancelled)
    BY <2>1 DEF Replayed, Balanced
  <2>4. SumOver(profile, LevelKeys) = a /\ SumOver(Shares(book), Ids) = b
    BY <2>2, <2>3, SummedIs
  <2>5. stats.volume \in Nat /\ cancelled \in Nat
    BY <1>1 DEF FlowInv, LedgerTyped
  <2>6. a = b + stats.volume + cancelled
    BY <2>3, <2>5
  <2>7. QED
    BY <2>1, <2>4, <2>6 DEF Replayed, ShownIn
<1>5. QED
    BY <1>2, <1>3, <1>4 DEF ReplayAddsUp

(* The state is of its type, and the messages and the shares of a replay   *)
(* add up (market_replay.hpp:61-114), whatever the file says.              *)
THEOREM ReplayIsAccounted == Spec => []ReplayAddsUp
<1>1. Init => FlowInv /\ SessionInv
    BY FlowInvInit, SessionInvInit
<1>2. (FlowInv /\ SessionInv) /\ [Next]_vars => (FlowInv /\ SessionInv)'
    BY FlowInvNext, SessionInvNext
<1>3. FlowInv /\ SessionInv => ReplayAddsUp
    BY SessionInvSays
<1>4. QED
    BY <1>1, <1>2, <1>3, PTL DEF Spec

-----------------------------------------------------------------------------
(* The bars: the samples with a price, one after the other.                *)
SequenceLike(s) == \E S : s \in Seq(S)

LEMMA SequenceGrows ==
    ASSUME NEW s, SequenceLike(s), NEW x
    PROVE  /\ SequenceLike(Append(s, x)) /\ Len(s) \in Nat /\ Len(Append(s, x)) = Len(s) + 1
           /\ \A i \in 1 .. Len(s) + 1 : Append(s, x)[i] = IF i = Len(s) + 1 THEN x ELSE s[i]
<1>1. PICK S : s \in Seq(S)
    BY DEF SequenceLike
<1>2. PICK T : T = S \union {x}
    OBVIOUS
<1>3. s \in Seq(T)
  <2>1. Len(s) \in Nat /\ s = [i \in 1 .. Len(s) |-> s[i]] /\ \A i \in 1 .. Len(s) : s[i] \in S
    BY <1>1
  <2>2. \A i \in 1 .. Len(s) : s[i] \in T
    BY <1>2, <2>1
  <2>3. QED
    BY <2>1, <2>2
<1>4. x \in T
    BY <1>2
<1>5. Append(s, x) \in Seq(T) /\ Len(Append(s, x)) = Len(s) + 1
      /\ \A i \in 1 .. Len(s) + 1 : Append(s, x)[i] = IF i = Len(s) + 1 THEN x ELSE s[i]
    BY <1>3, <1>4, AppendFacts
<1>6. Len(s) \in Nat
    BY <1>1
<1>7. QED
    BY <1>5, <1>6 DEF SequenceLike

(* The loop of BarsOf.                                                     *)
Keeping(f, s) ==
    /\ f[0] = <<>>
    /\ \A n \in 1 .. Len(s) : f[n] = IF Priced(s[n]) THEN Append(f[n - 1], s[n]) ELSE f[n - 1]

LEMMA BarsRun ==
    ASSUME NEW s, Len(s) \in Nat
    PROVE  \E f : BarsOf(s) = f[Len(s)] /\ Keeping(f, s)
<1> DEFINE K == Len(s)
           step(bars, n) == IF Priced(s[n]) THEN Append(bars, s[n]) ELSE bars
           upTo(g, n) == [k \in 0 .. n |-> IF k = 0 THEN <<>> ELSE step(g[k - 1], k)]
           reached(n) == \E g : g = upTo(g, n)
           T == {n \in 0 .. K : reached(n)}
           run == CHOOSE g : g = upTo(g, K)
<1>1. BarsOf(s) = run[K]
    BY DEF BarsOf
<1> HIDE DEF step
<1>2. reached(0)
  <2> DEFINE g == [k \in 0 .. 0 |-> <<>>]
  <2>1. \A k \in 0 .. 0 : g[k] = upTo(g, 0)[k]
    OBVIOUS
  <2>2. QED
    BY <2>1
<1>3. ASSUME NEW n \in 1 .. K, reached(n - 1) PROVE reached(n)
  <2>1. PICK h : h = upTo(h, n - 1)
    BY <1>3
  <2> DEFINE g == [k \in 0 .. n |-> IF k = n THEN step(h[n - 1], n) ELSE h[k]]
  <2>2. \A k \in 0 .. n : g[k] = upTo(g, n)[k]
    BY <2>1
  <2>3. g = upTo(g, n)
    BY <2>2
  <2>4. QED
    BY <2>3
<1>4. reached(K)
  <2> HIDE DEF reached
  <2>1. 0 \in T /\ \A k \in 1 .. K : k - 1 \in T => k \in T
    BY <1>2, <1>3
  <2> HIDE DEF T
  <2>2. \A k \in 0 .. K : k \in T
    BY <2>1, InductionTo
  <2>3. QED
    BY <2>2 DEF T
<1>5. run = upTo(run, K)
    BY <1>4
<1>6. run[0] = <<>> /\ \A k \in 1 .. K : run[k] = step(run[k - 1], k)
  <2> HIDE DEF run
  <2>1. \A k \in 0 .. K : run[k] = IF k = 0 THEN <<>> ELSE step(run[k - 1], k)
    BY <1>5
  <2>2. QED
    BY <2>1
<1>7. QED
    BY <1>1, <1>6 DEF step, Keeping

LEMMA KeepingAlike ==
    ASSUME NEW n \in Nat, NEW s, NEW t, NEW f, NEW g, n <= Len(s), n <= Len(t),
           Len(s) \in Nat, Len(t) \in Nat, Keeping(f, s), Keeping(g, t),
           \A i \in 1 .. n : t[i] = s[i]
    PROVE  f[n] = g[n]
<1> DEFINE T == {k \in 0 .. n : f[k] = g[k]}
<1>1. 0 \in T
    BY DEF Keeping
<1>2. ASSUME NEW k \in 1 .. n, k - 1 \in T PROVE k \in T
  <2>1. k \in 1 .. Len(s) /\ k \in 1 .. Len(t) /\ t[k] = s[k]
    OBVIOUS
  <2>2. /\ f[k] = IF Priced(s[k]) THEN Append(f[k - 1], s[k]) ELSE f[k - 1]
        /\ g[k] = IF Priced(t[k]) THEN Append(g[k - 1], t[k]) ELSE g[k - 1]
    BY <2>1 DEF Keeping
  <2>3. QED
    BY <1>2, <2>1, <2>2
<1> HIDE DEF T
<1>3. \A k \in 0 .. n : k \in T
    BY <1>1, <1>2, InductionTo
<1>4. n \in T
    BY <1>3
<1>5. QED
    BY <1>4 DEF T

LEMMA BarsOfNone == BarsOf(<<>>) = <<>>
<1>1. PICK f : BarsOf(<<>>) = f[0] /\ Keeping(f, <<>>)
    BY BarsRun
<1>2. QED
    BY <1>1 DEF Keeping

LEMMA BarsOfAppend ==
    ASSUME NEW s, SequenceLike(s), NEW x
    PROVE  BarsOf(Append(s, x)) = IF Priced(x) THEN Append(BarsOf(s), x) ELSE BarsOf(s)
<1>1. PICK t : t = Append(s, x)
    OBVIOUS
<1>2. PICK n \in Nat : n = Len(s)
    BY SequenceGrows
<1>3. Len(t) = n + 1 /\ t[n + 1] = x /\ \A i \in 1 .. n : t[i] = s[i]
    BY <1>1, <1>2, SequenceGrows
<1>4. PICK f : BarsOf(s) = f[n] /\ Keeping(f, s)
    BY <1>2, BarsRun
<1>5. PICK g : BarsOf(t) = g[n + 1] /\ Keeping(g, t)
    BY <1>3, BarsRun
<1>6. f[n] = g[n]
    BY <1>2, <1>3, <1>4, <1>5, KeepingAlike
<1>7. g[n + 1] = IF Priced(t[n + 1]) THEN Append(g[n], t[n + 1]) ELSE g[n]
    BY <1>3, <1>5 DEF Keeping
<1>8. QED
    BY <1>1, <1>3, <1>4, <1>5, <1>6, <1>7

-----------------------------------------------------------------------------
(* What one more bar does to what the bars moved and earned.               *)
AreBars(bars) == SequenceLike(bars) /\ \A i \in 1 .. Len(bars) : bars[i].mid \in Nat \ {0}

(* The return of a bar on the position before it.                          *)
Gain(bars, mid) ==
    IF Len(bars) = 0 THEN 0
    ELSE HeldAt(bars, Len(bars)) * ((Unit * (mid - bars[Len(bars)].mid)) \div bars[Len(bars)].mid)

LEMMA HeldTyped ==
    ASSUME NEW bars, NEW i
    PROVE  HeldAt(bars, i) \in -1 .. 1 /\ HeldAt(bars, i) \in Int
    BY DEF HeldAt, Target

LEMMA ReturnTyped ==
    ASSUME NEW mid \in Nat, NEW before \in Nat \ {0}
    PROVE  (Unit * (mid - before)) \div before \in Int
<1>1. PICK x : x = Unit * (mid - before)
    OBVIOUS
<1>2. x \in Int
    BY <1>1, SignalAssumption
<1>3. QED
    BY <1>1, <1>2, QuotientTyped

(* The bars and one more.                                                  *)
OneBarMore(bars, x, more) ==
    /\ AreBars(more) /\ Len(bars) \in Nat /\ Len(more) = Len(bars) + 1
    /\ more[Len(more)] = x
    /\ HeldAt(more, Len(more)) = Target(x.signal)
    /\ \A i \in 0 .. Len(bars) : HeldAt(more, i) = HeldAt(bars, i)
    /\ \A i \in 1 .. Len(bars) : more[i] = bars[i]

LEMMA OneMoreBar ==
    ASSUME NEW bars, AreBars(bars), NEW x, x.mid \in Nat \ {0}
    PROVE  OneBarMore(bars, x, Append(bars, x))
<1>8. PICK more : more = Append(bars, x)
    OBVIOUS
<1>1. /\ SequenceLike(more) /\ Len(bars) \in Nat /\ Len(more) = Len(bars) + 1
      /\ \A i \in 1 .. Len(bars) + 1 : more[i] = IF i = Len(bars) + 1 THEN x ELSE bars[i]
    BY <1>8, SequenceGrows DEF AreBars
<1>2. PICK n \in Nat : n = Len(bars)
    BY <1>1
<1>3. more[n + 1] = x /\ \A i \in 1 .. n : more[i] = bars[i]
    BY <1>1, <1>2
<1>4. AreBars(more)
    BY <1>1, <1>2, <1>3 DEF AreBars
<1>5. ASSUME NEW i \in 0 .. n PROVE HeldAt(more, i) = HeldAt(bars, i)
  <2>1. i # 0 => i \in 1 .. n
    OBVIOUS
  <2>2. QED
    BY <1>3, <2>1 DEF HeldAt
<1>6. HeldAt(more, n + 1) = Target(x.signal)
    BY <1>3 DEF HeldAt
<1>7. QED
    BY <1>1, <1>2, <1>3, <1>4, <1>5, <1>6, <1>8 DEF OneBarMore

LEMMA MovedMore ==
    ASSUME NEW bars, AreBars(bars), NEW x, x.mid \in Nat \ {0}, NEW more, more = Append(bars, x),
           Moved(bars) \in Seq(Int)
    PROVE  /\ Moved(more) \in Seq(Int)
           /\ Total(Moved(more))
                 = Total(Moved(bars)) + Abs(Target(x.signal) - HeldAt(bars, Len(bars)))
<1>1. /\ Len(bars) \in Nat /\ Len(more) = Len(bars) + 1
      /\ HeldAt(more, Len(more)) = Target(x.signal)
      /\ \A i \in 0 .. Len(bars) : HeldAt(more, i) = HeldAt(bars, i)
    BY OneMoreBar DEF OneBarMore
<1>2. PICK n \in Nat : n = Len(bars)
    BY <1>1
<1>3. PICK a : a = Abs(Target(x.signal) - HeldAt(bars, n))
    OBVIOUS
<1>4. a \in Int
    BY <1>3, HeldTyped DEF Abs, Target
<1>5. Moved(bars) = [i \in 1 .. n |-> Abs(HeldAt(bars, i) - HeldAt(bars, i - 1))]
    BY <1>2 DEF Moved
<1>6. Moved(more) = [i \in 1 .. n + 1 |-> Abs(HeldAt(more, i) - HeldAt(more, i - 1))]
    BY <1>1, <1>2 DEF Moved
<1>7. ASSUME NEW i \in 1 .. n + 1
      PROVE  Abs(HeldAt(more, i) - HeldAt(more, i - 1)) = IF i = n + 1 THEN a ELSE Moved(bars)[i]
  <2>1. CASE i = n + 1
    <3>1. HeldAt(more, i) = Target(x.signal) /\ HeldAt(more, i - 1) = HeldAt(bars, n)
      BY <1>1, <1>2, <2>1
    <3>2. QED
      BY <1>3, <2>1, <3>1
  <2>2. CASE i # n + 1
    <3>1. i \in 1 .. n /\ i \in 0 .. n /\ i - 1 \in 0 .. n
      BY <2>2
    <3>2. HeldAt(more, i) = HeldAt(bars, i) /\ HeldAt(more, i - 1) = HeldAt(bars, i - 1)
      BY <1>1, <1>2, <3>1
    <3>3. QED
      BY <1>5, <2>2, <3>1, <3>2
  <2>3. QED
    BY <2>1, <2>2
<1>8. Len(Moved(bars)) = n
    BY <1>5
<1>9. Append(Moved(bars), a) = [i \in 1 .. n + 1 |-> IF i = n + 1 THEN a ELSE Moved(bars)[i]]
  <2>1. PICK q : q = Append(Moved(bars), a)
    OBVIOUS
  <2>2. q \in Seq(Int) /\ Len(q) = n + 1
        /\ \A j \in 1 .. n + 1 : q[j] = IF j = n + 1 THEN a ELSE Moved(bars)[j]
    BY <1>4, <1>8, <2>1, AppendFacts
  <2>3. q = [i \in 1 .. n + 1 |-> q[i]]
    BY <2>2
  <2>4. QED
    BY <2>1, <2>2, <2>3
<1>10. Moved(more) = Append(Moved(bars), a)
    BY <1>6, <1>7, <1>9
<1>11. QED
    BY <1>2, <1>3, <1>4, <1>10, TotalOfAppend, AppendFacts

LEMMA EarnedMore ==
    ASSUME NEW bars, AreBars(bars), NEW x, x.mid \in Nat \ {0}, NEW more, more = Append(bars, x),
           Earned(bars) \in Seq(Int)
    PROVE  /\ Earned(more) \in Seq(Int) /\ Gain(bars, x.mid) \in Int
           /\ Total(Earned(more)) = Total(Earned(bars)) + Gain(bars, x.mid)
<1>1. /\ Len(bars) \in Nat /\ Len(more) = Len(bars) + 1 /\ more[Len(more)] = x
      /\ \A i \in 0 .. Len(bars) : HeldAt(more, i) = HeldAt(bars, i)
      /\ \A i \in 1 .. Len(bars) : more[i] = bars[i]
    BY OneMoreBar DEF OneBarMore
<1>2. PICK n \in Nat : n = Len(bars)
    BY <1>1
<1> DEFINE back(b, i) == IF i = 1 THEN 0
                         ELSE HeldAt(b, i - 1) * ((Unit * (b[i].mid - b[i - 1].mid))
                                                        \div b[i - 1].mid)
<1>3. PICK a : a = Gain(bars, x.mid)
    OBVIOUS
<1>4. a \in Int
  <2>1. CASE n = 0
    BY <1>2, <1>3, <2>1 DEF Gain
  <2>2. CASE n # 0
    <3>1. bars[n].mid \in Nat \ {0}
      BY <1>2, <2>2 DEF AreBars
    <3>2. PICK y \in Int : y = (Unit * (x.mid - bars[n].mid)) \div bars[n].mid
      BY <3>1, ReturnTyped
    <3>3. a = HeldAt(bars, n) * y
      BY <1>2, <1>3, <2>2, <3>2 DEF Gain
    <3>4. QED
      BY <3>3, HeldTyped
  <2>3. QED
    BY <2>1, <2>2
<1>5. Earned(bars) = [i \in 1 .. n |-> back(bars, i)]
    BY <1>2 DEF Earned
<1>6. Earned(more) = [i \in 1 .. n + 1 |-> back(more, i)]
    BY <1>1, <1>2 DEF Earned
<1>7. ASSUME NEW i \in 1 .. n + 1
      PROVE  back(more, i) = IF i = n + 1 THEN a ELSE Earned(bars)[i]
  <2>1. CASE i = n + 1
    <3>1. CASE n = 0
      BY <1>2, <1>3, <2>1, <3>1 DEF Gain
    <3>2. CASE n # 0
      <4>1. HeldAt(more, n) = HeldAt(bars, n) /\ more[n + 1] = x /\ more[n] = bars[n]
        BY <1>1, <1>2, <3>2
      <4>5. n + 1 # 1 /\ (n + 1) - 1 = n
        BY <3>2
      <4>2. back(more, n + 1)
               = HeldAt(more, n) * ((Unit * (more[n + 1].mid - more[n].mid)) \div more[n].mid)
        BY <4>5
      <4>3. a = HeldAt(bars, n) * ((Unit * (x.mid - bars[n].mid)) \div bars[n].mid)
        BY <1>2, <1>3, <3>2 DEF Gain
      <4> HIDE DEF back
      <4>4. QED
        BY <2>1, <4>1, <4>2, <4>3
    <3>3. QED
      BY <3>1, <3>2
  <2>2. CASE i # n + 1
    <3>1. i \in 1 .. n /\ i - 1 \in 0 .. n /\ (i # 1 => i - 1 \in 1 .. n)
      BY <2>2
    <3>2. more[i] = bars[i] /\ HeldAt(more, i - 1) = HeldAt(bars, i - 1)
          /\ (i # 1 => more[i - 1] = bars[i - 1])
      BY <1>1, <1>2, <3>1
    <3>3. back(more, i) = back(bars, i)
      BY <3>2
    <3> HIDE DEF back
    <3>4. QED
      BY <1>5, <2>2, <3>1, <3>3
  <2>3. QED
    BY <2>1, <2>2
<1> HIDE DEF back
<1>8. Len(Earned(bars)) = n
    BY <1>5
<1>9. Append(Earned(bars), a) = [i \in 1 .. n + 1 |-> IF i = n + 1 THEN a ELSE Earned(bars)[i]]
  <2>1. PICK q : q = Append(Earned(bars), a)
    OBVIOUS
  <2>2. q \in Seq(Int) /\ Len(q) = n + 1
        /\ \A j \in 1 .. n + 1 : q[j] = IF j = n + 1 THEN a ELSE Earned(bars)[j]
    BY <1>4, <1>8, <2>1, AppendFacts
  <2>3. q = [i \in 1 .. n + 1 |-> q[i]]
    BY <2>2
  <2>4. QED
    BY <2>1, <2>2, <2>3
<1>10. Earned(more) = Append(Earned(bars), a)
    BY <1>6, <1>7, <1>9
<1>11. QED
    BY <1>3, <1>4, <1>10, TotalOfAppend, AppendFacts

-----------------------------------------------------------------------------
(* The deepest fall of the curve ends at its last point when it is deeper  *)
(* than the one before, and starts at the peak: a fall from a lower point  *)
(* is none deeper.                                                         *)
FallTo(e, c) == Clamp((Unit * (c - e)) \div c, 0, Unit)

LEMMA FallIs ==
    ASSUME NEW e \in Int, NEW c \in Nat \ {0}
    PROVE  /\ FallTo(e, c) \in 0 .. Unit
           /\ e < 0 => FallTo(e, c) = Unit
           /\ e >= c => FallTo(e, c) = 0
<1>1. PICK U \in Nat \ {0} : U = Unit
    BY SignalAssumption
<1>2. PICK y \in Int : y = U * (c - e)
    OBVIOUS
<1>3. PICK q : q = y \div c
    OBVIOUS
<1>4. q \in Int
    BY <1>2, <1>3, QuotientTyped
<1>5. FallTo(e, c) = Clamp(q, 0, U)
    BY <1>1, <1>2, <1>3 DEF FallTo
<1>6. c * q <= y /\ y < c * q + c
    BY <1>2, <1>3
<1>7. ASSUME e < 0 PROVE FallTo(e, c) = Unit
  <2>1. PICK d \in Nat : d = -e /\ y = U * c + U * d
    BY <1>2, <1>7
  <2>2. U * d \in Nat
    BY <2>1
  <2>5. PICK s, t \in Int : s = c * q /\ t = U * c
    BY <1>4
  <2>6. PICK more \in Nat : more = U * d
    BY <2>2
  <2>7. y = t + more /\ y < s + c
    BY <1>6, <2>1, <2>5, <2>6
  <2>8. s + c > t
    BY <1>2, <2>5, <2>6, <2>7
  <2>3. c * q + c > U * c
    BY <2>5, <2>8
  <2>4. q >= U
    <3> SUFFICES ASSUME q <= U - 1 PROVE FALSE
      BY <1>4
    <3>1. c * q <= c * (U - 1)
      BY <1>4
    <3>2. c * (U - 1) + c = U * c
      OBVIOUS
    <3>3. PICK p1 \in Int : p1 = c * q
      BY <1>4
    <3>4. PICK p2 \in Int : p2 = c * (U - 1)
      OBVIOUS
    <3>5. PICK p3 \in Int : p3 = U * c
      OBVIOUS
    <3>6. QED
      BY <2>3, <3>1, <3>2, <3>3, <3>4, <3>5
  <2>9. QED
    BY <1>1, <1>4, <1>5, <2>4 DEF Clamp
<1>8. ASSUME e >= c PROVE FallTo(e, c) = 0
  <2>1. y <= 0
    BY <1>2, <1>8
  <2>2. q <= 0
    <3> SUFFICES ASSUME q >= 1 PROVE FALSE
      BY <1>4
    <3>1. c * q >= c
      BY <1>4
    <3>2. QED
      BY <1>2, <1>4, <1>6, <2>1, <3>1
  <2>3. QED
    BY <1>1, <1>4, <1>5, <2>2 DEF Clamp
<1>9. FallTo(e, c) \in 0 .. Unit
    BY <1>1, <1>4, <1>5, ClampFacts
<1>10. QED
    BY <1>7, <1>8, <1>9

LEMMA FallGrows ==
    ASSUME NEW e \in Int, NEW c \in Nat \ {0}, NEW p \in Nat \ {0}, c <= p
    PROVE  FallTo(e, c) <= FallTo(e, p)
<1>1. PICK U \in Nat \ {0} : U = Unit
    BY SignalAssumption
<1>2. FallTo(e, c) \in 0 .. U /\ FallTo(e, p) \in 0 .. U
    BY <1>1, FallIs
<1>3. CASE e < 0
    BY <1>3, FallIs, <1>1, <1>2
<1>4. CASE e >= c
  <2>1. FallTo(e, c) = 0
    BY <1>4, FallIs
  <2>2. QED
    BY <1>1, <1>2, <2>1
<1>5. CASE e >= 0 /\ e < c
  <2>1. PICK y, z : y = U * (c - e) /\ z = U * (p - e)
    OBVIOUS
  <2>2. y \in Nat /\ z \in Nat
    <3>1. c - e \in Nat /\ p - e \in Nat
      BY <1>5
    <3>2. PICK m, n \in Nat : m = c - e /\ n = p - e
      BY <3>1
    <3>3. U * m \in Nat /\ U * n \in Nat
      OBVIOUS
    <3>4. QED
      BY <2>1, <3>2, <3>3
  <2>3. PICK q, r : q = y \div c /\ r = z \div p
    OBVIOUS
  <2>4. q \in Nat /\ r \in Nat /\ c * q <= y /\ z < p * r + p
    BY <2>2, <2>3, QuotientIs
  <2>5. FallTo(e, c) = Clamp(q, 0, U) /\ FallTo(e, p) = Clamp(r, 0, U)
    BY <1>1, <2>1, <2>3 DEF FallTo
  <2>6. y = U * c - U * e /\ z = U * p - U * e
    BY <1>5, <2>1
  <2>7. PICK uc, up, ue \in Nat : uc = U * c /\ up = U * p /\ ue = U * e
    BY <1>5
  <2>8. c * q <= uc - ue /\ up - ue < p * r + p
    BY <2>4, <2>6, <2>7
  <2>9. q <= U
    <3> SUFFICES ASSUME q >= U + 1 PROVE FALSE
      BY <2>4
    <3>1. c * q >= c * (U + 1)
      BY <2>4
    <3>2. c * (U + 1) = uc + c
      BY <2>7
    <3>3. PICK s \in Nat : s = c * q
      BY <2>4
    <3>4. QED
      BY <2>7, <2>8, <3>1, <3>2, <3>3
  <2>10. PICK d \in Nat : d = U - q
    BY <2>9, <2>4
  <2>11. ue <= c * d
    <3>1. c * d = uc - c * q
      BY <2>4, <2>7, <2>10
    <3>2. PICK s \in Nat : s = c * q
      BY <2>4
    <3>3. QED
      BY <2>7, <2>8, <3>1, <3>2
  <2>12. c * d <= p * d
    BY <2>10
  <2>13. p * q <= up - ue
    <3>1. p * d = up - p * q
      BY <2>4, <2>7, <2>10
    <3>2. PICK s, t, w \in Nat : s = c * d /\ t = p * d /\ w = p * q
      BY <2>4, <2>10
    <3>3. QED
      BY <2>7, <2>11, <2>12, <3>1, <3>2
  <2>14. q <= r
    <3> SUFFICES ASSUME q >= r + 1 PROVE FALSE
      BY <2>4
    <3>1. p * q >= p * (r + 1)
      BY <2>4
    <3>2. p * (r + 1) = p * r + p
      BY <2>4
    <3>3. PICK s, t \in Nat : s = p * q /\ t = p * r
      BY <2>4
    <3>4. QED
      BY <2>7, <2>8, <2>13, <3>1, <3>2, <3>3
  <2>15. QED
    BY <2>4, <2>5, <2>14 DEF Clamp
<1>6. QED
    BY <1>3, <1>4, <1>5

(* The peak is the highest point.                                          *)
Falls(c, peak, d) ==
    /\ DeepestFall(c, d)
    /\ \A i \in 1 .. Len(c) : c[i] <= peak
    /\ \E i \in 1 .. Len(c) : c[i] = peak

LEMMA FallsGrow ==
    ASSUME NEW c \in Seq(Int), NEW p \in Int, p >= Unit, NEW d \in 0 .. Unit, Falls(c, p, d),
           NEW e \in Int, NEW q, q = Greater(p, e), NEW f, f = Greater(d, FallTo(e, q)),
           NEW w, w = Append(c, e)
    PROVE  Falls(w, q, f)
<1>1. PICK n \in Nat : n = Len(c)
    OBVIOUS
<1>2. /\ w \in Seq(Int) /\ Len(w) = n + 1 /\ w[n + 1] = e /\ \A i \in 1 .. n : w[i] = c[i]
  <2>1. /\ w \in Seq(Int) /\ Len(w) = n + 1
        /\ \A j \in 1 .. n + 1 : w[j] = IF j = n + 1 THEN e ELSE c[j]
    BY <1>1, AppendFacts
  <2>2. QED
    BY <2>1
<1>3. DOMAIN c = 1 .. n /\ DOMAIN w = 1 .. n + 1 /\ \A i \in 1 .. n : c[i] \in Int
    BY <1>1, <1>2
<1>4. q \in Nat \ {0} /\ q >= p /\ q >= e /\ (q = p \/ q = e)
    BY SignalAssumption DEF Greater
<1>5. FallTo(e, q) \in 0 .. Unit
    BY <1>4, FallIs
<1>6. f \in 0 .. Unit /\ f >= d /\ f >= FallTo(e, q) /\ (f = d \/ f = FallTo(e, q))
    BY <1>5, SignalAssumption DEF Greater
<1>7. \A i \in 1 .. n + 1 : w[i] <= q /\ w[i] \in Int
  <2>1. ASSUME NEW i \in 1 .. n + 1 PROVE w[i] <= q /\ w[i] \in Int
    <3>1. CASE i = n + 1
      BY <1>2, <1>4, <3>1
    <3>2. CASE i # n + 1
      <4>1. i \in 1 .. n
        BY <3>2
      <4>2. c[i] <= p /\ c[i] \in Int
        BY <1>1, <1>3, <4>1 DEF Falls
      <4>3. PICK v \in Int : v = c[i] /\ v <= p
        BY <4>2
      <4>7. q \in Int /\ p <= q
        BY <1>4
      <4>8. v \in Int /\ v <= p
        BY <4>3
      <4>4. v <= q
        BY <4>7, <4>8
      <4>5. w[i] = v
        BY <1>2, <4>1, <4>3
      <4>6. QED
        BY <4>3, <4>4, <4>5
    <3>3. QED
      BY <3>1, <3>2
  <2>2. QED
    BY <2>1
<1>8. PICK m \in 1 .. n + 1 : w[m] = q
  <2>1. CASE q = e
    BY <1>2, <2>1
  <2>2. CASE q = p
    <3>1. PICK i \in 1 .. n : c[i] = p
      BY <1>1 DEF Falls
    <3>2. QED
      BY <1>2, <2>2, <3>1
  <2>3. QED
    BY <1>4, <2>1, <2>2
<1>9. \A i \in 1 .. n + 1 : Fall(w, i, n + 1) = FallTo(e, w[i])
    BY <1>2 DEF Fall, FallTo
<1>10. \A i \in 1 .. n : \A j \in i .. n : Fall(w, i, j) = Fall(c, i, j)
  <2>1. ASSUME NEW i \in 1 .. n, NEW j \in i .. n PROVE Fall(w, i, j) = Fall(c, i, j)
    <3>1. j \in 1 .. n
      OBVIOUS
    <3>2. w[i] = c[i] /\ w[j] = c[j]
      BY <1>2, <3>1
    <3>3. QED
      BY <3>2 DEF Fall
  <2>2. QED
    BY <2>1
<1>11. ASSUME NEW i \in 1 .. n + 1, NEW j \in i .. n + 1, w[i] > 0 PROVE Fall(w, i, j) <= f
  <2>1. CASE j = n + 1
    <3>5. PICK u \in Int : u = w[i] /\ u <= q
      BY <1>7
    <3>10. u > 0
      BY <1>11, <3>5
    <3>6. u \in Nat \ {0}
      BY <3>10
    <3>1. PICK v \in Nat \ {0} : v = w[i] /\ v <= q
      BY <3>5, <3>6
    <3>2. FallTo(e, v) <= FallTo(e, q) /\ FallTo(e, v) \in 0 .. Unit
      BY <1>4, <3>1, FallGrows, FallIs
    <3>3. Fall(w, i, j) = FallTo(e, v)
      BY <1>9, <2>1, <3>1
    <3>7. PICK a, b \in Int : a = FallTo(e, v) /\ b = FallTo(e, q)
      BY <1>5, <3>2
    <3>8. a <= b /\ b <= f /\ f \in Int
      BY <1>6, <3>2, <3>7
    <3>9. a <= f
      BY <3>8
    <3>4. QED
      BY <3>3, <3>7, <3>9
  <2>2. CASE j # n + 1
    <3>1. i \in 1 .. n /\ j \in i .. n
      BY <2>2
    <3>2. Fall(w, i, j) = Fall(c, i, j) /\ w[i] = c[i]
      BY <1>2, <1>10, <3>1
    <3>3. Fall(c, i, j) <= d
      BY <1>1, <1>3, <1>11, <3>1, <3>2 DEF Falls, DeepestFall
    <3>4. Fall(c, i, j) \in Int
      <4>1. PICK v \in Nat \ {0} : v = c[i]
        BY <1>3, <1>11, <3>1, <3>2
      <4>2. j \in 1 .. n
        BY <3>1
      <4>3. Fall(c, i, j) = FallTo(c[j], v) /\ c[j] \in Int
        BY <1>3, <4>1, <4>2 DEF Fall, FallTo
      <4>4. FallTo(c[j], v) \in 0 .. Unit
        BY <4>3, FallIs
      <4>5. QED
        BY <4>3, <4>4
    <3>5. PICK a \in Int : a = Fall(c, i, j) /\ a <= d
      BY <3>3, <3>4
    <3>6. a <= f
      BY <1>6, <3>5
    <3>7. QED
      BY <3>2, <3>5, <3>6
  <2>3. QED
    BY <2>1, <2>2
<1>12. ASSUME f > 0
       PROVE  \E i \in 1 .. n + 1 : \E j \in i .. n + 1 : w[i] > 0 /\ Fall(w, i, j) = f
  <2>1. CASE f = FallTo(e, q)
    <3>1. w[m] > 0
      BY <1>4, <1>8
    <3>2. Fall(w, m, n + 1) = f
      BY <1>8, <1>9, <2>1
    <3>3. n + 1 \in m .. n + 1
      OBVIOUS
    <3>4. QED
      BY <3>1, <3>2, <3>3
  <2>2. CASE f = d
    <3>1. PICK i \in 1 .. n : \E j \in i .. n : c[i] > 0 /\ Fall(c, i, j) = d
      BY <1>1, <1>3, <1>12, <2>2 DEF Falls, DeepestFall
    <3>2. PICK j \in i .. n : c[i] > 0 /\ Fall(c, i, j) = d
      BY <3>1
    <3>3. i \in 1 .. n + 1 /\ j \in i .. n + 1 /\ w[i] > 0 /\ Fall(w, i, j) = f
      BY <1>2, <1>10, <2>2, <3>2
    <3>4. QED
      BY <3>3
  <2>3. QED
    BY <1>6, <2>1, <2>2
<1>13. DeepestFall(w, f)
    BY <1>2, <1>3, <1>11, <1>12 DEF DeepestFall
<1>14. QED
    BY <1>2, <1>7, <1>8, <1>13 DEF Falls

-----------------------------------------------------------------------------
(* What a bar and a result do to the accounts.                             *)
LEMMA CurveGrows ==
    ASSUME NEW c \in Seq(Int), NEW e \in Int
    PROVE  /\ <<Unit>> \o c \in Seq(Int)
           /\ <<Unit>> \o Append(c, e) = Append(<<Unit>> \o c, e)
<1>1. Unit \in Int
    BY SignalAssumption
<1>2. PICK n \in Nat : n = Len(c)
    OBVIOUS
<1>3. PICK a, b : a = <<Unit>> \o c /\ b = <<Unit>> \o Append(c, e)
    OBVIOUS
<1>4. PICK d : d = Append(c, e)
    OBVIOUS
<1>5. d \in Seq(Int) /\ Len(d) = n + 1 /\ \A j \in 1 .. n + 1 : d[j] = IF j = n + 1 THEN e ELSE c[j]
    BY <1>2, <1>4, AppendFacts
<1>6. /\ a \in Seq(Int) /\ Len(a) = n + 1 /\ a[1] = Unit
      /\ \A i \in 2 .. n + 1 : a[i] = c[i - 1]
    BY <1>1, <1>2, <1>3
<1>7. /\ b \in Seq(Int) /\ Len(b) = n + 2 /\ b[1] = Unit
      /\ \A i \in 2 .. n + 2 : b[i] = d[i - 1]
  <2>1. PICK g : g = <<Unit>> \o d
    OBVIOUS
  <2>2. g \in Seq(Int) /\ Len(g) = n + 2 /\ g[1] = Unit
    BY <1>1, <1>5, <2>1
  <2>3. \A i \in 2 .. n + 2 : g[i] = d[i - 1]
    BY <1>1, <1>5, <2>1
  <2>4. QED
    BY <1>3, <1>4, <2>1, <2>2, <2>3
<1>8. PICK f : f = Append(a, e)
    OBVIOUS
<1>9. f \in Seq(Int) /\ Len(f) = n + 2 /\ \A j \in 1 .. n + 2 : f[j] = IF j = n + 2 THEN e ELSE a[j]
    BY <1>6, <1>8, AppendFacts
<1>10. \A j \in 1 .. n + 2 : f[j] = b[j]
  <2>1. ASSUME NEW j \in 1 .. n + 2 PROVE f[j] = b[j]
    <3>1. CASE j = 1
      BY <1>6, <1>7, <1>9, <3>1
    <3>2. CASE j # 1
      <4>1. j - 1 \in 1 .. n + 1 /\ j \in 2 .. n + 2
        BY <3>2
      <4>2. b[j] = IF j = n + 2 THEN e ELSE c[j - 1]
        BY <1>5, <1>7, <4>1
      <4>3. f[j] = IF j = n + 2 THEN e ELSE c[j - 1]
        BY <1>6, <1>9, <4>1
      <4>4. QED
        BY <4>2, <4>3
    <3>3. QED
      BY <3>1, <3>2
  <2>2. QED
    BY <2>1
<1>11. f = b
    BY <1>7, <1>9, <1>10
<1>12. QED
    BY <1>3, <1>6, <1>8, <1>11

RecordedFrom(r, t, e) ==
    /\ r.position = t.position /\ r.entry = t.entry /\ r.last = t.last
    /\ r.pnl = t.pnl /\ r.cost = t.cost /\ r.turnover = t.turnover /\ r.bars = t.bars
    /\ r.curve = Append(t.curve, e) /\ r.peak = Greater(t.peak, e)
    /\ r.drawdown = Greater(t.drawdown, FallTo(e, r.peak))

LEMMA RecordFields ==
    ASSUME NEW t \in Accounts
    PROVE  RecordedFrom(RecordEquity(t), t, Equity(t))
<1>1. PICK e : e = Equity(t)
    OBVIOUS
<1>2. PICK peak : peak = Greater(t.peak, e)
    OBVIOUS
<1>3. PICK drawdown : drawdown = Greater(t.drawdown, FallTo(e, peak))
    OBVIOUS
<1>4. PICK curve : curve = Append(t.curve, e)
    OBVIOUS
<1>5. PICK r : r = [t EXCEPT !.curve = curve, !.peak = peak, !.drawdown = drawdown]
    OBVIOUS
<1>6. RecordEquity(t) = r
    BY <1>1, <1>2, <1>3, <1>4, <1>5, Zenon DEF RecordEquity, FallTo
<1>7. /\ r.position = t.position /\ r.entry = t.entry /\ r.last = t.last
      /\ r.pnl = t.pnl /\ r.cost = t.cost /\ r.turnover = t.turnover /\ r.bars = t.bars
      /\ r.curve = curve /\ r.peak = peak /\ r.drawdown = drawdown
    BY <1>5 DEF Accounts
<1>8. QED
    BY <1>1, <1>2, <1>3, <1>4, <1>6, <1>7 DEF RecordedFrom

(* The return of an open position.                                         *)
OpenGain(t, mid) ==
    IF t.position = 0 \/ t.entry = 0 THEN 0
    ELSE t.position * ((Unit * (mid - t.entry)) \div t.entry)

MarkedFrom(m, t, mid) ==
    /\ m.position = t.position /\ m.last = mid /\ m.pnl = t.pnl + OpenGain(t, mid)
    /\ m.cost = t.cost /\ m.turnover = t.turnover /\ m.bars = t.bars
    /\ m.curve = t.curve /\ m.peak = t.peak /\ m.drawdown = t.drawdown
    /\ t.position # 0 /\ t.entry # 0 => m.entry = mid

LEMMA MarkFields ==
    ASSUME NEW t \in Accounts, NEW mid
    PROVE  MarkedFrom(MarkToMarket(t, mid), t, mid)
<1>1. t.pnl \in Int
    BY DEF Accounts
<1>2. CASE t.position = 0 \/ t.entry = 0
  <2>1. MarkToMarket(t, mid) = [t EXCEPT !.last = mid]
    BY <1>2 DEF MarkToMarket
  <2>2. OpenGain(t, mid) = 0
    BY <1>2 DEF OpenGain
  <2>3. QED
    BY <1>1, <1>2, <2>1, <2>2 DEF Accounts, MarkedFrom
<1>3. CASE ~ (t.position = 0 \/ t.entry = 0)
  <2>1. PICK pnl : pnl = t.pnl + OpenGain(t, mid)
    OBVIOUS
  <2>2. MarkToMarket(t, mid) = [t EXCEPT !.pnl = pnl, !.entry = mid, !.last = mid]
    BY <1>3, <2>1, Zenon DEF MarkToMarket, OpenGain
  <2>3. PICK m : m = [t EXCEPT !.pnl = pnl, !.entry = mid, !.last = mid]
    OBVIOUS
  <2>4. /\ m.position = t.position /\ m.last = mid /\ m.pnl = pnl
        /\ m.cost = t.cost /\ m.turnover = t.turnover /\ m.bars = t.bars
        /\ m.curve = t.curve /\ m.peak = t.peak /\ m.drawdown = t.drawdown /\ m.entry = mid
    BY <2>3 DEF Accounts
  <2>5. QED
    BY <2>1, <2>2, <2>3, <2>4 DEF MarkedFrom
<1>4. QED
    BY <1>2, <1>3

RebalancedFrom(m, t, target, mid) ==
    /\ m.position = target /\ m.last = t.last /\ m.pnl = t.pnl
    /\ m.turnover = t.turnover + Abs(target - t.position)
    /\ m.cost = t.cost + Abs(target - t.position) * Cost
    /\ m.bars = t.bars /\ m.curve = t.curve /\ m.peak = t.peak /\ m.drawdown = t.drawdown
    /\ t.position # 0 => m.entry \in {t.entry, mid}
    /\ t.position = 0 /\ m.position # 0 => m.entry = mid

LEMMA RebalancedFields ==
    ASSUME NEW t \in Accounts, NEW target \in -1 .. 1, NEW mid
    PROVE  RebalancedFrom(Rebalanced(t, target, mid), t, target, mid)
<1>1. PICK delta : delta = Abs(target - t.position)
    OBVIOUS
<1>2. t.position \in Int /\ t.cost \in Int /\ t.turnover \in Int /\ t.trades \in Nat /\ Cost \in Nat
    BY AnalyticsAssumption DEF Accounts
<1>3. delta \in Int /\ (delta = 0 <=> target = t.position)
    BY <1>1, <1>2 DEF Abs
<1>4. PICK m : m = Rebalanced(t, target, mid)
    OBVIOUS
<1>5. CASE delta = 0
  <2>1. m = t /\ target = t.position
    BY <1>1, <1>3, <1>4, <1>5 DEF Rebalanced
  <2>2. t.turnover = t.turnover + delta /\ t.cost = t.cost + delta * Cost
    BY <1>2, <1>5
  <2>3. QED
    BY <1>1, <1>4, <2>1, <2>2 DEF RebalancedFrom
<1>6. CASE delta # 0
  <2>1. PICK cost, turnover : cost = t.cost + delta * Cost /\ turnover = t.turnover + delta
    OBVIOUS
  <2>2. m = [t EXCEPT !.cost = cost, !.turnover = turnover, !.trades = t.trades + 1,
                      !.position = target, !.entry = mid]
    BY <1>1, <1>4, <1>6, <2>1, Zenon DEF Rebalanced
  <2>3. /\ m.position = target /\ m.last = t.last /\ m.pnl = t.pnl
        /\ m.turnover = turnover /\ m.cost = cost
        /\ m.bars = t.bars /\ m.curve = t.curve /\ m.peak = t.peak /\ m.drawdown = t.drawdown
        /\ m.entry = mid
    BY <2>2 DEF Accounts
  <2>4. QED
    BY <1>1, <1>4, <2>1, <2>3 DEF RebalancedFrom
<1>7. QED
    BY <1>5, <1>6

(* The accounts of a backtest are those of its bars.                       *)
AccountsOf(t, bars, more) ==
    /\ AreBars(bars) /\ more \in Nat
    /\ Moved(bars) \in Seq(Int) /\ Earned(bars) \in Seq(Int)
    /\ t.turnover = Total(Moved(bars)) /\ t.pnl = Total(Earned(bars))
    /\ t.cost = t.turnover * Cost
    /\ t.bars = Len(bars) /\ Len(t.curve) = Len(bars) + more
    /\ t.position = HeldAt(bars, Len(bars))
    /\ t.position # 0 => t.entry = bars[Len(bars)].mid /\ t.last = t.entry
    /\ Falls(<<Unit>> \o t.curve, t.peak, t.drawdown)

LEMMA PositionHasABar ==
    ASSUME NEW t, NEW bars, NEW more, AccountsOf(t, bars, more), t.position # 0
    PROVE  /\ Len(bars) \in Nat \ {0} /\ bars[Len(bars)].mid \in Nat \ {0}
           /\ t.entry = bars[Len(bars)].mid /\ t.last = t.entry
<1>1. SequenceLike(bars) /\ AreBars(bars) /\ t.position = HeldAt(bars, Len(bars))
      /\ t.entry = bars[Len(bars)].mid /\ t.last = t.entry
    BY DEF AccountsOf, AreBars
<1>2. Len(bars) \in Nat /\ Len(bars) # 0
    BY <1>1, SequenceGrows DEF HeldAt
<1>3. QED
    BY <1>1, <1>2 DEF AreBars

LEMMA AccountsAfterBar ==
    ASSUME NEW t, BacktestTyped(t), NEW bars, NEW more, AccountsOf(t, bars, more),
           NEW x, x.mid \in Nat \ {0}
    PROVE  AccountsOf(OnBar(t, x.signal, x.mid), Append(bars, x), more)
<1>1. PICK mid \in Nat \ {0}, target \in -1 .. 1 : mid = x.mid /\ target = Target(x.signal)
    BY DEF Target
<1>2. PICK m, b, r, u : /\ m = MarkToMarket(t, mid) /\ b = Rebalanced(m, target, mid)
                        /\ r = RecordEquity(b) /\ u = OnBar(t, x.signal, x.mid)
    OBVIOUS
<1>3. t \in Accounts /\ m \in Accounts /\ b \in Accounts
    BY <1>2, MarkTyped, RebalancedTyped DEF BacktestTyped
<1>4. m.peak = t.peak /\ m.drawdown = t.drawdown /\ b.peak = m.peak /\ b.drawdown = m.drawdown
    BY <1>2, <1>3, MarkTyped, RebalancedTyped
<1>5. BacktestTyped(b)
    BY <1>3, <1>4 DEF BacktestTyped
<1>6. BacktestTyped(r)
    BY <1>2, <1>5, RecordTyped
<1>7. MarkedFrom(m, t, mid) /\ RebalancedFrom(b, m, target, mid) /\ RecordedFrom(r, b, Equity(b))
    BY <1>2, <1>3, MarkFields, RebalancedFields, RecordFields
<1>8. u = [r EXCEPT !.bars = r.bars + 1]
  <2>1. mid \notin {InvalidPrice, 0}
    BY SessionAssumption
  <2>2. QED
    BY <1>1, <1>2, <2>1, Zenon DEF OnBar
<1>9. /\ u.position = r.position /\ u.entry = r.entry /\ u.last = r.last /\ u.pnl = r.pnl
      /\ u.cost = r.cost /\ u.turnover = r.turnover /\ u.curve = r.curve /\ u.peak = r.peak
      /\ u.drawdown = r.drawdown /\ u.bars = r.bars + 1
    BY <1>6, <1>8 DEF BacktestTyped, Accounts
<1>10. PICK all : all = Append(bars, x)
    OBVIOUS
<1>11. AreBars(bars) /\ OneBarMore(bars, x, all)
    BY <1>10, OneMoreBar DEF AccountsOf
<1>12. PICK n \in Nat : n = Len(bars) /\ Len(all) = n + 1 /\ AreBars(all) /\ all[n + 1] = x
                        /\ HeldAt(all, n + 1) = target
    BY <1>1, <1>11 DEF OneBarMore
<1>13. PICK held : held = HeldAt(bars, n) /\ held = t.position /\ held \in -1 .. 1
    BY <1>12, HeldTyped DEF AccountsOf
<1>14. OpenGain(t, mid) = Gain(bars, mid)
  <2>1. CASE held = 0
    <3>1. OpenGain(t, mid) = 0
      BY <1>13, <2>1 DEF OpenGain
    <3>2. CASE n = 0
      BY <1>12, <3>1, <3>2 DEF Gain
    <3>3. CASE n # 0
      <4>1. bars[n].mid \in Nat \ {0}
        BY <1>11, <1>12, <3>3 DEF AreBars
      <4>2. PICK y \in Int : y = (Unit * (mid - bars[n].mid)) \div bars[n].mid
        BY <4>1, ReturnTyped
      <4>3. Gain(bars, mid) = held * y
        BY <1>12, <1>13, <3>3, <4>2 DEF Gain
      <4>4. held * y = 0
        BY <2>1
      <4>5. QED
        BY <3>1, <4>3, <4>4
    <3>4. QED
      BY <3>2, <3>3
  <2>2. CASE held # 0
    <3>1. n # 0 /\ bars[n].mid # 0 /\ t.entry = bars[n].mid
      BY <1>12, <1>13, <2>2, PositionHasABar
    <3>2. QED
      BY <1>12, <1>13, <2>2, <3>1 DEF OpenGain, Gain
  <2>3. QED
    BY <2>1, <2>2
<1>15. PICK gain \in Int, moved \in Int :
          /\ gain = Gain(bars, mid) /\ moved = Abs(target - held)
          /\ Earned(all) \in Seq(Int) /\ Total(Earned(all)) = Total(Earned(bars)) + gain
          /\ Moved(all) \in Seq(Int) /\ Total(Moved(all)) = Total(Moved(bars)) + moved
  <2>1. Earned(bars) \in Seq(Int) /\ Moved(bars) \in Seq(Int)
    BY DEF AccountsOf
  <2>2. /\ Earned(all) \in Seq(Int) /\ Gain(bars, mid) \in Int
        /\ Total(Earned(all)) = Total(Earned(bars)) + Gain(bars, mid)
    BY <1>1, <1>10, <1>11, <2>1, EarnedMore
  <2>3. Moved(all) \in Seq(Int) /\ Total(Moved(all)) = Total(Moved(bars)) + Abs(target - held)
    BY <1>1, <1>10, <1>11, <1>12, <1>13, <2>1, MovedMore
  <2>4. Abs(target - held) \in Int
    BY <1>13 DEF Abs
  <2>5. QED
    BY <2>2, <2>3, <2>4
<1>16. u.pnl = Total(Earned(all))
    BY <1>7, <1>9, <1>14, <1>15 DEF MarkedFrom, RebalancedFrom, RecordedFrom, AccountsOf
<1>17. u.turnover = Total(Moved(all)) /\ u.cost = u.turnover * Cost
  <2>1. t.turnover \in Int /\ t.cost = t.turnover * Cost /\ t.turnover = Total(Moved(bars))
        /\ Cost \in Nat
    BY <1>3, AnalyticsAssumption DEF AccountsOf, Accounts
  <2>2. u.turnover = t.turnover + moved /\ u.cost = t.cost + moved * Cost
    BY <1>7, <1>9, <1>13, <1>15 DEF MarkedFrom, RebalancedFrom, RecordedFrom
  <2>3. (t.turnover + moved) * Cost = t.turnover * Cost + moved * Cost
    BY <2>1
  <2>4. QED
    BY <1>15, <2>1, <2>2, <2>3
<1>18. u.bars = n + 1 /\ t.bars = n
    BY <1>7, <1>9, <1>12 DEF MarkedFrom, RebalancedFrom, RecordedFrom, AccountsOf
<1>19. PICK e \in Int : e = Equity(b)
  <2>1. b.pnl \in Int /\ b.cost \in Int /\ Unit \in Int
    BY <1>3, SignalAssumption DEF Accounts
  <2>2. QED
    BY <2>1 DEF Equity
<1>20. t.curve \in Seq(Int) /\ u.curve = Append(t.curve, e)
    BY <1>3, <1>7, <1>9, <1>19 DEF MarkedFrom, RebalancedFrom, RecordedFrom, Accounts
<1>21. Len(u.curve) = (n + 1) + more
  <2>1. Len(t.curve) = n + more /\ more \in Nat
    BY <1>12 DEF AccountsOf
  <2>2. Len(u.curve) = Len(t.curve) + 1
    BY <1>20, AppendFacts
  <2>3. QED
    BY <2>1, <2>2
<1>22. u.position = target
    BY <1>7, <1>9 DEF RebalancedFrom, RecordedFrom
<1>23. u.position # 0 => u.entry = mid /\ u.last = u.entry
  <2>1. u.last = mid
    BY <1>7, <1>9 DEF MarkedFrom, RebalancedFrom, RecordedFrom
  <2>2. t.position # 0 => t.entry # 0
    BY PositionHasABar
  <2>3. u.position # 0 => u.entry = mid
    BY <1>7, <1>9, <2>2 DEF MarkedFrom, RebalancedFrom, RecordedFrom
  <2>4. QED
    BY <2>1, <2>3
<1>24. Falls(<<Unit>> \o u.curve, u.peak, u.drawdown)
  <2>1. Falls(<<Unit>> \o t.curve, t.peak, t.drawdown)
    BY DEF AccountsOf
  <2>2. PICK c, w : c = <<Unit>> \o t.curve /\ w = <<Unit>> \o u.curve
    OBVIOUS
  <2>3. c \in Seq(Int) /\ w = Append(c, e)
    BY <1>20, <2>2, CurveGrows
  <2>4. PICK p, q, d, f : p = t.peak /\ q = u.peak /\ d = t.drawdown /\ f = u.drawdown
    OBVIOUS
  <2>5. p \in Int /\ p >= Unit /\ d \in 0 .. Unit
    BY <2>4 DEF BacktestTyped, Accounts
  <2>6. q = Greater(p, e) /\ f = Greater(d, FallTo(e, q))
    BY <1>4, <1>7, <1>9, <1>19, <2>4 DEF RecordedFrom
  <2>7. Falls(c, p, d)
    BY <2>1, <2>2, <2>4
  <2>8. Falls(w, q, f)
    BY <2>3, <2>5, <2>6, <2>7, FallsGrow
  <2>9. QED
    BY <2>2, <2>4, <2>8
<1>25. all[Len(all)].mid = mid
    BY <1>1, <1>12
<1>26. more \in Nat
    BY DEF AccountsOf
<1>27. AccountsOf(u, all, more)
    BY <1>12, <1>15, <1>16, <1>17, <1>18, <1>21, <1>22, <1>23, <1>24, <1>25, <1>26
    DEF AccountsOf
<1>28. QED
    BY <1>2, <1>10, <1>27

-----------------------------------------------------------------------------
(* A result marks an open position at the price it is marked at already.   *)
LEMMA AccountsAfterResult ==
    ASSUME NEW t, BacktestTyped(t), NEW bars, NEW more, AccountsOf(t, bars, more)
    PROVE  AccountsOf(Result(t), bars, more + One(Result(t).curve # t.curve))
<1>1. t \in Accounts /\ more \in Nat /\ t.curve \in Seq(Int) /\ t.pnl \in Int
    BY DEF BacktestTyped, AccountsOf, Accounts
<1>2. CASE ~ (t.position # 0 /\ t.entry # 0 /\ t.last # 0)
  <2>1. Result(t) = t
    BY <1>2 DEF Result
  <2>2. more + One(Result(t).curve # t.curve) = more
    BY <1>1, <2>1 DEF One
  <2>3. QED
    BY <2>1, <2>2
<1>3. CASE t.position # 0 /\ t.entry # 0 /\ t.last # 0
  <2>1. PICK m, u : m = MarkToMarket(t, t.last) /\ u = RecordEquity(m)
    OBVIOUS
  <2>2. Result(t) = u
    BY <1>3, <2>1 DEF Result
  <2>3. t.last \in Nat /\ t.entry \in Nat \ {0} /\ t.last = t.entry
        /\ t.entry = bars[Len(bars)].mid
    BY <1>1, <1>3, PositionHasABar DEF Accounts
  <2>4. m \in Accounts /\ MarkedFrom(m, t, t.last)
    BY <1>1, <2>1, <2>3, MarkTyped, MarkFields
  <2>5. RecordedFrom(u, m, Equity(m))
    BY <2>1, <2>4, RecordFields
  <2>6. OpenGain(t, t.last) = 0
    <3>1. PICK d \in Nat \ {0} : d = t.entry /\ d = t.last
      BY <2>3
    <3>2. Unit * (d - d) = 0
      BY SignalAssumption
    <3>3. 0 \div d = 0
      OBVIOUS
    <3>4. t.position \in Int
      BY <1>1 DEF Accounts
    <3>5. QED
      BY <1>3, <3>1, <3>2, <3>3, <3>4 DEF OpenGain
  <2>7. /\ u.position = t.position /\ u.entry = t.entry /\ u.last = t.last /\ u.pnl = t.pnl
        /\ u.cost = t.cost /\ u.turnover = t.turnover /\ u.bars = t.bars
    BY <1>1, <1>3, <2>3, <2>4, <2>5, <2>6 DEF MarkedFrom, RecordedFrom
  <2>8. PICK e \in Int : e = Equity(m)
    <3>1. m.pnl \in Int /\ m.cost \in Int /\ Unit \in Int
      BY <2>4, SignalAssumption DEF Accounts
    <3>2. QED
      BY <3>1 DEF Equity
  <2>9. u.curve = Append(t.curve, e)
    BY <2>4, <2>5, <2>8 DEF MarkedFrom, RecordedFrom
  <2>10. Len(u.curve) = Len(t.curve) + 1 /\ u.curve # t.curve
    <3>1. PICK n \in Nat : n = Len(t.curve)
      BY <1>1
    <3>2. Len(u.curve) = n + 1
      BY <1>1, <2>9, <3>1, AppendFacts
    <3>3. QED
      BY <3>1, <3>2
  <2>11. more + One(u.curve # t.curve) = more + 1
    BY <2>10 DEF One
  <2>12. Falls(<<Unit>> \o u.curve, u.peak, u.drawdown)
    <3>1. Falls(<<Unit>> \o t.curve, t.peak, t.drawdown)
      BY DEF AccountsOf
    <3>2. PICK c, w : c = <<Unit>> \o t.curve /\ w = <<Unit>> \o u.curve
      OBVIOUS
    <3>3. c \in Seq(Int) /\ w = Append(c, e)
      BY <1>1, <2>9, <3>2, CurveGrows
    <3>4. PICK p, q, d, f : p = t.peak /\ q = u.peak /\ d = t.drawdown /\ f = u.drawdown
      OBVIOUS
    <3>5. p \in Int /\ p >= Unit /\ d \in 0 .. Unit
      BY <3>4 DEF BacktestTyped, Accounts
    <3>6. q = Greater(p, e) /\ f = Greater(d, FallTo(e, q))
      BY <2>4, <2>5, <2>8, <3>4 DEF MarkedFrom, RecordedFrom
    <3>7. Falls(c, p, d)
      BY <3>1, <3>2, <3>4
    <3>8. Falls(w, q, f)
      BY <3>3, <3>5, <3>6, <3>7, FallsGrow
    <3>9. QED
      BY <3>2, <3>4, <3>8
  <2>13. Len(u.curve) = Len(bars) + (more + 1)
    <3>1. Len(t.curve) = Len(bars) + more /\ Len(bars) \in Nat
      BY <1>3, PositionHasABar DEF AccountsOf
    <3>2. QED
      BY <1>1, <2>10, <3>1
  <2>14. AccountsOf(u, bars, more + 1)
    BY <1>1, <2>7, <2>12, <2>13 DEF AccountsOf
  <2>15. QED
    BY <2>2, <2>11, <2>14
<1>4. QED
    BY <1>2, <1>3

LEMMA NewAccounts ==
    ASSUME NEW curve, NEW more, \/ curve = <<>> /\ more = 0
                                \/ curve = <<Unit>> /\ more = 1
    PROVE  AccountsOf(NewBacktest(curve), <<>>, more)
<1>1. PICK t : t = NewBacktest(curve)
    OBVIOUS
<1>2. /\ t.position = 0 /\ t.pnl = 0 /\ t.cost = 0 /\ t.turnover = 0 /\ t.bars = 0
      /\ t.peak = Unit /\ t.drawdown = 0 /\ t.curve = curve
    BY <1>1 DEF NewBacktest
<1>3. AreBars(<<>>) /\ Len(<<>>) = 0
  <2>1. <<>> \in Seq({})
    OBVIOUS
  <2>2. QED
    BY <2>1 DEF AreBars, SequenceLike
<1>4. Moved(<<>>) = <<>> /\ Earned(<<>>) = <<>>
    BY DEF Moved, Earned
<1>5. <<>> \in Seq(Int) /\ Total(<<>>) = 0 /\ 0 = 0 * Cost
    BY TotalOfNone, AnalyticsAssumption
<1>6. more \in Nat /\ Len(curve) = 0 + more
  <2>1. CASE curve = <<>> /\ more = 0
    <3>1. Len(curve) = 0
      BY <2>1
    <3>2. QED
      BY <2>1, <3>1
  <2>2. CASE curve = <<Unit>> /\ more = 1
    <3>1. Len(curve) = 1
      BY <2>2
    <3>2. QED
      BY <2>2, <3>1
  <2>3. QED
    BY <2>1, <2>2
<1>7. HeldAt(<<>>, 0) = 0
    BY DEF HeldAt
<1>8. Falls(<<Unit>> \o curve, Unit, 0)
  <2>1. PICK c : c = <<Unit>> \o curve
    OBVIOUS
  <2>2. Unit \in Nat \ {0}
    BY SignalAssumption
  <2>3. PICK n \in {1, 2} : Len(c) = n /\ DOMAIN c = 1 .. n /\ \A i \in 1 .. n : c[i] = Unit
    <3>1. CASE curve = <<>>
      <4>1. c = <<Unit>>
        BY <2>1, <2>2, <3>1
      <4>2. QED
        BY <4>1
    <3>2. CASE curve = <<Unit>>
      <4>1. PICK q : q = <<Unit>>
        OBVIOUS
      <4>2. q \in Seq(Int) /\ Len(q) = 1 /\ q[1] = Unit /\ c = q \o q
        BY <2>1, <2>2, <3>2, <4>1
      <4>3. c \in Seq(Int) /\ Len(c) = 2 /\ c[1] = Unit /\ c[2] = Unit
        <5>1. q \in Seq(Int) /\ 1 = Len(q) /\ 2 = Len(q) + Len(q)
          BY <4>2
        <5>2. PICK r : r = q \o q
          OBVIOUS
        <5>3. r \in Seq(Int) /\ Len(r) = Len(q) + Len(q)
          BY <5>1, <5>2, ConcatProperties
        <5>4. \A i \in 1 .. Len(q) + Len(q) : r[i] = IF i <= Len(q) THEN q[i] ELSE q[i - Len(q)]
          BY <5>1, <5>2, ConcatProperties
        <5>5. r[1] = q[1] /\ r[2] = q[1]
          BY <5>1, <5>4
        <5>6. QED
          BY <4>2, <5>1, <5>2, <5>3, <5>5
      <4>4. DOMAIN c = 1 .. 2 /\ \A i \in 1 .. 2 : c[i] = Unit
        BY <4>3
      <4>5. QED
        BY <4>3, <4>4
    <3>3. QED
      BY <3>1, <3>2
  <2>4. FallTo(Unit, Unit) = 0
    BY <2>2, FallIs
  <2>5. \A i \in 1 .. n : \A j \in i .. n : Fall(c, i, j) = 0
    <3>1. ASSUME NEW i \in 1 .. n, NEW j \in i .. n PROVE Fall(c, i, j) = 0
      <4>1. j \in 1 .. n
        BY <2>3
      <4>2. c[i] = Unit /\ c[j] = Unit
        BY <2>3, <4>1
      <4>3. QED
        BY <2>4, <4>2 DEF Fall, FallTo
    <3>2. QED
      BY <3>1
  <2>6. DeepestFall(c, 0)
    BY <2>3, <2>5 DEF DeepestFall
  <2>7. 1 \in 1 .. n /\ c[1] = Unit /\ \A i \in 1 .. n : c[i] <= Unit
    BY <2>2, <2>3
  <2>8. QED
    BY <2>1, <2>3, <2>6, <2>7 DEF Falls
<1>9. QED
    BY <1>1, <1>2, <1>3, <1>4, <1>5, <1>6, <1>7, <1>8 DEF AccountsOf

-----------------------------------------------------------------------------
(* The bars of a session and its accounts.                                 *)
Histories == {"composite", "mid", "vpin"}

BarsInv ==
    /\ SequenceLike(samples) /\ AccountsOf(bt, BarsOf(samples), extra)
    /\ mode = "lobster" => /\ DOMAIN history = Histories
                           /\ stats.snapshots = Len(BarsOf(samples))
                           /\ history.mid = Len(BarsOf(samples))

(* One more sample, with a price or without.                               *)
LEMMA SampleTaken ==
    ASSUME BacktestTyped(bt), SequenceLike(samples), AccountsOf(bt, BarsOf(samples), extra),
           NEW signal, NEW mid \in Nat \union {InvalidPrice}, NEW ts,
           samples' = Append(samples, SampleOf(signal, mid, ts)), bt' = OnBar(bt, signal, mid),
           extra' = extra
    PROVE  /\ SequenceLike(samples') /\ AccountsOf(bt', BarsOf(samples'), extra')
           /\ Len(BarsOf(samples')) = Len(BarsOf(samples)) + One(mid \notin {InvalidPrice, 0})
<1>1. PICK x : x = SampleOf(signal, mid, ts)
    OBVIOUS
<1>2. x.signal = signal /\ x.mid = mid
    BY <1>1 DEF SampleOf
<1>3. PICK bars : bars = BarsOf(samples)
    OBVIOUS
<1>4. SequenceLike(samples')
    BY <1>1, SequenceGrows
<1>5. BarsOf(samples') = IF Priced(x) THEN Append(bars, x) ELSE bars
    BY <1>1, <1>3, BarsOfAppend
<1>6. SequenceLike(bars) /\ AreBars(bars)
    BY <1>3 DEF AccountsOf, AreBars
<1>7. CASE mid \notin {InvalidPrice, 0}
  <2>1. Priced(x) /\ x.mid \in Nat \ {0}
    BY <1>2, <1>7 DEF Priced
  <2>2. AccountsOf(OnBar(bt, x.signal, x.mid), Append(bars, x), extra)
    BY <1>3, <2>1, AccountsAfterBar
  <2>3. Len(Append(bars, x)) = Len(bars) + 1
    BY <1>6, SequenceGrows
  <2>4. QED
    BY <1>2, <1>3, <1>4, <1>5, <1>7, <2>1, <2>2, <2>3 DEF One
<1>8. CASE mid \in {InvalidPrice, 0}
  <2>1. ~ Priced(x) /\ bt' = bt
    BY <1>2, <1>8 DEF Priced, OnBar
  <2>2. Len(bars) \in Nat
    BY <1>6, SequenceGrows
  <2>3. Len(bars) = Len(bars) + 0
    BY <2>2
  <2>4. QED
    BY <1>3, <1>4, <1>5, <1>8, <2>1, <2>3 DEF One
<1>9. QED
    BY <1>7, <1>8

LEMMA SampleBars ==
    ASSUME BacktestTyped(bt), SequenceLike(samples), AccountsOf(bt, BarsOf(samples), extra),
           NEW b, SoundBook(b), NEW v, NEW due, Sample(b, v, due)
    PROVE  /\ SequenceLike(samples') /\ AccountsOf(bt', BarsOf(samples'), extra')
           /\ Len(BarsOf(samples')) = Len(BarsOf(samples))
                 + One(due /\ MidPrice(L2Snapshot(b, Depth)) # InvalidPrice)
<1>1. PICK snap : snap = L2Snapshot(b, Depth)
    OBVIOUS
<1>2. PICK signal : signal = Composite(snap, v, MomentumUpdate(momentum, MidPrice(snap)))
    OBVIOUS
<1>3. PICK mid : mid = MidPrice(snap)
    OBVIOUS
<1>4. mid \in (Nat \ {0}) \union {InvalidPrice}
    BY <1>1, <1>3, MidOf
<1>5. CASE due
  <2>1. /\ samples' = Append(samples, SampleOf(signal, mid, now'))
        /\ bt' = OnBar(bt, signal, mid) /\ extra' = extra
    BY <1>1, <1>2, <1>3, <1>5, Zenon DEF Sample
  <2>2. /\ SequenceLike(samples') /\ AccountsOf(bt', BarsOf(samples'), extra')
        /\ Len(BarsOf(samples')) = Len(BarsOf(samples)) + One(mid \notin {InvalidPrice, 0})
    BY <1>4, <2>1, SampleTaken
  <2>3. One(mid \notin {InvalidPrice, 0}) = One(due /\ mid # InvalidPrice)
    BY <1>4, <1>5 DEF One
  <2>4. QED
    BY <1>1, <1>3, <2>2, <2>3
<1>6. CASE ~ due
  <2>1. samples' = samples /\ bt' = bt /\ extra' = extra
    BY <1>6, Zenon DEF Sample, sampled
  <2>2. Len(BarsOf(samples)) \in Nat
    BY SequenceGrows DEF AccountsOf, AreBars
  <2>3. Len(BarsOf(samples)) = Len(BarsOf(samples)) + 0
    BY <2>2
  <2>4. QED
    BY <1>6, <2>1, <2>3 DEF One
<1>7. QED
    BY <1>5, <1>6

LEMMA ReplayBars ==
    ASSUME FlowInv, SessionInv, BarsInv, NEW msg \in Messages, ReplayMessage(msg)
    PROVE  BarsInv'
<1>1. PICK r : r = Apply(book, msg)
    OBVIOUS
<1>2. PICK traded : traded = IF r.ok /\ Executes(msg) THEN StatsOnTrade(stats, msg.size) ELSE stats
    OBVIOUS
<1>3. PICK snap : snap = L2Snapshot(r.book, Depth)
    OBVIOUS
<1>4. PICK due \in BOOLEAN : due = (event % SampleEvery = 0)
    OBVIOUS
<1>5. /\ mode = "lobster" /\ mode' = mode
      /\ stats' = IF due THEN StatsOnL2(traded, snap) ELSE traded
      /\ Sample(r.book, vpin', due)
    BY <1>1, <1>2, <1>3, <1>4, Zenon DEF ReplayMessage, Running
<1>6. SoundBook(r.book)
  <2>1. SoundBook(book) /\ NothingNegative(book)
    BY <1>5 DEF SessionInv, MachinesTyped, Replayed
  <2>2. QED
    BY <1>1, <2>1, ApplyFacts DEF ReplayOf
<1>7. /\ DOMAIN history = Histories /\ stats.snapshots = Len(BarsOf(samples))
      /\ history.mid = Len(BarsOf(samples)) /\ SequenceLike(samples)
      /\ AccountsOf(bt, BarsOf(samples), extra) /\ BacktestTyped(bt)
    BY <1>5 DEF BarsInv, SessionInv, MachinesTyped
<1>8. PICK more : more = One(due /\ MidPrice(snap) # InvalidPrice)
    OBVIOUS
<1>9. /\ SequenceLike(samples') /\ AccountsOf(bt', BarsOf(samples'), extra')
      /\ Len(BarsOf(samples')) = Len(BarsOf(samples)) + more
    BY <1>3, <1>5, <1>6, <1>7, <1>8, SampleBars
<1>10. PICK n \in Nat : n = Len(BarsOf(samples))
    BY <1>7, SequenceGrows DEF AccountsOf, AreBars
<1>11. MidPrice(snap) # InvalidPrice <=> InvalidPrice \notin {snap.best_bid, snap.best_ask}
  <2>1. PICK x, y : x = BestPrice(r.book, "Bid") /\ y = BestPrice(r.book, "Ask")
    OBVIOUS
  <2>2. snap.best_bid = x /\ snap.best_ask = y
    BY <1>3, <2>1 DEF L2Snapshot
  <2>3. CASE InvalidPrice \in {x, y}
    BY <2>2, <2>3 DEF MidPrice
  <2>4. CASE InvalidPrice \notin {x, y}
    <3>1. \A s \in Side : BestPrice(r.book, s) \in Nat \union {InvalidPrice}
      BY <1>6, BestIsBest, SessionAssumption DEF SidePrices, BestPrice
    <3>2. x \in Nat /\ y \in Nat
      BY <2>1, <2>4, <3>1 DEF Side
    <3>3. MidPrice(snap) = (x + y) \div 2 /\ (x + y) \div 2 \in Nat
      BY <2>2, <2>4, <3>2 DEF MidPrice
    <3>4. QED
      BY <2>2, <2>4, <3>3, SessionAssumption
  <2>5. QED
    BY <2>3, <2>4
<1>12. stats'.snapshots = n + more
  <2>1. DOMAIN stats = StatsFields
    BY DEF FlowInv
  <2>2. DOMAIN traded = StatsFields /\ traded.snapshots = n
    BY <1>2, <1>7, <1>10, <2>1, StatsOnTradeFacts
  <2>3. CASE due
    <3>1. stats' = StatsOnL2(traded, snap)
      BY <1>5, <2>3
    <3>2. stats'.snapshots = IF InvalidPrice \in {snap.best_bid, snap.best_ask}
                             THEN traded.snapshots ELSE traded.snapshots + 1
      BY <2>2, <3>1, StatsOnL2Facts
    <3>3. more = IF InvalidPrice \in {snap.best_bid, snap.best_ask} THEN 0 ELSE 1
      BY <1>8, <1>11, <2>3 DEF One
    <3>4. QED
      BY <1>10, <2>2, <3>2, <3>3
  <2>4. CASE ~ due
    BY <1>5, <1>8, <1>10, <2>2, <2>4 DEF One
  <2>5. QED
    BY <2>3, <2>4
<1>13. DOMAIN history' = Histories /\ history'.mid = n + more
  <2>1. CASE due
    <3>1. history' = [history EXCEPT !.composite = @ + 1,
                        !.mid = @ + IF MidPrice(snap) = InvalidPrice THEN 0 ELSE 1]
      BY <1>3, <1>5, <2>1, Zenon DEF Sample
    <3>2. history' = [history EXCEPT !.composite = history.composite + 1, !.mid = n + more]
      BY <1>7, <1>8, <1>10, <2>1, <3>1 DEF One
    <3>3. QED
      BY <1>7, <3>2 DEF Histories
  <2>2. CASE ~ due
    <3>1. history' = history
      BY <1>5, <2>2, Zenon DEF Sample
    <3>2. QED
      BY <1>7, <1>8, <1>10, <2>2, <3>1 DEF One
  <2>3. QED
    BY <2>1, <2>2
<1>14. QED
    BY <1>9, <1>10, <1>12, <1>13 DEF BarsInv

LEMMA SimulationBars ==
    ASSUME SessionInv, BarsInv, NEW price \in Jitter, NEW qty \in Quantities,
           SimulationStep(price, qty)
    PROVE  BarsInv'
<1>1. PICK due \in BOOLEAN : due = (event % SampleEvery = 0)
    OBVIOUS
<1>2. Running("simulation") /\ mode' = mode /\ Sample(book', vpin, due)
    BY <1>1, Zenon DEF SimulationStep
<1>3. SoundBook(book')
    BY SimulationKept DEF SessionInv, MachinesTyped
<1>4. SequenceLike(samples) /\ AccountsOf(bt, BarsOf(samples), extra) /\ BacktestTyped(bt)
    BY DEF BarsInv, SessionInv, MachinesTyped
<1>5. SequenceLike(samples') /\ AccountsOf(bt', BarsOf(samples'), extra')
    BY <1>2, <1>3, <1>4, SampleBars
<1>6. QED
    BY <1>2, <1>5 DEF BarsInv, Running

LEMMA ConcludedBars ==
    ASSUME SessionInv, BarsInv, Concluded
    PROVE  BarsInv'
<1>1. /\ mode' = mode /\ samples' = samples /\ stats' = stats /\ history' = history
      /\ bt' = Result(bt) /\ extra' = extra + One(bt'.curve # bt.curve)
    BY DEF Concluded, lobster
<1>2. AccountsOf(bt, BarsOf(samples), extra) /\ BacktestTyped(bt)
    BY DEF BarsInv, SessionInv, MachinesTyped
<1>3. AccountsOf(Result(bt), BarsOf(samples), extra + One(Result(bt).curve # bt.curve))
    BY <1>2, AccountsAfterResult
<1>4. QED
    BY <1>1, <1>3 DEF BarsInv

LEMMA BarsInvInit == Init => BarsInv
<1> SUFFICES ASSUME Init PROVE BarsInv
    OBVIOUS
<1>1. /\ samples = <<>> /\ bt = NewBacktest(<<>>) /\ extra = 0 /\ stats = NewStats
      /\ history = [composite |-> 0, mid |-> 0, vpin |-> 0]
    BY DEF Init
<1>2. BarsOf(<<>>) = <<>> /\ Len(<<>>) = 0
    BY BarsOfNone
<1>3. AccountsOf(NewBacktest(<<>>), <<>>, 0)
  <2>1. PICK curve, more : curve = <<>> /\ more = 0
    OBVIOUS
  <2>2. (curve = <<>> /\ more = 0) \/ (curve = <<Unit>> /\ more = 1)
    BY <2>1, Zenon
  <2>3. AccountsOf(NewBacktest(curve), <<>>, more)
    BY <2>2, NewAccounts
  <2>4. QED
    BY <2>1, <2>3
<1>4. <<>> \in Seq({})
    OBVIOUS
<1>5. NewStats.snapshots = 0 /\ history.mid = 0 /\ DOMAIN history = Histories
    BY <1>1 DEF NewStats, Histories
<1>6. QED
    BY <1>1, <1>2, <1>3, <1>4, <1>5 DEF BarsInv, SequenceLike

LEMMA BarsInvNext ==
    ASSUME FlowInv, SessionInv, BarsInv, [Next]_vars
    PROVE  BarsInv'
<1>1. CASE \E msg \in Messages : ReplayMessage(msg)
    BY <1>1, ReplayBars
<1>2. CASE \E t \in Tape : TapeTrade(t)
  <2>1. mode' = mode /\ mode = "tape" /\ samples' = samples /\ bt' = bt /\ extra' = extra
    BY <1>2, Zenon DEF TapeTrade, sampled, Running
  <2>2. QED
    BY <2>1 DEF BarsInv
<1>3. CASE \E price \in Jitter, qty \in Quantities : SimulationStep(price, qty)
    BY <1>3, SimulationBars
<1>4. CASE \E signal \in BarSignals, mid \in BarMids : Bar(signal, mid)
  <2>1. PICK signal \in BarSignals, mid \in BarMids : Bar(signal, mid)
    BY <1>4
  <2>2. /\ mode' = mode /\ mode = "bars" /\ extra' = extra /\ bt' = OnBar(bt, signal, mid)
        /\ samples' = Append(samples, SampleOf(signal, mid, now'))
    BY <2>1 DEF Bar, Running
  <2>3. mid \in Nat \union {InvalidPrice}
    BY SessionAssumption
  <2>4. SequenceLike(samples) /\ AccountsOf(bt, BarsOf(samples), extra) /\ BacktestTyped(bt)
    BY DEF BarsInv, SessionInv, MachinesTyped
  <2>5. SequenceLike(samples') /\ AccountsOf(bt', BarsOf(samples'), extra')
    BY <2>2, <2>3, <2>4, SampleTaken
  <2>6. QED
    BY <2>2, <2>5 DEF BarsInv
<1>5. CASE Reset
  <2>1. /\ mode' = mode /\ mode = "bars" /\ extra' = 1 /\ bt' = NewBacktest(<<Unit>>)
        /\ samples' = <<>>
    BY <1>5 DEF Reset, Running
  <2>2. BarsOf(<<>>) = <<>> /\ AccountsOf(NewBacktest(<<Unit>>), <<>>, 1) /\ <<>> \in Seq({})
    BY BarsOfNone, NewAccounts
  <2>3. QED
    BY <2>1, <2>2 DEF BarsInv, SequenceLike
<1>6. CASE AskResult
    BY <1>6, ConcludedBars DEF AskResult
<1>7. CASE ReplayEnded \/ TapeEnded \/ SimulationReported
    BY <1>7, ConcludedBars DEF ReplayEnded, TapeEnded, SimulationReported, Ended
<1>8. CASE UNCHANGED vars
    BY <1>8 DEF vars, sampled, lobster, BarsInv
<1>9. QED
    BY <1>1, <1>2, <1>3, <1>4, <1>5, <1>6, <1>7, <1>8 DEF Next

LEMMA BarsInvSays == SessionInv /\ BarsInv => EquityIsOfTheBars
<1> SUFFICES ASSUME SessionInv, BarsInv PROVE EquityIsOfTheBars
    OBVIOUS
<1>1. PICK bars : bars = BarsOf(samples)
    OBVIOUS
<1>2. AccountsOf(bt, bars, extra) /\ bt \in Accounts
    BY <1>1 DEF BarsInv, SessionInv, MachinesTyped, BacktestTyped
<1>3. /\ bt.turnover = Total(Moved(bars)) /\ bt.pnl = Total(Earned(bars))
      /\ bt.cost = bt.turnover * Cost /\ bt.bars = Len(bars) /\ Len(bt.curve) = Len(bars) + extra
      /\ DeepestFall(<<Unit>> \o bt.curve, bt.drawdown)
    BY <1>2 DEF AccountsOf, Falls
<1>4. Equity(bt) = Unit + Total(Earned(bars)) - Cost * bt.turnover
  <2>1. bt.pnl \in Int /\ bt.turnover \in Int /\ Cost \in Int /\ Unit \in Int
    BY <1>2, SignalAssumption, AnalyticsAssumption DEF Accounts
  <2>2. bt.turnover * Cost = Cost * bt.turnover
    BY <2>1
  <2>3. QED
    BY <1>3, <2>2 DEF Equity
<1>5. mode = "lobster" => stats.snapshots = Len(bars) /\ history.mid = Len(bars)
    BY <1>1 DEF BarsInv
<1>6. QED
    BY <1>1, <1>3, <1>4, <1>5, Zenon DEF EquityIsOfTheBars

(* The accounts of the backtest are those of the bars, and the drawdown is *)
(* the deepest fall of the curve (backtest_engine.hpp:40-108), whatever    *)
(* the prices and the signals are.                                         *)
THEOREM BacktestIsOfTheBars == Spec => []EquityIsOfTheBars
<1>1. Init => FlowInv /\ SessionInv /\ BarsInv
    BY FlowInvInit, SessionInvInit, BarsInvInit
<1>2. (FlowInv /\ SessionInv /\ BarsInv) /\ [Next]_vars => (FlowInv /\ SessionInv /\ BarsInv)'
    BY FlowInvNext, SessionInvNext, BarsInvNext
<1>3. FlowInv /\ SessionInv /\ BarsInv => EquityIsOfTheBars
    BY BarsInvSays
<1>4. QED
    BY <1>1, <1>2, <1>3, PTL DEF Spec

=============================================================================
