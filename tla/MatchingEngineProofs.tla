------------------------ MODULE MatchingEngineProofs ------------------------
(***************************************************************************)
(* The matching engine trades by price and time, at its makers' prices,    *)
(* and leaves a sound book that only a break at MAX_TRADES can cross, for  *)
(* every value of the constants.                                           *)
(*                                                                         *)
(* The argument: during a call the book only shrinks (Shrinks), so its     *)
(* orders keep the sides, prices and places they had when the call began;  *)
(* the front of the best level comes before every other order of its side  *)
(* (FrontFacts); hence an order that came before a maker is gone when the  *)
(* maker trades.                                                           *)
(*                                                                         *)
(* The last part proves three results that speak of a call as a whole: its *)
(* quantity is conserved, its remainder is lost only when the book is      *)
(* full, and the loop implements the one-step calls of Matching. Their     *)
(* invariant is that the loop has still to do what Fills, a recursive      *)
(* function, does from the present book on.                                *)
(***************************************************************************)
EXTENDS MatchingEngine, BookLemmas

-----------------------------------------------------------------------------
(* The inductive invariant.                                                *)

Inv == /\ TypeOK
       /\ SoundBook(book) /\ PositiveOrders(book) /\ SoundBook(before)
       /\ Shrinks(before, book)
       /\ Idle => trades = <<>>
       /\ PriceTimePriority
       /\ TradesAtMakersPrice
       /\ ~ capped => ~ Crossed(book)

LEMMA InitInv == Init => Inv
<1> SUFFICES ASSUME Init PROVE Inv
    OBVIOUS
<1>1. TypeOK
  <2>1. book \in Book /\ before \in Book
    BY EmptyBookSound DEF Init, SoundBook
  <2>2. trades = <<>> /\ trades \in Seq(Trade) /\ ret \in Returned
    BY DEF Init, Returned, Ret
  <2>3. QED
    BY <2>1, <2>2 DEF Init, TypeOK
<1>2. trades = <<>> /\ DOMAIN trades = {}
    BY DEF Init
<1>3. PriceTimePriority /\ TradesAtMakersPrice
    BY <1>2 DEF PriceTimePriority, TradesAtMakersPrice
<1>4. QED
    BY <1>1, <1>2, <1>3, EmptyBookSound, ShrinksSelf DEF Init, Inv

(* A call that returns at once, or begins, on a book no larger.            *)
LEMMA ReturnNowInv ==
    ASSUME Inv, Idle, NEW b, SoundBook(b), PositiveOrders(b), ~ capped => ~ Crossed(b),
           NEW ok \in BOOLEAN, NEW rest \in Int, ReturnNow(b, ok, rest)
    PROVE  Inv'
<1>1. /\ book' = b /\ before' = b /\ call' = call /\ left' = left
      /\ trades' = trades /\ capped' = capped
      /\ ret' = [ok |-> ok, trades |-> <<>>, left |-> rest]
    BY DEF ReturnNow, Ret
<1>2. trades = <<>> /\ DOMAIN trades = {} /\ Idle'
    BY <1>1 DEF Inv, Idle
<1>3. TypeOK'
    BY <1>1 DEF Inv, TypeOK, SoundBook, Returned
<1>4. PriceTimePriority' /\ TradesAtMakersPrice'
    BY <1>1, <1>2 DEF PriceTimePriority, TradesAtMakersPrice
<1>5. QED
    BY <1>1, <1>2, <1>3, <1>4, ShrinksSelf DEF Inv

LEMMA BeginInv ==
    ASSUME Inv, Idle, NEW b, SoundBook(b), PositiveOrders(b), Shrinks(book, b),
           NEW kind \in CallKinds, NEW id \in Ids, NEW s \in Side, NEW p \in Prices,
           NEW qty \in Int, Begin(b, kind, id, s, p, qty)
    PROVE  Inv'
<1>1. ~ capped => ~ Crossed(b)
    BY ShrinkingUncrosses DEF Inv
<1>2. CASE qty <= 0
    BY <1>1, <1>2, ReturnNowInv DEF Begin
<1>3. CASE ~ (qty <= 0)
  <2>1. /\ book' = b /\ before' = before /\ left' = qty /\ ret' = ret
        /\ trades' = trades /\ capped' = capped
        /\ call' = [kind |-> kind, id |-> id, side |-> s, price |-> p, qty |-> qty]
    BY <1>3 DEF Begin
  <2>2. trades = <<>> /\ DOMAIN trades = {}
    BY DEF Inv
  <2>3. TypeOK'
    <3>1. call' \in Call /\ left' \in Nat
      BY <1>3, <2>1 DEF Call
    <3>2. QED
      BY <2>1, <3>1 DEF Inv, TypeOK, SoundBook
  <2>4. PriceTimePriority' /\ TradesAtMakersPrice'
    BY <2>1, <2>2 DEF PriceTimePriority, TradesAtMakersPrice
  <2>5. Shrinks(before, b)
    BY ShrinksAgain DEF Inv
  <2>6. QED
    BY <1>1, <2>1, <2>2, <2>3, <2>4, <2>5 DEF Inv
<1>4. QED
    BY <1>2, <1>3

LEMMA FillInv ==
    ASSUME Inv, Fill
    PROVE  Inv'
<1> DEFINE t == NextTrade(book, call.side, left)
           c == ExecuteOrder(book, t.maker_id, t.qty).book
<1>1. /\ book' = c /\ trades' = Append(trades, t) /\ left' = left - t.qty
      /\ call' = call /\ ret' = ret /\ before' = before /\ capped' = capped
      /\ ~ Idle
    BY DEF Fill
<1>2. call \in Call /\ call.side \in Side /\ call.price \in Prices
    BY <1>1 DEF Inv, TypeOK, Idle, Call
<1>3. left \in Nat /\ left > 0 /\ WouldCross(book, call.side, call.price)
    BY DEF Fill, KeepsTrading, Inv, TypeOK
<1>4. /\ t \in Trade
      /\ t.maker_id = FrontAtBest(book, Opposite(call.side))
      /\ t.maker_id \in Resting(book)
      /\ t.price = book.orders[t.maker_id].price
      /\ book.orders[t.maker_id].side = Opposite(call.side)
      /\ ~ Better(call.side, t.price, call.price)
      /\ t.qty > 0 /\ left - t.qty \in Nat
      /\ Shrinks(book, c) /\ SoundBook(c) /\ PositiveOrders(c)
    BY <1>2, <1>3, FillFacts DEF Inv
<1> HIDE DEF t, c
<1>5. Shrinks(before, c) /\ (~ capped => ~ Crossed(c))
    BY <1>4, ShrinksAgain, ShrinkingUncrosses DEF Inv
<1>6. /\ trades \in Seq(Trade)
      /\ Append(trades, t) \in Seq(Trade)
      /\ DOMAIN Append(trades, t) = 1 .. Len(trades) + 1
      /\ DOMAIN trades = 1 .. Len(trades)
      /\ \A i \in 1 .. Len(trades) : Append(trades, t)[i] = trades[i]
      /\ Append(trades, t)[Len(trades) + 1] = t
      /\ Len(trades) \in Nat
    BY <1>4, AppendProperties, LenProperties DEF Inv, TypeOK
<1>7. TypeOK'
    BY <1>1, <1>4, <1>6 DEF Inv, TypeOK, SoundBook
<1>8. ASSUME NEW i \in 1 .. Len(trades) + 1, NEW x \in Resting(before),
             Before(before, x, Append(trades, t)[i].maker_id), x \in Resting(c)
      PROVE  FALSE
  <2>0. x \in Resting(book)
    BY <1>4, <1>8 DEF Shrinks
  <2>1. CASE i \in 1 .. Len(trades)
    BY <1>6, <1>8, <2>0, <2>1 DEF Inv, PriceTimePriority
  <2>2. CASE i = Len(trades) + 1
    <3>1. Before(before, x, t.maker_id)
      BY <1>6, <1>8, <2>2
    <3>2. Opposite(call.side) \in Side /\ SidePrices(book, Opposite(call.side)) # {}
      BY <1>3 DEF WouldCross, Opposite, Side
    <3>3. QED
      BY <1>4, <2>0, <3>1, <3>2, NothingBeforeTheFront DEF Inv
  <2>3. QED
    BY <1>6, <2>1, <2>2
<1>9. PriceTimePriority'
    BY <1>1, <1>6, <1>8 DEF PriceTimePriority
<1>10. ASSUME NEW i \in 1 .. Len(trades) + 1
       PROVE  LET u == Append(trades, t)[i]
                  id == u.maker_id
              IN  /\ id \in Resting(before)
                  /\ u.qty > 0
                  /\ u.price = before.orders[id].price
                  /\ before.orders[id].side = Opposite(call.side)
                  /\ ~ Better(call.side, u.price, call.price)
  <2>1. CASE i \in 1 .. Len(trades)
    BY <1>6, <2>1 DEF Inv, TradesAtMakersPrice
  <2>2. CASE i = Len(trades) + 1
    <3>1. /\ t.maker_id \in Resting(before)
          /\ book.orders[t.maker_id].price = before.orders[t.maker_id].price
          /\ book.orders[t.maker_id].side = before.orders[t.maker_id].side
      BY <1>4 DEF Inv, Shrinks
    <3>2. QED
      BY <1>4, <1>6, <2>2, <3>1
  <2>3. QED
    BY <1>6, <2>1, <2>2
<1>11. TradesAtMakersPrice'
    BY <1>1, <1>6, <1>10 DEF TradesAtMakersPrice
<1>12. QED
    BY <1>1, <1>4, <1>5, <1>7, <1>9, <1>11 DEF Inv, Idle

LEMMA RestInv ==
    ASSUME Inv, Rest
    PROVE  Inv'
<1> DEFINE r == Remainder(book, call.id, call.side, call.price, left)
<1>1. /\ book' = r.book /\ before' = r.book /\ call' = NoCall /\ left' = 0
      /\ trades' = <<>> /\ ~ Idle
      /\ ret' = [ok |-> r.ok \/ (call.kind = "Modify" /\ trades # <<>>),
                 trades |-> trades, left |-> left]
      /\ capped' = (capped \/ (left > 0 /\ WouldCross(book, call.side, call.price)))
    BY DEF Rest, Ret
<1>2. call \in Call /\ call.id \in Ids /\ call.side \in Side /\ call.price \in Prices
    BY <1>1 DEF Inv, TypeOK, Idle, Call
<1>3. left \in Nat /\ trades \in Seq(Trade)
    BY DEF Inv, TypeOK
<1>4. /\ SoundBook(r.book) /\ PositiveOrders(r.book) /\ r.ok \in BOOLEAN
      /\ ~ Crossed(book) /\ ~ (left > 0 /\ WouldCross(book, call.side, call.price)) =>
            ~ Crossed(r.book)
    BY <1>2, <1>3, RemainderFacts DEF Inv
<1> HIDE DEF r
<1>5. TypeOK'
  <2>1. ret' \in Returned
    BY <1>1, <1>3, <1>4 DEF Returned
  <2>2. capped' \in BOOLEAN
    BY <1>1
  <2>3. trades' \in Seq(Trade) /\ left' \in Nat /\ call' \in Call \union {NoCall}
    BY <1>1
  <2>4. QED
    BY <1>1, <1>4, <2>1, <2>2, <2>3 DEF TypeOK, SoundBook
<1>6. PriceTimePriority' /\ TradesAtMakersPrice'
  <2>1. DOMAIN trades' = {}
    BY <1>1
  <2>2. QED
    BY <2>1 DEF PriceTimePriority, TradesAtMakersPrice
<1>7. ~ capped' => ~ Crossed(r.book)
    BY <1>1, <1>4 DEF Inv
<1>8. QED
    BY <1>1, <1>4, <1>5, <1>6, <1>7, ShrinksSelf DEF Inv

LEMMA NextInv == Inv /\ [Next]_vars => Inv'
<1> SUFFICES ASSUME Inv, [Next]_vars PROVE Inv'
    OBVIOUS
<1>1. ASSUME NEW id \in Ids, NEW s \in Side, NEW p \in Prices, NEW qty \in Quantities,
             Submit(id, s, p, qty)
      PROVE  Inv'
    BY <1>1, BeginInv, ShrinksSelf, BookAssumption DEF Submit, Inv, CallKinds
<1>2. ASSUME NEW id \in Ids, Cancel(id) PROVE Inv'
  <2> DEFINE r == CancelOrder(book, id)
  <2>1. Idle /\ ReturnNow(r.book, r.ok, 0)
    BY <1>2 DEF Cancel
  <2>2. CASE id \in Resting(book)
    <3>1. r.book = Dropped(book, id) /\ r.ok = TRUE
      BY <2>2 DEF CancelOrder, Done
    <3> HIDE DEF r
    <3>2. Shrinks(book, r.book) /\ SoundBook(r.book) /\ PositiveOrders(r.book)
      BY <2>2, <3>1, DroppedShrinks DEF Inv
    <3>3. ~ capped => ~ Crossed(r.book)
      BY <3>2, ShrinkingUncrosses DEF Inv
    <3>4. TRUE \in BOOLEAN /\ 0 \in Int
      OBVIOUS
    <3>5. Idle /\ ReturnNow(r.book, TRUE, 0)
      BY <2>1, <3>1
    <3>6. QED
      BY <3>2, <3>3, <3>4, <3>5, ReturnNowInv
  <2>3. CASE id \notin Resting(book)
    <3>1. r.book = book /\ r.ok = FALSE
      BY <2>3 DEF CancelOrder, Rejected
    <3> HIDE DEF r
    <3>2. Idle /\ ReturnNow(book, FALSE, 0)
      BY <2>1, <3>1
    <3>3. SoundBook(book) /\ PositiveOrders(book) /\ (~ capped => ~ Crossed(book))
      BY DEF Inv
    <3>4. 0 \in Int /\ FALSE \in BOOLEAN
      OBVIOUS
    <3>5. QED
      BY <3>2, <3>3, <3>4, ReturnNowInv
  <2>4. QED
    BY <2>2, <2>3
<1>3. ASSUME NEW id \in Ids, NEW p \in Prices, NEW qty \in Quantities, Modify(id, p, qty)
      PROVE  Inv'
  <2>1. Idle /\ qty \in Int
    BY <1>3, BookAssumption DEF Modify
  <2>2. CASE id \in Resting(book)
    <3>1. book.orders[id].side \in Side
      BY <2>2, RestingTyped DEF Inv, SoundBook, Order
    <3>2. LET b == Dropped(book, id)
          IN  Shrinks(book, b) /\ SoundBook(b) /\ PositiveOrders(b)
      BY <2>2, DroppedShrinks DEF Inv
    <3>3. Begin(Dropped(book, id), "Modify", id, book.orders[id].side, p, qty)
      BY <1>3, <2>2 DEF Modify
    <3>4. QED
      BY <2>1, <3>1, <3>2, <3>3, BeginInv DEF CallKinds
  <2>3. CASE id \notin Resting(book)
    <3>1. ReturnNow(book, FALSE, 0)
      BY <1>3, <2>3 DEF Modify
    <3>2. SoundBook(book) /\ PositiveOrders(book) /\ (~ capped => ~ Crossed(book))
      BY DEF Inv
    <3>3. 0 \in Int /\ FALSE \in BOOLEAN
      OBVIOUS
    <3>4. QED
      BY <2>1, <3>1, <3>2, <3>3, ReturnNowInv
  <2>4. QED
    BY <2>2, <2>3
<1>4. CASE UNCHANGED vars
    BY <1>4 DEF vars, Inv, TypeOK, Idle, PriceTimePriority, TradesAtMakersPrice
<1>5. QED
    BY <1>1, <1>2, <1>3, <1>4, FillInv, RestInv DEF Next

-----------------------------------------------------------------------------
(* What the call under way has to do with the book it found: enough to say *)
(* what it will return.                                                    *)

(* The book the loop of submit_order began with.                           *)
LoopBook == IF call.kind = "Modify" THEN Dropped(before, call.id) ELSE before

(* The turns of the loop so far are the first ones of the whole call.      *)
Underway ==
    \E run : /\ Fills(LoopBook, call.side, call.price, call.qty) = run[MaxTrades]
             /\ IsRun(run, call.side, call.price)
             /\ run[Len(trades)] = [book |-> book, trades |-> trades, left |-> left]
             /\ Len(trades) \in 0 .. MaxTrades

(* The call is one a caller may make; a modify has taken its order out.    *)
CallMade ==
    /\ call.qty \in Quantities /\ call.qty > 0
    /\ call.kind = "Modify" => /\ call.id \in Resting(before) \ Resting(book)
                               /\ call.side = before.orders[call.id].side

CallInv == /\ Inv
           /\ Idle => before = book
           /\ ~ Idle => CallMade /\ Underway

LEMMA BeginCallInv ==
    ASSUME CallInv, Idle, NEW b, NEW kind \in CallKinds, NEW id \in Ids, NEW s \in Side,
           NEW p \in Prices, NEW qty \in Quantities, Begin(b, kind, id, s, p, qty),
           kind = "Submit" => b = book,
           kind = "Modify" => /\ b = Dropped(book, id) /\ id \in Resting(book) \ Resting(b)
                              /\ s = book.orders[id].side,
           Inv'
    PROVE  CallInv'
<1>1. CASE qty <= 0
    BY <1>1 DEF Begin, ReturnNow, CallInv, Idle
<1>2. CASE ~ (qty <= 0)
  <2>1. /\ book' = b /\ before' = before /\ left' = qty /\ trades' = trades
        /\ call' = [kind |-> kind, id |-> id, side |-> s, price |-> p, qty |-> qty]
        /\ before = book /\ trades = <<>>
    BY <1>2 DEF Begin, CallInv, Inv
  <2>2. ~ Idle'
    BY <2>1 DEF Idle, NoCall, CallKinds
  <2>3. LoopBook' = b
    BY <2>1 DEF LoopBook, CallKinds
  <2>4. PICK run : /\ Fills(b, s, p, qty) = run[MaxTrades]
                   /\ run[0] = [book |-> b, trades |-> <<>>, left |-> qty]
                   /\ IsRun(run, s, p)
    BY FillsRun
  <2>5. Underway'
    BY <2>1, <2>3, <2>4, MaxTradesAssumption DEF Underway
  <2>6. CallMade'
    BY <1>2, <2>1, BookAssumption DEF CallMade
  <2>7. QED
    BY <2>2, <2>5, <2>6 DEF CallInv
<1>3. QED
    BY <1>1, <1>2

LEMMA FillCallInv ==
    ASSUME CallInv, Fill
    PROVE  CallInv'
<1> DEFINE t == NextTrade(book, call.side, left)
           now == [book |-> book, trades |-> trades, left |-> left]
<1>1. /\ book' = ExecuteOrder(book, t.maker_id, t.qty).book
      /\ trades' = Append(trades, t) /\ left' = left - t.qty
      /\ call' = call /\ before' = before
      /\ ~ Idle /\ KeepsTrading(book, call.side, call.price, left, trades)
    BY DEF Fill
<1>2. Inv'
    BY FillInv DEF CallInv
<1>3. ~ Idle' /\ LoopBook' = LoopBook
    BY <1>1 DEF Idle, LoopBook
<1>4. NextFill(call.side, call.price, now) = [book |-> book', trades |-> trades', left |-> left']
    BY <1>1 DEF NextFill
<1>5. PICK run : /\ Fills(LoopBook, call.side, call.price, call.qty) = run[MaxTrades]
                 /\ IsRun(run, call.side, call.price)
                 /\ run[Len(trades)] = now
                 /\ Len(trades) \in 0 .. MaxTrades
    BY <1>1 DEF CallInv, Underway
<1>6. /\ Len(trades') = Len(trades) + 1
      /\ Len(trades) < MaxTrades
    BY <1>1, AppendProperties DEF CallInv, Inv, TypeOK, KeepsTrading
<1>7. Len(trades') \in 1 .. MaxTrades /\ Len(trades') - 1 = Len(trades)
    BY <1>5, <1>6, MaxTradesAssumption
<1>8. run[Len(trades')] = NextFill(call.side, call.price, now)
    BY <1>5, <1>7 DEF IsRun
<1>9. Underway'
    BY <1>1, <1>3, <1>4, <1>5, <1>7, <1>8 DEF Underway
<1>10. CallMade'
  <2>1. Shrinks(book, book')
    <3>1. call \in Call /\ call.side \in Side /\ call.price \in Prices
      BY <1>1 DEF CallInv, Inv, TypeOK, Idle, Call
    <3>2. left \in Nat /\ left > 0 /\ WouldCross(book, call.side, call.price)
      BY <1>1 DEF KeepsTrading, CallInv, Inv, TypeOK
    <3>3. QED
      BY <1>1, <3>1, <3>2, FillFacts DEF CallInv, Inv
  <2>2. QED
    BY <1>1, <2>1 DEF CallInv, CallMade, Shrinks
<1>11. QED
    BY <1>2, <1>3, <1>9, <1>10 DEF CallInv

LEMMA CallInvHolds == Spec => []CallInv
<1>1. Init => CallInv
    BY InitInv DEF Init, CallInv, Idle
<1>2. CallInv /\ [Next]_vars => CallInv'
  <2> SUFFICES ASSUME CallInv, [Next]_vars PROVE CallInv'
    OBVIOUS
  <2>1. Inv'
    BY NextInv DEF CallInv
  <2>2. ASSUME NEW id \in Ids, NEW s \in Side, NEW p \in Prices, NEW qty \in Quantities,
               Submit(id, s, p, qty)
        PROVE  CallInv'
    BY <2>1, <2>2, BeginCallInv DEF Submit, CallKinds
  <2>3. ASSUME NEW id \in Ids, Cancel(id) PROVE CallInv'
    BY <2>1, <2>3 DEF Cancel, ReturnNow, CallInv, Idle
  <2>4. ASSUME NEW id \in Ids, NEW p \in Prices, NEW qty \in Quantities, Modify(id, p, qty)
        PROVE  CallInv'
    <3>1. CASE id \in Resting(book)
      <4>1. Idle /\ Begin(Dropped(book, id), "Modify", id, book.orders[id].side, p, qty)
        BY <2>4, <3>1 DEF Modify
      <4>2. book \in Book /\ QueuesHold(book, Resting(book))
        BY DEF CallInv, Inv, SoundBook
      <4>3. book.orders[id].side \in Side
        BY <3>1, <4>2, RestingTyped DEF Order
      <4>4. Resting(Dropped(book, id)) = Resting(book) \ {id}
        BY <3>1, <4>2, DroppedFacts
      <4>5. QED
        BY <2>1, <3>1, <4>1, <4>3, <4>4, BeginCallInv DEF CallKinds
    <3>2. CASE id \notin Resting(book)
      BY <2>1, <2>4, <3>2 DEF Modify, ReturnNow, CallInv, Idle
    <3>3. QED
      BY <3>1, <3>2
  <2>5. CASE Rest
    BY <2>1, <2>5 DEF Rest, CallInv, Idle
  <2>6. CASE UNCHANGED vars
    BY <2>1, <2>6 DEF vars, CallInv, Idle, CallMade, Underway, LoopBook
  <2>7. QED
    BY <2>2, <2>3, <2>4, <2>5, <2>6, FillCallInv DEF Next
<1>3. QED
    BY <1>1, <1>2, PTL DEF Spec

-----------------------------------------------------------------------------
(* What a call leaves out of the book.                                     *)

LEMMA RestDropsOnlyWhenFull ==
    ASSUME CallInv, Rest, left > 0, call.id \notin Resting(book), call.id \notin Resting(book')
    PROVE  \/ Cardinality(Levels(book)) = MaxPriceLevels
           \/ call.kind = "Submit" /\ Cardinality(Resting(book)) = MaxOrders
<1> DEFINE o == [side |-> call.side, price |-> call.price, qty |-> left]
<1>1. /\ call.id \in Ids /\ call.side \in Side /\ call.price \in Prices
      /\ call.kind \in CallKinds /\ left \in Nat /\ book \in Book
      /\ ~ Idle
    BY DEF Rest, CallInv, Inv, TypeOK, Idle, Call
<1>2. /\ IsFiniteSet(Resting(book)) /\ Cardinality(Resting(book)) <= MaxOrders
      /\ IsFiniteSet(Levels(book)) /\ Cardinality(Levels(book)) <= MaxPriceLevels
      /\ Cardinality(Resting(book)) \in Nat /\ Cardinality(Levels(book)) \in Nat
    BY FS_CardinalityType DEF CallInv, Inv, SoundBook, FitsPools
<1>3. book' = AddOrder(book, call.id, call.side, call.price, left).book
    BY DEF Rest, Remainder
<1>4. ASSUME Cardinality(Resting(book)) < MaxOrders, RoomAtLevel(book, <<call.side, call.price>>)
      PROVE  FALSE
  <2>1. book' = AppendOrder(book, call.id, o)
    BY <1>3, <1>4 DEF AddOrder, Done
  <2>2. Resting(book') = Resting(book) \union {call.id}
    <3>1. o \in Order
      BY <1>1 DEF Order
    <3> HIDE DEF o
    <3>2. QED
      BY <1>1, <2>1, <3>1, AppendOrderFacts
  <2>3. QED
    BY <2>2
<1>5. CASE ~ RoomAtLevel(book, <<call.side, call.price>>)
    BY <1>2, <1>5, BookAssumption DEF RoomAtLevel
<1>6. CASE ~ (Cardinality(Resting(book)) < MaxOrders)
  <2>1. Cardinality(Resting(book)) = MaxOrders
    BY <1>2, <1>6, BookAssumption
  <2>2. CASE call.kind = "Submit"
    BY <2>1, <2>2
  <2>3. CASE call.kind = "Modify"
    <3>1. /\ call.id \in Resting(before) \ Resting(book)
          /\ Resting(book) \subseteq Resting(before)
          /\ IsFiniteSet(Resting(before)) /\ Cardinality(Resting(before)) <= MaxOrders
      BY <1>1, <2>3 DEF CallInv, CallMade, Inv, Shrinks, SoundBook, FitsPools
    <3>2. Cardinality(Resting(before)) \in Nat
      BY <3>1, FS_CardinalityType
    <3>3. Cardinality(Resting(book)) < Cardinality(Resting(before))
      BY <3>1, FS_Subset, FS_CardinalityType
    <3>4. QED
      BY <1>2, <2>1, <3>1, <3>2, <3>3, BookAssumption
  <2>4. QED
    BY <1>1, <2>2, <2>3 DEF CallKinds
<1>7. QED
    BY <1>4, <1>5, <1>6

(* A remainder is dropped only when a pool has run out, and never for want *)
(* of a cell for the order a modify took out.                              *)
THEOREM DropsOnlyWhenFull == Spec => RemainderDroppedOnlyWhenFull
<1> DEFINE A == ~ Idle /\ left > 0 /\ Idle' /\ call.id \notin Resting(book) =>
                 \/ call.id \in Resting(book')
                 \/ Cardinality(Levels(book)) = MaxPriceLevels
                 \/ call.kind = "Submit" /\ Cardinality(Resting(book)) = MaxOrders
<1>1. CallInv /\ [Next]_vars => [A]_vars
  <2> SUFFICES ASSUME CallInv, [Next]_vars, ~ Idle, Idle', left > 0,
                      call.id \notin Resting(book), call.id \notin Resting(book')
               PROVE  \/ Cardinality(Levels(book)) = MaxPriceLevels
                      \/ call.kind = "Submit" /\ Cardinality(Resting(book)) = MaxOrders
    OBVIOUS
  <2>1. Rest
    BY DEF Next, Submit, Cancel, Modify, Fill, vars, Idle
  <2>2. QED
    BY <2>1, RestDropsOnlyWhenFull
<1>2. QED
    BY <1>1, CallInvHolds, PTL DEF Spec, RemainderDroppedOnlyWhenFull

-----------------------------------------------------------------------------
(* Quantity. The sum QtyWith is defined by recursion along the trades.     *)

Given(makers, t) == IF t.maker_id \in makers THEN t.qty ELSE 0

LEMMA QtyWithRun ==
    ASSUME NEW makers, NEW ts, NEW len \in Nat, len = Len(ts)
    PROVE  \E sum : /\ QtyWith(makers, ts) = sum[Len(ts)]
                    /\ sum[0] = 0
                    /\ \A i \in 1 .. Len(ts) : sum[i] = sum[i - 1] + Given(makers, ts[i])
<1> DEFINE zero == 0
           step(x, i) == x + Given(makers, ts[i])
           upTo(f, n) == [i \in 0 .. n |-> IF i = 0 THEN zero ELSE step(f[i - 1], i)]
           reached(n) == \E f : f = upTo(f, n)
           T == {n \in 0 .. len : reached(n)}
           sum == CHOOSE f : f = upTo(f, len)
<1>1. QtyWith(makers, ts) = sum[len]
    BY DEF QtyWith, Given
<1> HIDE DEF step, zero
<1>2. reached(0)
  <2> DEFINE g == [i \in 0 .. 0 |-> zero]
  <2>1. \A i \in 0 .. 0 : g[i] = upTo(g, 0)[i]
    OBVIOUS
  <2>2. QED
    BY <2>1
<1>3. ASSUME NEW n \in 1 .. len, reached(n - 1) PROVE reached(n)
  <2>1. PICK f : f = upTo(f, n - 1)
    BY <1>3
  <2> DEFINE g == [i \in 0 .. n |-> IF i = n THEN step(f[n - 1], n) ELSE f[i]]
  <2>2. \A i \in 0 .. n : g[i] = upTo(g, n)[i]
    BY <2>1
  <2>3. g = upTo(g, n)
    BY <2>2
  <2>4. QED
    BY <2>3
<1>4. reached(len)
  <2> HIDE DEF reached
  <2>1. 0 \in T /\ \A i \in 1 .. len : i - 1 \in T => i \in T
    BY <1>2, <1>3
  <2> HIDE DEF T
  <2>2. len \in Nat
    OBVIOUS
  <2>3. \A i \in 0 .. len : i \in T
    BY <2>1, <2>2, InductionTo
  <2>4. QED
    BY <2>2, <2>3 DEF T
<1>5. sum = upTo(sum, len)
    BY <1>4
<1>6. sum[0] = zero /\ \A i \in 1 .. len : sum[i] = step(sum[i - 1], i)
  <2> HIDE DEF sum
  <2>1. \A i \in 0 .. len : sum[i] = IF i = 0 THEN zero ELSE step(sum[i - 1], i)
    BY <1>5
  <2>2. QED
    BY <2>1
<1>7. QED
    BY <1>1, <1>6 DEF step, zero

LEMMA QtyWithAppend ==
    ASSUME NEW makers, NEW ts \in Seq(Trade), NEW t \in Trade
    PROVE  QtyWith(makers, Append(ts, t)) = QtyWith(makers, ts) + Given(makers, t)
<1> DEFINE us == Append(ts, t)
<1>1. /\ Len(ts) \in Nat /\ Len(us) = Len(ts) + 1 /\ Len(us) \in Nat
      /\ us[Len(us)] = t /\ \A i \in 1 .. Len(ts) : us[i] = ts[i]
    BY AppendProperties, LenProperties
<1> HIDE DEF us
<1>2. PICK f : /\ QtyWith(makers, ts) = f[Len(ts)]
               /\ f[0] = 0
               /\ \A i \in 1 .. Len(ts) : f[i] = f[i - 1] + Given(makers, ts[i])
    BY <1>1, QtyWithRun
<1>3. PICK g : /\ QtyWith(makers, us) = g[Len(us)]
               /\ g[0] = 0
               /\ \A i \in 1 .. Len(us) : g[i] = g[i - 1] + Given(makers, us[i])
    BY <1>1, QtyWithRun
<1> DEFINE T == {i \in 0 .. Len(ts) : f[i] = g[i]}
<1>4. 0 \in T /\ \A i \in 1 .. Len(ts) : i - 1 \in T => i \in T
    BY <1>1, <1>2, <1>3
<1> HIDE DEF T
<1>5. \A i \in 0 .. Len(ts) : i \in T
    BY <1>1, <1>4, InductionTo
<1>6. g[Len(us)] = g[Len(ts)] + Given(makers, t)
    BY <1>1, <1>3
<1>7. QED
    BY <1>2, <1>3, <1>5, <1>6 DEF T, us

LEMMA QtyWithNone == \A makers : QtyWith(makers, <<>>) = 0
<1> TAKE makers
<1>1. Len(<<>>) = 0
    OBVIOUS
<1>2. QED
    BY <1>1, QtyWithRun

QtyInv == /\ Inv
          /\ \A makers : QtyWith(makers, trades) \in Int
          /\ QuantityConserved

LEMMA RestingQtyInt ==
    ASSUME NEW b, SoundBook(b), NEW id \in Ids
    PROVE  RestingQty(b, id) \in Int
    BY RestingTyped DEF SoundBook, RestingQty, Order

LEMMA BeginQtyInv ==
    ASSUME CallInv, QtyInv, Idle, NEW b, NEW kind \in CallKinds, NEW id \in Ids, NEW s \in Side,
           NEW p \in Prices, NEW qty \in Quantities, Begin(b, kind, id, s, p, qty),
           \A x \in Ids : (kind = "Modify" => x # id) => RestingQty(b, x) = RestingQty(book, x),
           Inv'
    PROVE  QtyInv'
<1>1. trades' = trades /\ trades = <<>>
    BY DEF Begin, ReturnNow, QtyInv, Inv
<1>2. CASE qty <= 0
    BY <1>1, <1>2 DEF Begin, ReturnNow, QtyInv, QuantityConserved, Idle
<1>3. CASE ~ (qty <= 0)
  <2>1. /\ book' = b /\ before' = before /\ before = book /\ left' = qty
        /\ call' = [kind |-> kind, id |-> id, side |-> s, price |-> p, qty |-> qty]
        /\ qty \in Int
    BY <1>3, BookAssumption DEF Begin, CallInv
  <2>2. \A makers : QtyWith(makers, trades') = 0
    BY <1>1, QtyWithNone
  <2>3. \A x \in Ids : RestingQty(book, x) \in Int
    BY RestingQtyInt DEF Inv, QtyInv
  <2>4. QED
    BY <1>3, <2>1, <2>2, <2>3 DEF QtyInv, QuantityConserved
<1>4. QED
    BY <1>2, <1>3

LEMMA FillQtyInv ==
    ASSUME QtyInv, Fill
    PROVE  QtyInv'
<1> DEFINE t == NextTrade(book, call.side, left)
           c == ExecuteOrder(book, t.maker_id, t.qty).book
<1>1. /\ book' = c /\ trades' = Append(trades, t) /\ left' = left - t.qty
      /\ call' = call /\ before' = before /\ ~ Idle /\ ~ Idle'
    BY DEF Fill, Idle
<1>2. /\ call \in Call /\ call.side \in Side /\ call.price \in Prices /\ call.qty \in Int
      /\ left \in Nat /\ left > 0 /\ WouldCross(book, call.side, call.price)
      /\ trades \in Seq(Trade) /\ SoundBook(book) /\ PositiveOrders(book)
    BY <1>1 DEF QtyInv, Inv, TypeOK, Idle, Call, Fill, KeepsTrading
<1>3. /\ t \in Trade /\ t.maker_id \in Resting(book)
      /\ left - t.qty \in Nat
      /\ \/ c = Dropped(book, t.maker_id) /\ t.qty = book.orders[t.maker_id].qty
         \/ c = Resized(book, t.maker_id, book.orders[t.maker_id].qty - t.qty)
    BY <1>2, FillFacts
<1> HIDE DEF t, c
<1>4. t.qty \in Int /\ t.maker_id \in Ids
    BY <1>3 DEF Trade
<1>5. \A makers : QtyWith(makers, trades') = QtyWith(makers, trades) + Given(makers, t)
    BY <1>1, <1>2, <1>3, QtyWithAppend
<1>6. \A makers : Given(makers, t) \in Int /\ QtyWith(makers, trades) \in Int
    BY <1>4 DEF Given, QtyInv
<1>7. ASSUME NEW id \in Ids
      PROVE  RestingQty(book, id) = RestingQty(c, id) + Given({id}, t)
  <2> DEFINE m == t.maker_id
  <2>1. /\ book \in Book /\ QueuesHold(book, Resting(book))
        /\ book.orders[m] \in Order /\ book.orders[m].qty \in Int
    BY <1>2, <1>3, RestingTyped DEF SoundBook, Order
  <2>2. RestingQty(book, id) \in Int
    BY <1>2, RestingQtyInt
  <2>3. CASE c = Dropped(book, m) /\ t.qty = book.orders[m].qty
    <3>1. c.orders = [book.orders EXCEPT ![m] = NoOrder] /\ Resting(c) = Resting(book) \ {m}
      BY <1>3, <2>1, <2>3, DroppedFacts
    <3>2. QED
      BY <1>3, <1>4, <2>1, <2>2, <2>3, <3>1 DEF RestingQty, Given, Book
  <2>4. CASE c = Resized(book, m, book.orders[m].qty - t.qty)
    <3>1. c.orders = [book.orders EXCEPT ![m].qty = book.orders[m].qty - t.qty]
      BY <2>1, <2>4 DEF Resized, Book
    <3>2. Resting(c) = Resting(book)
      BY <1>3, <1>4, <2>1, <2>4, ResizedFacts
    <3>3. c.orders[m].qty = book.orders[m].qty - t.qty
      BY <1>4, <2>1, <3>1 DEF Book, Order
    <3>4. \A x \in Ids \ {m} : c.orders[x] = book.orders[x]
      BY <2>1, <3>1 DEF Book
    <3>5. QED
      BY <1>3, <1>4, <2>1, <2>2, <3>2, <3>3, <3>4 DEF RestingQty, Given
  <2>5. QED
    BY <1>3, <2>3, <2>4
<1>8. QuantityConserved'
  <2>1. /\ left + QtyWith(Ids, trades) = call.qty
        /\ \A id \in Ids : (call.kind = "Modify" => id # call.id) =>
              RestingQty(before, id) = RestingQty(book, id) + QtyWith({id}, trades)
    BY <1>1 DEF QtyInv, QuantityConserved
  <2>2. left' >= 0 /\ left' + QtyWith(Ids, trades') = call.qty
    BY <1>1, <1>2, <1>3, <1>4, <1>5, <1>6, <2>1 DEF Given
  <2>3. ASSUME NEW id \in Ids, call.kind = "Modify" => id # call.id
        PROVE  RestingQty(before, id) = RestingQty(c, id) + QtyWith({id}, trades')
    <3>1. SoundBook(c)
      BY <1>1, <1>2, FillFacts DEF t, c
    <3>2. RestingQty(c, id) \in Int
      BY <3>1, RestingQtyInt
    <3>3. QED
      BY <1>5, <1>6, <1>7, <2>1, <2>3, <3>2
  <2>4. QED
    BY <1>1, <2>2, <2>3 DEF QuantityConserved
<1>9. Inv'
    BY FillInv DEF QtyInv
<1>10. QED
    BY <1>5, <1>6, <1>8, <1>9 DEF QtyInv

(* No quantity is made or lost by a call, in the middle of its loop too.   *)
THEOREM QuantityIsConserved == Spec => []QuantityConserved
<1>1. Init => QtyInv
    BY InitInv, QtyWithNone DEF Init, QtyInv, QuantityConserved, Idle
<1>2. CallInv /\ QtyInv /\ [Next]_vars => QtyInv'
  <2> SUFFICES ASSUME CallInv, QtyInv, [Next]_vars PROVE QtyInv'
    OBVIOUS
  <2>1. Inv'
    BY NextInv DEF QtyInv
  <2>2. ASSUME NEW id \in Ids, NEW s \in Side, NEW p \in Prices, NEW qty \in Quantities,
               Submit(id, s, p, qty)
        PROVE  QtyInv'
    BY <2>1, <2>2, BeginQtyInv DEF Submit, CallKinds
  <2>3. ASSUME NEW id \in Ids, Cancel(id) PROVE QtyInv'
    BY <2>1, <2>3 DEF Cancel, ReturnNow, QtyInv, QuantityConserved, Idle
  <2>4. ASSUME NEW id \in Ids, NEW p \in Prices, NEW qty \in Quantities, Modify(id, p, qty)
        PROVE  QtyInv'
    <3>1. CASE id \in Resting(book)
      <4>1. Idle /\ Begin(Dropped(book, id), "Modify", id, book.orders[id].side, p, qty)
        BY <2>4, <3>1 DEF Modify
      <4>2. book \in Book /\ QueuesHold(book, Resting(book))
        BY DEF CallInv, Inv, SoundBook
      <4>3. book.orders[id].side \in Side
        BY <3>1, <4>2, RestingTyped DEF Order
      <4>4. /\ Resting(Dropped(book, id)) = Resting(book) \ {id}
            /\ Dropped(book, id).orders = [book.orders EXCEPT ![id] = NoOrder]
        BY <3>1, <4>2, DroppedFacts
      <4>5. \A x \in Ids : x # id => RestingQty(Dropped(book, id), x) = RestingQty(book, x)
        BY <4>2, <4>4 DEF RestingQty, Book
      <4>6. QED
        BY <2>1, <4>1, <4>3, <4>5, BeginQtyInv DEF CallKinds
    <3>2. CASE id \notin Resting(book)
      BY <2>1, <2>4, <3>2 DEF Modify, ReturnNow, QtyInv, QuantityConserved, Idle
    <3>3. QED
      BY <3>1, <3>2
  <2>5. CASE Rest
    BY <2>1, <2>5, QtyWithNone DEF Rest, QtyInv, QuantityConserved, Idle
  <2>6. CASE UNCHANGED vars
    BY <2>1, <2>6 DEF vars, QtyInv, QuantityConserved, Idle
  <2>7. QED
    BY <2>2, <2>3, <2>4, <2>5, <2>6, FillQtyInv DEF Next
<1>3. QtyInv => QuantityConserved
    BY DEF QtyInv
<1>4. QED
    BY <1>1, <1>2, <1>3, CallInvHolds, PTL DEF Spec

-----------------------------------------------------------------------------
(* Taken as a whole, a call is one step of Matching.                       *)

(* The instance of Matching has the operators of MatchOps under names of   *)
(* its own; they are the same.                                             *)
LEMMA SameNextFill == \A s, limit, r : M!NextFill(s, limit, r) = NextFill(s, limit, r)
    BY DEF NextFill, M!NextFill, KeepsTrading, M!KeepsTrading, NextTrade,
           M!NextTrade, ExecuteOrder, M!ExecuteOrder, FrontAtBest,
           M!FrontAtBest, BestPrice, M!BestPrice, SidePrices, M!SidePrices,
           Better, M!Better, Opposite, M!Opposite, WouldCross, M!WouldCross,
           Least, M!Least, Dropped, M!Dropped, OffLevel, M!OffLevel,
           WithoutId, M!WithoutId, Place, M!Place, RemoveAt, M!RemoveAt,
           LevelOf, M!LevelOf, Resized, M!Resized, Resting, M!Resting, Done,
           M!Done, Rejected, M!Rejected

LEMMA SameFills ==
    \A b, s, limit, qty : M!Fills(b, s, limit, qty) = Fills(b, s, limit, qty)
<1> TAKE b, s, limit, qty
<1> DEFINE first == [book |-> b, trades |-> <<>>, left |-> qty]
           turns(f) == [k \in 0 .. MaxTrades |->
                           IF k = 0 THEN first ELSE NextFill(s, limit, f[k - 1])]
           turnsM(f) == [k \in 0 .. MaxTrades |->
                            IF k = 0 THEN first ELSE M!NextFill(s, limit, f[k - 1])]
<1>1. \A f : turns(f) = turnsM(f)
    BY SameNextFill
<1>2. /\ Fills(b, s, limit, qty) = (CHOOSE f : f = turns(f))[MaxTrades]
      /\ M!Fills(b, s, limit, qty) = (CHOOSE f : f = turnsM(f))[MaxTrades]
    BY DEF Fills, M!Fills
<1> HIDE DEF turns, turnsM
<1>3. (CHOOSE f : f = turns(f)) = (CHOOSE f : f = turnsM(f))
    BY <1>1
<1>4. QED
    BY <1>2, <1>3

LEMMA SameRemainder ==
    \A b, id, s, p, qty : M!Remainder(b, id, s, p, qty) = Remainder(b, id, s, p, qty)
    BY DEF Remainder, M!Remainder, AddOrder, M!AddOrder, AppendOrder,
           M!AppendOrder, RoomAtLevel, M!RoomAtLevel, Cardinality,
           M!Cardinality, Levels, M!Levels, LevelKeys, M!LevelKeys, Side,
           M!Side, LevelOf, M!LevelOf, Resting, M!Resting, Done, M!Done,
           Rejected, M!Rejected

LEMMA SameSubmit ==
    \A b, id, s, p, qty : M!SubmitOrder(b, id, s, p, qty) = SubmitOrder(b, id, s, p, qty)
    BY SameFills, SameRemainder DEF SubmitOrder, M!SubmitOrder

LEMMA SameCancel == \A b, id : M!EngineCancel(b, id) = EngineCancel(b, id)
    BY DEF Resting, M!Resting, CancelOrder, M!CancelOrder, Dropped, M!Dropped,
           OffLevel, M!OffLevel, WithoutId, M!WithoutId, Place, M!Place, RemoveAt, M!RemoveAt,
           LevelOf, M!LevelOf, Done, M!Done, Rejected, M!Rejected, NoFills,
           M!NoFills, EngineCancel, M!EngineCancel

LEMMA SameModify ==
    \A b, id, p, qty : M!EngineModify(b, id, p, qty) = EngineModify(b, id, p, qty)
<1>1. /\ \A b, id : M!Dropped(b, id) = Dropped(b, id)
      /\ \A b : M!Resting(b) = Resting(b)
      /\ \A b : M!NoFills(M!Rejected(b)) = NoFills(Rejected(b))
    BY DEF Resting, M!Resting, Dropped, M!Dropped, OffLevel, M!OffLevel,
           WithoutId, M!WithoutId, Place, M!Place, RemoveAt, M!RemoveAt, LevelOf, M!LevelOf,
           Rejected, M!Rejected, NoFills, M!NoFills
<1>2. QED
    BY <1>1, SameSubmit DEF EngineModify, M!EngineModify

(* A loop that has stopped stays where it is for the turns it did not use. *)
LEMMA LoopIsOver ==
    ASSUME CallInv, Rest
    PROVE  Fills(LoopBook, call.side, call.price, call.qty)
              = [book |-> book, trades |-> trades, left |-> left]
<1> DEFINE now == [book |-> book, trades |-> trades, left |-> left]
<1>1. PICK run : /\ Fills(LoopBook, call.side, call.price, call.qty) = run[MaxTrades]
                 /\ IsRun(run, call.side, call.price)
                 /\ run[Len(trades)] = now
                 /\ Len(trades) \in 0 .. MaxTrades
    BY DEF CallInv, Underway, Rest
<1>2. NextFill(call.side, call.price, now) = now
    BY DEF NextFill, Rest
<1> HIDE DEF now
<1> DEFINE T == {k \in 0 .. MaxTrades : k >= Len(trades) => run[k] = now}
<1>3. 0 \in T
    BY <1>1, MaxTradesAssumption
<1>4. ASSUME NEW k \in 1 .. MaxTrades, k - 1 \in T PROVE k \in T
  <2>1. k - 1 >= Len(trades) => run[k - 1] = now
    BY <1>4
  <2>2. run[k] = NextFill(call.side, call.price, run[k - 1])
    BY <1>1 DEF IsRun
  <2>3. QED
    BY <1>1, <1>2, <2>1, <2>2, MaxTradesAssumption
<1> HIDE DEF T
<1>5. MaxTrades \in T
    BY <1>3, <1>4, InductionTo, MaxTradesAssumption
<1>6. QED
    BY <1>1, <1>5, MaxTradesAssumption DEF T, now

LEMMA RestIsTheCall ==
    ASSUME CallInv, Rest
    PROVE  M!Next
<1> DEFINE b == LoopBook
           r == Remainder(book, call.id, call.side, call.price, left)
           sub == SubmitOrder(b, call.id, call.side, call.price, call.qty)
<1>1. /\ call \in Call /\ call.kind \in CallKinds /\ call.id \in Ids /\ call.side \in Side
      /\ call.price \in Prices /\ call.qty \in Quantities /\ call.qty \in Int /\ call.qty > 0
      /\ left \in Nat
    BY BookAssumption DEF Rest, CallInv, CallMade, Inv, TypeOK, Idle, Call
<1>2. Fills(b, call.side, call.price, call.qty)
         = [book |-> book, trades |-> trades, left |-> left]
    BY LoopIsOver
<1>3. sub = [book |-> r.book, ok |-> r.ok, trades |-> trades, left |-> left]
  <2> HIDE DEF b
  <2>1. QED
    BY <1>1, <1>2 DEF SubmitOrder
<1>4. r.ok \in BOOLEAN
    BY <1>1, RemainderFacts DEF CallInv, Inv
<1>5. /\ before' = r.book
      /\ ret' = [ok |-> r.ok \/ (call.kind = "Modify" /\ trades # <<>>),
                 trades |-> trades, left |-> left]
    BY DEF Rest, Ret
<1> HIDE DEF r, sub
<1>6. CASE call.kind = "Submit"
  <2>1. b = before
    BY <1>6 DEF LoopBook
  <2>2. M!Submit(call.id, call.side, call.price, call.qty)
    BY <1>3, <1>4, <1>5, <1>6, <2>1, SameSubmit DEF M!Submit, M!Returns, M!Returned, sub
  <2>3. QED
    BY <1>1, <2>2 DEF M!Next, Side, M!Side
<1>7. CASE call.kind = "Modify"
  <2>1. /\ b = Dropped(before, call.id) /\ call.id \in Resting(before)
        /\ call.side = before.orders[call.id].side
    BY <1>7 DEF LoopBook, CallInv, CallMade, Rest
  <2>2. EngineModify(before, call.id, call.price, call.qty)
           = [sub EXCEPT !.ok = sub.ok \/ sub.trades # <<>>]
    BY <2>1 DEF EngineModify, sub
  <2>3. M!Modify(call.id, call.price, call.qty)
    BY <1>3, <1>4, <1>5, <1>7, <2>2, SameModify DEF M!Modify, M!Returns, M!Returned
  <2>4. QED
    BY <1>1, <2>3 DEF M!Next, Side, M!Side
<1>8. QED
    BY <1>1, <1>6, <1>7 DEF CallKinds

LEMMA StepIsACall ==
    ASSUME CallInv, [Next]_vars
    PROVE  M!Next \/ UNCHANGED <<before, ret>>
<1>1. ASSUME NEW id \in Ids, NEW s \in Side, NEW p \in Prices, NEW qty \in Quantities,
             Submit(id, s, p, qty)
      PROVE  M!Next \/ UNCHANGED <<before, ret>>
  <2>1. before = book /\ Begin(book, "Submit", id, s, p, qty)
    BY <1>1 DEF Submit, CallInv
  <2>2. CASE qty <= 0
    <3>1. M!Submit(id, s, p, qty)
      BY <2>1, <2>2, SameSubmit DEF Begin, ReturnNow, Ret, SubmitOrder, M!Submit, M!Returns, M!Returned
    <3>2. QED
      BY <3>1 DEF M!Next, Side, M!Side
  <2>3. CASE ~ (qty <= 0)
    BY <2>1, <2>3 DEF Begin
  <2>4. QED
    BY <2>2, <2>3
<1>2. ASSUME NEW id \in Ids, Cancel(id) PROVE M!Next
  <2>1. M!Cancel(id)
    BY <1>2, SameCancel DEF Cancel, CallInv, ReturnNow, Ret, EngineCancel, NoFills, M!Cancel,
                            M!Returns, M!Returned
  <2>2. QED
    BY <2>1 DEF M!Next, Side, M!Side
<1>3. ASSUME NEW id \in Ids, NEW p \in Prices, NEW qty \in Quantities, Modify(id, p, qty)
      PROVE  M!Next \/ UNCHANGED <<before, ret>>
  <2>1. before = book
    BY <1>3 DEF Modify, CallInv
  <2>2. CASE id \notin Resting(book)
    <3>1. M!Modify(id, p, qty)
      BY <1>3, <2>1, <2>2, SameModify DEF Modify, ReturnNow, Ret, EngineModify, NoFills, Rejected,
                                          M!Modify, M!Returns, M!Returned
    <3>2. QED
      BY <3>1 DEF M!Next, Side, M!Side
  <2>3. CASE id \in Resting(book) /\ qty <= 0
    <3> DEFINE b == Dropped(book, id)
    <3>1. ReturnNow(b, FALSE, qty)
      BY <1>3, <2>3 DEF Modify, Begin
    <3> HIDE DEF b
    <3> DEFINE r == [book |-> b, ok |-> FALSE, trades |-> <<>>, left |-> qty]
    <3>2. SubmitOrder(b, id, book.orders[id].side, p, qty) = r
      BY <2>3 DEF SubmitOrder
    <3>3. EngineModify(book, id, p, qty) = [r EXCEPT !.ok = r.ok \/ r.trades # <<>>]
      <4> HIDE DEF r
      <4>1. QED
        BY <2>3, <3>2 DEF EngineModify, b
    <3> DEFINE x == [r EXCEPT !.ok = r.ok \/ r.trades # <<>>]
    <3>4. x.book = b /\ x.ok = FALSE /\ x.trades = <<>> /\ x.left = qty
      OBVIOUS
    <3> HIDE DEF r
    <3>5. EngineModify(book, id, p, qty) = x
      BY <3>3 DEF x
    <3> HIDE DEF x
    <3>6. M!Modify(id, p, qty)
      BY <2>1, <3>1, <3>4, <3>5, SameModify DEF ReturnNow, Ret, M!Modify, M!Returns, M!Returned
    <3>7. QED
      BY <3>6 DEF M!Next, Side, M!Side
  <2>4. CASE id \in Resting(book) /\ ~ (qty <= 0)
    BY <1>3, <2>4 DEF Modify, Begin
  <2>5. QED
    BY <2>2, <2>3, <2>4
<1>4. CASE Fill
    BY <1>4 DEF Fill
<1>5. CASE UNCHANGED vars
    BY <1>5 DEF vars
<1>6. QED
    BY <1>1, <1>2, <1>3, <1>4, <1>5, RestIsTheCall DEF Next

(* The engine implements its abstract specification: whatever the number   *)
(* of fills of a call, the book it leaves and what it returns are those of *)
(* one step of Matching.                                                   *)
THEOREM EngineImplementsMatching == Spec => ImplementsMatching
<1>1. Init => M!Init
    BY DEF Init, Ret, M!Init, M!Returned, M!NoFills, M!Done, EmptyBook, M!EmptyBook, LevelKeys,
           M!LevelKeys, Side, M!Side
<1>2. CallInv /\ [Next]_vars => [M!Next]_(M!vars)
    BY StepIsACall DEF M!vars
<1>3. QED
    BY <1>1, <1>2, CallInvHolds, PTL DEF Spec, ImplementsMatching, M!Spec

-----------------------------------------------------------------------------
THEOREM InvHolds == Spec => []Inv
    BY InitInv, NextInv, PTL DEF Spec

(* Every value of the engine's state is a well-typed one.                  *)
THEOREM TypeCorrect == Spec => []TypeOK
<1>1. Inv => TypeOK
    BY DEF Inv
<1>2. QED
    BY InvHolds, <1>1, PTL

(* Between any two fills of submit_order, and between any two calls, index *)
(* and queues agree, the pools suffice and every order has quantity left.  *)
THEOREM BookAlwaysSound == Spec => []BookStaysSound
<1>1. Inv => BookStaysSound
    BY DEF Inv, SoundBook, BookStaysSound
<1>2. QED
    BY InvHolds, <1>1, PTL

(* "Price-time priority": no order trades while one before it has quantity *)
(* left.                                                                   *)
THEOREM TradesByPriority == Spec => []PriceTimePriority
<1>1. Inv => PriceTimePriority
    BY DEF Inv
<1>2. QED
    BY InvHolds, <1>1, PTL

(* Trades are positive, within the limit, and at the maker's price.        *)
THEOREM TradesFairlyPriced == Spec => []TradesAtMakersPrice
<1>1. Inv => TradesAtMakersPrice
    BY DEF Inv
<1>2. QED
    BY InvHolds, <1>1, PTL

(* A book is left crossed by a break at MAX_TRADES or not at all.          *)
THEOREM CrossedByTheCapAlone == Spec => []OnlyTheCapCrosses
<1>1. Inv => OnlyTheCapCrosses
    BY DEF Inv, OnlyTheCapCrosses
<1>2. QED
    BY InvHolds, <1>1, PTL
=============================================================================
