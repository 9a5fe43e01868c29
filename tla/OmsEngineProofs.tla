---------------------------- MODULE OmsEngineProofs ----------------------------
(***************************************************************************)
(* The log of the engine explains what the engine did, whenever the        *)
(* process dies and for every value of the constants: every command that   *)
(* the desk has shown is in the file, the file holds the first commands    *)
(* handled and the trades they made, and a replay of what has been logged  *)
(* gives the book and the refusals.                                        *)
(*                                                                         *)
(* The argument: Logged, what is in the buffer and what is in the file     *)
(* taken together, only grows by a record at a time, and the file always   *)
(* is what Logged was at an earlier moment. What a replay, the commands    *)
(* and the trades of a log say is computed by recursion along the log, so  *)
(* a record more is a step more (the lemmas ...Append below).              *)
(***************************************************************************)
EXTENDS OmsEngine, BookLemmas

-----------------------------------------------------------------------------
(* The recursions along a log: the run there is, the step that a record    *)
(* adds, and what an empty log gives.                                      *)

OfTypeStep(r, rec, types) == IF rec.type \in types THEN Append(r, rec) ELSE r

LEMMA OfTypeRun ==
    ASSUME NEW s, NEW len \in Nat, len = Len(s), NEW types
    PROVE  \E run : /\ OfType(s, types) = run[len]
                    /\ run[0] = <<>>
                    /\ \A i \in 1 .. len : run[i] = OfTypeStep(run[i - 1], s[i], types)
<1> DEFINE first == <<>>
           step(x, i) == OfTypeStep(x, s[i], types)
           upTo(f, n) == [i \in 0 .. n |-> IF i = 0 THEN first ELSE step(f[i - 1], i)]
           reached(n) == \E f : f = upTo(f, n)
           T == {n \in 0 .. len : reached(n)}
           run == CHOOSE f : f = upTo(f, len)
<1>1. OfType(s, types) = run[len]
    BY DEF OfType, OfTypeStep
<1> HIDE DEF first, step
<1>2. reached(0)
  <2> DEFINE g == [i \in 0 .. 0 |-> first]
  <2>1. \A i \in 0 .. 0 : g[i] = upTo(g, 0)[i]
    OBVIOUS
  <2>2. QED
    BY <2>1
<1>3. ASSUME NEW n \in 1 .. len, reached(n - 1) PROVE reached(n)
  <2>1. PICK f : f = upTo(f, n - 1)
    BY <1>3
  <2> DEFINE g == [i \in 0 .. n |-> IF i = n THEN step(f[n - 1], n) ELSE f[i]]
  <2>2. \A i \in 0 .. n : g[i] = upTo(g, n)[i]
    BY <2>1
  <2>3. g = upTo(g, n)
    BY <2>2
  <2>4. QED
    BY <2>3
<1>4. reached(len)
  <2> HIDE DEF reached
  <2>1. 0 \in T /\ \A i \in 1 .. len : i - 1 \in T => i \in T
    BY <1>2, <1>3
  <2> HIDE DEF T
  <2>2. len \in Nat
    OBVIOUS
  <2>3. \A i \in 0 .. len : i \in T
    BY <2>1, <2>2, InductionTo
  <2>4. QED
    BY <2>2, <2>3 DEF T
<1>5. run = upTo(run, len)
    BY <1>4
<1>6. run[0] = first /\ \A i \in 1 .. len : run[i] = step(run[i - 1], i)
  <2> HIDE DEF run
  <2>1. \A i \in 0 .. len : run[i] = IF i = 0 THEN first ELSE step(run[i - 1], i)
    BY <1>5
  <2>2. QED
    BY <2>1
<1>7. QED
    BY <1>1, <1>6 DEF first, step

LEMMA OfTypeAppend ==
    ASSUME NEW S, NEW s \in Seq(S), NEW e \in S, NEW types
    PROVE  OfType(Append(s, e), types) = OfTypeStep(OfType(s, types), e, types)
<1> DEFINE t == Append(s, e)
<1>1. /\ Len(s) \in Nat /\ Len(t) = Len(s) + 1 /\ Len(t) \in Nat
      /\ t[Len(t)] = e /\ \A i \in 1 .. Len(s) : t[i] = s[i]
    BY AppendProperties, LenProperties
<1> HIDE DEF t
<1>2. Len(s) \in Nat /\ Len(t) \in Nat
    BY <1>1
<1>3. PICK f : /\ OfType(s, types) = f[Len(s)]
               /\ f[0] = <<>>
               /\ \A i \in 1 .. Len(s) : f[i] = OfTypeStep(f[i - 1], s[i], types)
    BY <1>2, OfTypeRun
<1>4. PICK g : /\ OfType(t, types) = g[Len(t)]
               /\ g[0] = <<>>
               /\ \A i \in 1 .. Len(t) : g[i] = OfTypeStep(g[i - 1], t[i], types)
    BY <1>2, OfTypeRun
<1> DEFINE T == {i \in 0 .. Len(s) : f[i] = g[i]}
<1>5. 0 \in T /\ \A i \in 1 .. Len(s) : i - 1 \in T => i \in T
    BY <1>1, <1>3, <1>4
<1> HIDE DEF T
<1>6. \A i \in 0 .. Len(s) : i \in T
    BY <1>1, <1>5, InductionTo
<1>7. g[Len(t)] = OfTypeStep(g[Len(s)], e, types)
    BY <1>1, <1>4
<1>8. QED
    BY <1>1, <1>3, <1>4, <1>6, <1>7 DEF T, t

LEMMA OfTypeEmpty == \A types : OfType(<<>>, types) = <<>>
<1>1. Len(<<>>) = 0
    OBVIOUS
<1>2. QED
    BY <1>1, OfTypeRun

LEMMA ReplayRun ==
    ASSUME NEW s, NEW len \in Nat, len = Len(s)
    PROVE  \E run : /\ Replay(s) = run[len]
                    /\ run[0] = NothingReplayed
                    /\ \A i \in 1 .. len : run[i] = ReplayRecord(run[i - 1], s[i])
<1> DEFINE first == NothingReplayed
           step(x, i) == ReplayRecord(x, s[i])
           upTo(f, n) == [i \in 0 .. n |-> IF i = 0 THEN first ELSE step(f[i - 1], i)]
           reached(n) == \E f : f = upTo(f, n)
           T == {n \in 0 .. len : reached(n)}
           run == CHOOSE f : f = upTo(f, len)
<1>1. Replay(s) = run[len]
    BY DEF Replay
<1> HIDE DEF first, step
<1>2. reached(0)
  <2> DEFINE g == [i \in 0 .. 0 |-> first]
  <2>1. \A i \in 0 .. 0 : g[i] = upTo(g, 0)[i]
    OBVIOUS
  <2>2. QED
    BY <2>1
<1>3. ASSUME NEW n \in 1 .. len, reached(n - 1) PROVE reached(n)
  <2>1. PICK f : f = upTo(f, n - 1)
    BY <1>3
  <2> DEFINE g == [i \in 0 .. n |-> IF i = n THEN step(f[n - 1], n) ELSE f[i]]
  <2>2. \A i \in 0 .. n : g[i] = upTo(g, n)[i]
    BY <2>1
  <2>3. g = upTo(g, n)
    BY <2>2
  <2>4. QED
    BY <2>3
<1>4. reached(len)
  <2> HIDE DEF reached
  <2>1. 0 \in T /\ \A i \in 1 .. len : i - 1 \in T => i \in T
    BY <1>2, <1>3
  <2> HIDE DEF T
  <2>2. len \in Nat
    OBVIOUS
  <2>3. \A i \in 0 .. len : i \in T
    BY <2>1, <2>2, InductionTo
  <2>4. QED
    BY <2>2, <2>3 DEF T
<1>5. run = upTo(run, len)
    BY <1>4
<1>6. run[0] = first /\ \A i \in 1 .. len : run[i] = step(run[i - 1], i)
  <2> HIDE DEF run
  <2>1. \A i \in 0 .. len : run[i] = IF i = 0 THEN first ELSE step(run[i - 1], i)
    BY <1>5
  <2>2. QED
    BY <2>1
<1>7. QED
    BY <1>1, <1>6 DEF first, step

LEMMA ReplayAppend ==
    ASSUME NEW S, NEW s \in Seq(S), NEW e \in S
    PROVE  Replay(Append(s, e)) = ReplayRecord(Replay(s), e)
<1> DEFINE t == Append(s, e)
<1>1. /\ Len(s) \in Nat /\ Len(t) = Len(s) + 1 /\ Len(t) \in Nat
      /\ t[Len(t)] = e /\ \A i \in 1 .. Len(s) : t[i] = s[i]
    BY AppendProperties, LenProperties
<1> HIDE DEF t
<1>2. Len(s) \in Nat /\ Len(t) \in Nat
    BY <1>1
<1>3. PICK f : /\ Replay(s) = f[Len(s)]
               /\ f[0] = NothingReplayed
               /\ \A i \in 1 .. Len(s) : f[i] = ReplayRecord(f[i - 1], s[i])
    BY <1>2, ReplayRun
<1>4. PICK g : /\ Replay(t) = g[Len(t)]
               /\ g[0] = NothingReplayed
               /\ \A i \in 1 .. Len(t) : g[i] = ReplayRecord(g[i - 1], t[i])
    BY <1>2, ReplayRun
<1> DEFINE T == {i \in 0 .. Len(s) : f[i] = g[i]}
<1>5. 0 \in T /\ \A i \in 1 .. Len(s) : i - 1 \in T => i \in T
    BY <1>1, <1>3, <1>4
<1> HIDE DEF T
<1>6. \A i \in 0 .. Len(s) : i \in T
    BY <1>1, <1>5, InductionTo
<1>7. g[Len(t)] = ReplayRecord(g[Len(s)], e)
    BY <1>1, <1>4
<1>8. QED
    BY <1>1, <1>3, <1>4, <1>6, <1>7 DEF T, t

LEMMA ReplayEmpty == Replay(<<>>) = NothingReplayed
<1>1. Len(<<>>) = 0
    OBVIOUS
<1>2. QED
    BY <1>1, ReplayRun

NothingApplied == [book |-> EmptyBook, trades |-> <<>>, refused |-> 0]

AppliedStep(r, c) == AppliedNext(r, c, ApplyCommand(r.book, c))

LEMMA AppliedRun ==
    ASSUME NEW s, NEW len \in Nat, len = Len(s)
    PROVE  \E run : /\ Applied(s) = run[len]
                    /\ run[0] = NothingApplied
                    /\ \A i \in 1 .. len : run[i] = AppliedStep(run[i - 1], s[i])
<1> DEFINE first == NothingApplied
           step(x, i) == AppliedStep(x, s[i])
           upTo(f, n) == [i \in 0 .. n |-> IF i = 0 THEN first ELSE step(f[i - 1], i)]
           reached(n) == \E f : f = upTo(f, n)
           T == {n \in 0 .. len : reached(n)}
           run == CHOOSE f : f = upTo(f, len)
<1>1. Applied(s) = run[len]
    BY DEF Applied, AppliedStep, NothingApplied
<1> HIDE DEF first, step
<1>2. reached(0)
  <2> DEFINE g == [i \in 0 .. 0 |-> first]
  <2>1. \A i \in 0 .. 0 : g[i] = upTo(g, 0)[i]
    OBVIOUS
  <2>2. QED
    BY <2>1
<1>3. ASSUME NEW n \in 1 .. len, reached(n - 1) PROVE reached(n)
  <2>1. PICK f : f = upTo(f, n - 1)
    BY <1>3
  <2> DEFINE g == [i \in 0 .. n |-> IF i = n THEN step(f[n - 1], n) ELSE f[i]]
  <2>2. \A i \in 0 .. n : g[i] = upTo(g, n)[i]
    BY <2>1
  <2>3. g = upTo(g, n)
    BY <2>2
  <2>4. QED
    BY <2>3
<1>4. reached(len)
  <2> HIDE DEF reached
  <2>1. 0 \in T /\ \A i \in 1 .. len : i - 1 \in T => i \in T
    BY <1>2, <1>3
  <2> HIDE DEF T
  <2>2. len \in Nat
    OBVIOUS
  <2>3. \A i \in 0 .. len : i \in T
    BY <2>1, <2>2, InductionTo
  <2>4. QED
    BY <2>2, <2>3 DEF T
<1>5. run = upTo(run, len)
    BY <1>4
<1>6. run[0] = first /\ \A i \in 1 .. len : run[i] = step(run[i - 1], i)
  <2> HIDE DEF run
  <2>1. \A i \in 0 .. len : run[i] = IF i = 0 THEN first ELSE step(run[i - 1], i)
    BY <1>5
  <2>2. QED
    BY <2>1
<1>7. QED
    BY <1>1, <1>6 DEF first, step

LEMMA AppliedAppend ==
    ASSUME NEW S, NEW s \in Seq(S), NEW e \in S
    PROVE  Applied(Append(s, e)) = AppliedStep(Applied(s), e)
<1> DEFINE t == Append(s, e)
<1>1. /\ Len(s) \in Nat /\ Len(t) = Len(s) + 1 /\ Len(t) \in Nat
      /\ t[Len(t)] = e /\ \A i \in 1 .. Len(s) : t[i] = s[i]
    BY AppendProperties, LenProperties
<1> HIDE DEF t
<1>2. Len(s) \in Nat /\ Len(t) \in Nat
    BY <1>1
<1>3. PICK f : /\ Applied(s) = f[Len(s)]
               /\ f[0] = NothingApplied
               /\ \A i \in 1 .. Len(s) : f[i] = AppliedStep(f[i - 1], s[i])
    BY <1>2, AppliedRun
<1>4. PICK g : /\ Applied(t) = g[Len(t)]
               /\ g[0] = NothingApplied
               /\ \A i \in 1 .. Len(t) : g[i] = AppliedStep(g[i - 1], t[i])
    BY <1>2, AppliedRun
<1> DEFINE T == {i \in 0 .. Len(s) : f[i] = g[i]}
<1>5. 0 \in T /\ \A i \in 1 .. Len(s) : i - 1 \in T => i \in T
    BY <1>1, <1>3, <1>4
<1> HIDE DEF T
<1>6. \A i \in 0 .. Len(s) : i \in T
    BY <1>1, <1>5, InductionTo
<1>7. g[Len(t)] = AppliedStep(g[Len(s)], e)
    BY <1>1, <1>4
<1>8. QED
    BY <1>1, <1>3, <1>4, <1>6, <1>7 DEF T, t

LEMMA AppliedEmpty == Applied(<<>>) = NothingApplied
<1>1. Len(<<>>) = 0
    OBVIOUS
<1>2. QED
    BY <1>1, AppliedRun

-----------------------------------------------------------------------------
(* Prefixes.                                                               *)

LEMMA PrefixFacts ==
    ASSUME NEW S, NEW s \in Seq(S), NEW t \in Seq(S)
    PROVE  IsPrefix(s, t) <=> Len(s) <= Len(t) /\ \A i \in 1 .. Len(s) : s[i] = t[i]
<1>1. Len(s) \in Nat /\ Len(t) \in Nat
    BY LenProperties
<1>2. SubSeq(s, 1, Len(s)) = s
    BY SubSeqFull
<1>3. ASSUME Len(s) <= Len(t)
      PROVE  SubSeq(t, 1, Len(s)) = s <=> \A i \in 1 .. Len(s) : s[i] = t[i]
  <2> DEFINE u == SubSeq(t, 1, Len(s))
  <2>1. /\ u \in Seq(S) /\ Len(u) = Len(s)
        /\ \A i \in 1 .. Len(s) : u[i] = t[i]
    <3>1. \A i \in 1 .. Len(s) : t[i] \in S
      BY <1>1, <1>3, ElementOfSeq
    <3>2. QED
      BY <1>1, <1>3, <3>1, SubSeqProperties
  <2> HIDE DEF u
  <2>2. (\A i \in 1 .. Len(s) : s[i] = t[i]) => u = s
    BY <2>1, SeqEqual
  <2>3. QED
    BY <2>1, <2>2 DEF u
<1>4. QED
    BY <1>2, <1>3 DEF IsPrefix

LEMMA PrefixSelf ==
    ASSUME NEW S, NEW s \in Seq(S)
    PROVE  IsPrefix(s, s)
    BY PrefixFacts, LenProperties

LEMMA PrefixLen ==
    ASSUME NEW S, NEW s \in Seq(S), NEW t \in Seq(S), IsPrefix(s, t)
    PROVE  Len(s) <= Len(t)
    BY PrefixFacts

LEMMA PrefixConcat ==
    ASSUME NEW S, NEW s \in Seq(S), NEW t \in Seq(S)
    PROVE  IsPrefix(s, s \o t)
<1> DEFINE u == s \o t
<1>1. /\ Len(s) \in Nat /\ Len(t) \in Nat
      /\ u \in Seq(S) /\ Len(u) = Len(s) + Len(t)
      /\ \A i \in 1 .. Len(s) : u[i] = s[i]
    BY ConcatProperties, LenProperties
<1> HIDE DEF u
<1>2. Len(s) <= Len(u) /\ \A i \in 1 .. Len(s) : s[i] = u[i]
    BY <1>1
<1>3. IsPrefix(s, u)
    BY <1>1, <1>2, PrefixFacts
<1>4. QED
    BY <1>3 DEF u

LEMMA PrefixAppend ==
    ASSUME NEW S, NEW s \in Seq(S), NEW t \in Seq(S), NEW e \in S, IsPrefix(s, t)
    PROVE  IsPrefix(s, Append(t, e))
<1>1. Len(s) \in Nat /\ Len(t) \in Nat
    BY LenProperties
<1>2. Len(s) <= Len(t) /\ \A i \in 1 .. Len(s) : s[i] = t[i]
    BY PrefixFacts
<1> DEFINE u == Append(t, e)
<1>3. /\ u \in Seq(S) /\ Len(u) = Len(t) + 1
      /\ \A i \in 1 .. Len(t) : u[i] = t[i]
    BY AppendProperties
<1> HIDE DEF u
<1>4. Len(s) <= Len(u) /\ \A i \in 1 .. Len(s) : s[i] = u[i]
    BY <1>1, <1>2, <1>3
<1>5. IsPrefix(s, u)
    BY <1>3, <1>4, PrefixFacts
<1>6. QED
    BY <1>5 DEF u

-----------------------------------------------------------------------------
(* The inductive invariant.                                                *)

TradeRecord == [type : {"Trade"}, order_id : Ids, counterparty_id : Ids,
                side : Side, price : Prices, qty : Int]

Record == Command \union TradeRecord

(* What a replay of a log tells of the commands in it.                     *)
Explained(l) ==
    LET r == Replay(l)
        a == Applied(Commands(l))
    IN  /\ r = [book |-> r.book, commands |-> r.commands, trades |-> r.trades,
                errors |-> r.errors]
        /\ r.commands \in Nat /\ r.errors \in Nat
        /\ r.book = a.book
        /\ r.errors = a.refused
        /\ r.commands + r.errors = Len(Commands(l))

(* A file that may be all there is to recover from.                        *)
Recoverable(f) ==
    /\ f \in Seq(Record)
    /\ Explained(f)
    /\ Commands(f) \in Seq(Inputs)
    /\ Trades(f) \in Seq(TradeRecord)
    /\ Applied(Commands(f)).trades \in Seq(TradeRecord)
    /\ IsPrefix(Trades(f), Applied(Commands(f)).trades)

Typed ==
    /\ mode \in Modes /\ stop \in BOOLEAN
    /\ queue \in Seq(Inputs) /\ Len(queue) <= QueueCapacity
    /\ pc \in Places /\ cmd \in Inputs \union {NoCommand}
    /\ todo \in Seq(TradeRecord)
    /\ SoundBook(book) /\ PositiveOrders(book)
    /\ buffer \in Seq(Record) /\ Len(buffer) <= BufferRecords
    /\ accepted \in Seq(Inputs) /\ handled \in Seq(Inputs)
    /\ shown \in 0 .. Len(handled)

(* Where the consumer is, what it has in hand.                             *)
InHand ==
    /\ pc \in {"log", "apply"} <=> cmd # NoCommand
    /\ pc = "trades" <=> todo # <<>>
    /\ pc \in {"publish", "done"} => buffer = <<>>
    /\ pc \in {"leaving", "done"} => stop /\ (mode = "session" => queue = <<>>)

(* The commands the consumer has taken from the ring.                      *)
Taken == IF cmd = NoCommand THEN handled ELSE Append(handled, cmd)

(* While the process lives.                                                *)
Accounted ==
    /\ Explained(Logged)
    /\ Commands(Logged) = IF pc = "apply" THEN Append(handled, cmd) ELSE handled
    /\ Trades(Logged) \in Seq(TradeRecord)
    /\ Applied(handled).book = book
    /\ Applied(handled).trades = Trades(Logged) \o todo
    /\ IsPrefix(Commands(file), Commands(Logged))
    /\ accepted = Taken \o queue

Inv == /\ Typed
       /\ InHand
       /\ Recoverable(file)
       /\ Len(Commands(file)) >= shown
       /\ pc # "crashed" => Accounted

-----------------------------------------------------------------------------
(* A record more in a log.                                                 *)

LEMMA RecordTypes ==
    /\ \A c \in Command : c.type \in {"Add", "Modify", "Cancel"} /\ c.type # "Trade"
    /\ \A c \in TradeRecord : c.type = "Trade"
    BY DEF Command, TradeRecord

LEMMA RecordAppended ==
    ASSUME NEW l \in Seq(Record), NEW rec \in Record
    PROVE  /\ rec \in Command => /\ Commands(Append(l, rec)) = Append(Commands(l), rec)
                                 /\ Trades(Append(l, rec)) = Trades(l)
           /\ rec \in TradeRecord => /\ Commands(Append(l, rec)) = Commands(l)
                                     /\ Trades(Append(l, rec)) = Append(Trades(l), rec)
<1>1. \A types : OfType(Append(l, rec), types) = OfTypeStep(OfType(l, types), rec, types)
    BY OfTypeAppend
<1>2. QED
    BY <1>1, RecordTypes DEF Commands, Trades, OfTypeStep

LEMMA EmptyLog ==
    /\ Commands(<<>>) = <<>> /\ Trades(<<>>) = <<>>
    /\ Applied(<<>>) = [book |-> EmptyBook, trades |-> <<>>, refused |-> 0]
    /\ Explained(<<>>)
<1>1. Commands(<<>>) = <<>> /\ Trades(<<>>) = <<>>
    BY OfTypeEmpty DEF Commands, Trades
<1>2. Applied(<<>>) = [book |-> EmptyBook, trades |-> <<>>, refused |-> 0]
    BY AppliedEmpty DEF NothingApplied
<1>3. Replay(<<>>) = [book |-> EmptyBook, commands |-> 0, trades |-> 0, errors |-> 0]
    BY ReplayEmpty DEF NothingReplayed
<1>4. QED
    BY <1>1, <1>2, <1>3 DEF Explained

(* What the engine and the replay do with a command of which they both     *)
(* have the same book.                                                     *)
LEMMA SubmitShape ==
    ASSUME NEW b, NEW id, NEW s, NEW p, NEW qty, NEW r, r = SubmitOrder(b, id, s, p, qty)
    PROVE  r = [book |-> r.book, ok |-> r.ok, trades |-> r.trades, left |-> r.left]
    BY DEF SubmitOrder

LEMMA ModifyAgrees ==
    ASSUME NEW b, NEW c, c.type = "Modify",
           NEW m, m = EngineModify(b, c.order_id, c.price, c.qty),
           NEW a, a = ApplyCommand(b, c)
    PROVE  /\ m.book = a.book
           /\ m.ok <=> ~ (~ a.ok /\ a.trades = <<>>)
<1>1. CASE c.order_id \notin Resting(b)
  <2>1. a = NoFills(Rejected(b)) /\ m = NoFills(Rejected(b))
    BY <1>1 DEF ApplyCommand, EngineModify, CancelOrder, Rejected
  <2>2. QED
    BY <2>1 DEF NoFills, Rejected
<1>2. CASE c.order_id \in Resting(b)
  <2> DEFINE r == SubmitOrder(Dropped(b, c.order_id), c.order_id, b.orders[c.order_id].side,
                              c.price, c.qty)
  <2>1. r = [book |-> r.book, ok |-> r.ok, trades |-> r.trades, left |-> r.left]
    BY SubmitShape
  <2>2. a = r /\ m = [r EXCEPT !.ok = r.ok \/ r.trades # <<>>]
    BY <1>2 DEF ApplyCommand, EngineModify, CancelOrder, Done
  <2> HIDE DEF r
  <2>3. m.book = r.book /\ m.ok = (r.ok \/ r.trades # <<>>)
    BY <2>1, <2>2
  <2>4. QED
    BY <2>2, <2>3
<1>3. QED
    BY <1>1, <1>2

LEMMA ExplainedAppend ==
    ASSUME NEW l \in Seq(Record), NEW rec \in Record, Explained(l),
           Commands(l) \in Seq(Command)
    PROVE  Explained(Append(l, rec))
<1> DEFINE r == Replay(l)
           r2 == Replay(Append(l, rec))
           a == Applied(Commands(l))
           cs == Commands(l)
           a2 == Applied(Append(cs, rec))
<1>1. /\ r = [book |-> r.book, commands |-> r.commands, trades |-> r.trades,
              errors |-> r.errors]
      /\ r.commands \in Nat /\ r.errors \in Nat
      /\ r.book = a.book /\ r.errors = a.refused
      /\ r.commands + r.errors = Len(cs)
    BY DEF Explained
<1>2. r2 = ReplayRecord(r, rec)
    BY ReplayAppend
<1>3. Explained(Append(l, rec)) <=>
         LET cs2 == Commands(Append(l, rec))
         IN  /\ r2 = [book |-> r2.book, commands |-> r2.commands, trades |-> r2.trades,
                      errors |-> r2.errors]
             /\ r2.commands \in Nat /\ r2.errors \in Nat
             /\ r2.book = Applied(cs2).book /\ r2.errors = Applied(cs2).refused
             /\ r2.commands + r2.errors = Len(cs2)
    BY DEF Explained
<1> HIDE DEF r, r2
<1>4. CASE rec \in TradeRecord
  <2>1. Commands(Append(l, rec)) = cs
    BY <1>4, RecordAppended
  <2>2. r2 = [book |-> r.book, commands |-> r.commands, trades |-> r.trades + 1,
              errors |-> r.errors]
    BY <1>1, <1>2, <1>4, RecordTypes DEF ReplayRecord
  <2>3. QED
    BY <1>1, <1>3, <2>1, <2>2
<1>5. CASE rec \in Command
  <2>1. Commands(Append(l, rec)) = Append(cs, rec) /\ Len(Append(cs, rec)) = Len(cs) + 1
    BY <1>5, RecordAppended, AppendProperties
  <2>2. a2 = AppliedNext(a, rec, ApplyCommand(a.book, rec))
    BY <1>5, AppliedAppend DEF AppliedStep
  <2> DEFINE res == ApplyCommand(a.book, rec)
  <2>3. a2.book = res.book /\ a2.refused = a.refused + IF RefusedBy(rec, res) THEN 1 ELSE 0
    BY <2>2 DEF AppliedNext
  <2> HIDE DEF a, a2, cs, res
  <2>4. ASSUME NEW ok, ok \in BOOLEAN, NEW trades, ok <=> ~ RefusedBy(rec, res),
               r2 = Counted([r EXCEPT !.book = res.book, !.trades = trades], ok)
        PROVE  Explained(Append(l, rec))
    <3>1. r2 = [book |-> res.book,
                commands |-> r.commands + (IF ok THEN 1 ELSE 0),
                trades |-> trades,
                errors |-> r.errors + (IF ok THEN 0 ELSE 1)]
      <4> DEFINE u == [r EXCEPT !.book = res.book, !.trades = trades]
      <4>1. u = [book |-> res.book, commands |-> r.commands, trades |-> trades,
                 errors |-> r.errors]
        <5>1. PICK b0, c0, t0, e0 :
                 r = [book |-> b0, commands |-> c0, trades |-> t0, errors |-> e0]
          BY <1>1
        <5>2. r.commands = c0 /\ r.errors = e0
          BY <5>1
        <5>3. u \in [book : {res.book}, commands : {c0}, trades : {trades}, errors : {e0}]
          BY <5>1
        <5> HIDE DEF u
        <5>4. QED
          BY <5>2, <5>3
      <4> HIDE DEF u
      <4>2. r2 = Counted(u, ok)
        BY <2>4 DEF u
      <4>3. CASE ok
        BY <1>1, <4>1, <4>2, <4>3 DEF Counted
      <4>4. CASE ~ ok
        BY <1>1, <4>1, <4>2, <4>4 DEF Counted
      <4>5. QED
        BY <4>3, <4>4
    <3>2. /\ r2.commands = r.commands + (IF ok THEN 1 ELSE 0)
          /\ r2.errors = r.errors + (IF ok THEN 0 ELSE 1)
          /\ r2.book = res.book
          /\ r2 = [book |-> r2.book, commands |-> r2.commands, trades |-> r2.trades,
                   errors |-> r2.errors]
      BY <3>1
    <3>3. Len(cs) \in Nat
      BY LenProperties DEF cs
    <3>4. r2.book = a2.book /\ r2.errors = a2.refused
      BY <1>1, <2>3, <2>4, <3>2
    <3>5. /\ r2.commands \in Nat /\ r2.errors \in Nat
          /\ r2.commands + r2.errors = Len(Append(cs, rec))
      <4>1. CASE ok
        BY <1>1, <2>1, <3>2, <3>3, <4>1
      <4>2. CASE ~ ok
        BY <1>1, <2>1, <3>2, <3>3, <4>2
      <4>3. QED
        BY <4>1, <4>2
    <3>6. QED
      BY <1>3, <2>1, <3>2, <3>4, <3>5 DEF a2
  <2>5. CASE rec.type = "Add"
    <3>1. res = SubmitOrder(r.book, rec.order_id, rec.side, rec.price, rec.qty)
      BY <1>1, <2>5 DEF res, ApplyCommand
    <3>2. r2 = Counted([r EXCEPT !.book = res.book, !.trades = @ + Len(res.trades)], TRUE)
      BY <1>2, <2>5, <3>1 DEF ReplayRecord
    <3>3. ~ RefusedBy(rec, res)
      BY <2>5 DEF RefusedBy
    <3>4. QED
      BY <2>4, <3>2, <3>3
  <2>6. CASE rec.type = "Modify"
    <3> DEFINE m == EngineModify(r.book, rec.order_id, rec.price, rec.qty)
               ok == ~ RefusedBy(rec, res)
    <3>1. m.book = res.book /\ (m.ok <=> ok)
      BY <1>1, <2>6, ModifyAgrees DEF res, RefusedBy
    <3>2. r2 = Counted([r EXCEPT !.book = m.book], m.ok)
      BY <1>2, <2>6 DEF ReplayRecord
    <3> HIDE DEF m, ok
    <3>3. Counted([r EXCEPT !.book = m.book], m.ok)
             = Counted([r EXCEPT !.book = res.book, !.trades = r.trades], ok)
      BY <1>1, <3>1 DEF Counted
    <3>4. ok \in BOOLEAN
      BY DEF ok
    <3>5. QED
      BY <2>4, <3>2, <3>3, <3>4 DEF ok
  <2>7. CASE rec.type = "Cancel"
    <3>1. res = EngineCancel(r.book, rec.order_id)
      BY <1>1, <2>7 DEF res, ApplyCommand
    <3>2. /\ r2 = Counted([r EXCEPT !.book = res.book], res.ok)
          /\ res.ok \in BOOLEAN /\ (res.ok <=> ~ RefusedBy(rec, res))
      BY <1>2, <2>7, <3>1 DEF ReplayRecord, EngineCancel, NoFills, CancelOrder, Done, Rejected,
                              RefusedBy
    <3>3. [r EXCEPT !.book = res.book] = [r EXCEPT !.book = res.book, !.trades = r.trades]
      BY <1>1
    <3>4. QED
      BY <2>4, <3>2, <3>3
  <2>8. QED
    BY <1>5, <2>5, <2>6, <2>7, RecordTypes
<1>6. QED
    BY <1>4, <1>5 DEF Record

(* A command leaves a book the next one can be applied to, and trades that *)
(* can be logged.                                                          *)
LEMMA ApplyCommandFacts ==
    ASSUME NEW b, SoundBook(b), PositiveOrders(b), NEW c \in Command,
           NEW r, r = ApplyCommand(b, c)
    PROVE  /\ SoundBook(r.book) /\ PositiveOrders(r.book)
           /\ TradeRecords(b, c, r.trades) \in Seq(TradeRecord)
<1>1. /\ c.order_id \in Ids
      /\ c.type \in {"Add", "Modify"} => c.side \in Side /\ c.price \in Prices /\ c.qty \in Int
    BY BookAssumption DEF Command
<1>2. ASSUME NEW ts \in Seq(Trade), Aggressor(b, c) \in Side
      PROVE  TradeRecords(b, c, ts) \in Seq(TradeRecord)
  <2>1. Len(ts) \in Nat /\ DOMAIN ts = 1 .. Len(ts) /\ \A i \in 1 .. Len(ts) : ts[i] \in Trade
    BY LenProperties, ElementOfSeq
  <2>2. \A i \in 1 .. Len(ts) : FromTrade(ts[i], c, Aggressor(b, c)) \in TradeRecord
    BY <1>1, <1>2, <2>1 DEF FromTrade, TradeRecord, Trade
  <2>3. TradeRecords(b, c, ts)
           = [i \in 1 .. Len(ts) |-> FromTrade(ts[i], c, Aggressor(b, c))]
    BY <2>1 DEF TradeRecords
  <2>4. QED
    BY <2>1, <2>2, <2>3, IsASeq
<1>3. TradeRecords(b, c, <<>>) \in Seq(TradeRecord)
  <2>1. TradeRecords(b, c, <<>>) = <<>>
    BY DEF TradeRecords
  <2>2. QED
    BY <2>1, EmptySeq
<1>4. CASE c.type = "Add"
  <2>1. r = SubmitOrder(b, c.order_id, c.side, c.price, c.qty) /\ Aggressor(b, c) = c.side
    BY <1>4 DEF ApplyCommand, Aggressor
  <2>2. SoundBook(r.book) /\ PositiveOrders(r.book) /\ r.trades \in Seq(Trade)
    BY <1>1, <1>4, <2>1, SubmitOrderFacts
  <2>3. QED
    BY <1>1, <1>2, <1>4, <2>1, <2>2
<1>5. CASE c.type = "Cancel"
  <2>1. r.book = CancelOrder(b, c.order_id).book /\ r.trades = <<>>
    BY <1>5 DEF ApplyCommand, EngineCancel, NoFills
  <2>2. QED
    BY <1>1, <1>3, <2>1, CancelPositive
<1>6. CASE c.type = "Modify" /\ c.order_id \notin Resting(b)
  <2>1. r.book = b /\ r.trades = <<>>
    BY <1>6 DEF ApplyCommand, CancelOrder, Rejected, NoFills
  <2>2. QED
    BY <1>3, <2>1
<1>7. CASE c.type = "Modify" /\ c.order_id \in Resting(b)
  <2> DEFINE d == Dropped(b, c.order_id)
  <2>1. /\ r = SubmitOrder(d, c.order_id, b.orders[c.order_id].side, c.price, c.qty)
        /\ Aggressor(b, c) = b.orders[c.order_id].side
    BY <1>7 DEF ApplyCommand, CancelOrder, Done, Aggressor
  <2>2. SoundBook(d) /\ PositiveOrders(d)
    BY <1>7, DroppedShrinks
  <2>3. b.orders[c.order_id].side \in Side
    BY <1>7, RestingTyped DEF SoundBook, Order
  <2> HIDE DEF d
  <2>4. SoundBook(r.book) /\ PositiveOrders(r.book) /\ r.trades \in Seq(Trade)
    BY <1>1, <1>7, <2>1, <2>2, <2>3, SubmitOrderFacts
  <2>5. QED
    BY <1>2, <2>1, <2>3, <2>4
<1>8. QED
    BY <1>4, <1>5, <1>6, <1>7, RecordTypes

-----------------------------------------------------------------------------
(* The steps.                                                              *)

LEMMA InputsAreRecords ==
    /\ Inputs \subseteq Command /\ Inputs \subseteq Record /\ TradeRecord \subseteq Record
    /\ \A c \in Inputs : c # NoCommand
    BY OmsAssumption DEF Record

(* A process that has just started.                                        *)
Fresh(none) ==
    /\ mode \in Modes /\ stop = FALSE
    /\ queue = none /\ pc = "loop" /\ cmd = NoCommand /\ todo = none
    /\ book = EmptyBook /\ buffer = none /\ file = none
    /\ accepted = none /\ handled = none /\ shown = 0

LEMMA FreshInv == Fresh(<<>>) => Inv
<1> SUFFICES ASSUME NEW none, none = <<>>, Fresh(none) PROVE Inv
    OBVIOUS
<1>1. /\ none \in Seq(Inputs) /\ none \in Seq(Record) /\ none \in Seq(TradeRecord)
      /\ Len(none) = 0 /\ none \o none = none
    BY EmptySeq, ConcatEmptySeq
<1>2. Commands(none) = none /\ Trades(none) = none /\ Explained(none)
    BY EmptyLog
<1>3. Applied(none).book = EmptyBook /\ Applied(none).trades = none
    BY EmptyLog
<1>4. IsPrefix(none, none)
    BY <1>1, PrefixSelf
<1>5. Typed
  <2>1. 0 <= QueueCapacity /\ 0 <= BufferRecords /\ 0 \in 0 .. Len(none)
    BY <1>1, OmsAssumption
  <2>2. SoundBook(book) /\ PositiveOrders(book)
    BY EmptyBookSound DEF Fresh
  <2> USE <1>1, <2>1, <2>2 DEF Typed, Fresh
  <2>3. queue \in Seq(Inputs) /\ Len(queue) <= QueueCapacity
    OBVIOUS
  <2>4. buffer \in Seq(Record) /\ Len(buffer) <= BufferRecords /\ shown \in 0 .. Len(handled)
    OBVIOUS
  <2>5. pc \in Places
    BY DEF Places
  <2>6. QED
    BY <2>3, <2>4, <2>5
<1>6. InHand
    BY DEF InHand, Fresh
<1>7. Recoverable(file) /\ Len(Commands(file)) >= shown
  <2>1. Recoverable(none)
    BY <1>1, <1>2, <1>3, <1>4 DEF Recoverable
  <2>2. QED
    BY <1>1, <1>2, <2>1 DEF Fresh
<1>8. Accounted
  <2>1. Logged = none /\ Taken = none
    BY <1>1 DEF Logged, Taken, Fresh
  <2>2. QED
    BY <1>1, <1>2, <1>3, <1>4, <2>1 DEF Accounted, Fresh
<1>9. QED
    BY <1>5, <1>6, <1>7, <1>8 DEF Inv, Fresh

LEMMA FreshAgain == Fresh(<<>>)' => Inv'
    BY FreshInv, PTL

(* What has been logged may become the file, except between the logging of *)
(* a command and its application.                                          *)
LEMMA LoggedIsRecoverable ==
    ASSUME Inv, pc # "crashed", pc # "apply"
    PROVE  /\ Logged \in Seq(Record)
           /\ Recoverable(Logged)
           /\ Commands(Logged) = handled
           /\ Len(Commands(Logged)) >= shown
           /\ IsPrefix(Commands(Logged), Commands(Logged))
<1>1. /\ Explained(Logged) /\ Commands(Logged) = handled
      /\ Trades(Logged) \in Seq(TradeRecord) /\ todo \in Seq(TradeRecord)
      /\ Applied(handled).trades = Trades(Logged) \o todo
      /\ handled \in Seq(Inputs) /\ shown \in 0 .. Len(handled)
    BY DEF Inv, Accounted, Typed
<1>2. Logged \in Seq(Record)
    BY ConcatProperties DEF Logged, Inv, Typed, Recoverable
<1>3. /\ Trades(Logged) \o todo \in Seq(TradeRecord)
      /\ IsPrefix(Trades(Logged), Trades(Logged) \o todo)
    BY <1>1, ConcatProperties, PrefixConcat
<1>4. Recoverable(Logged)
    BY <1>1, <1>2, <1>3 DEF Recoverable
<1>5. IsPrefix(handled, handled) /\ Len(handled) >= shown
    BY <1>1, PrefixSelf, LenProperties
<1>6. QED
    BY <1>1, <1>2, <1>4, <1>5

LEMMA FwriteAppends ==
    ASSUME Inv, NEW rec \in Record, Fwrite(rec)
    PROVE  /\ buffer' \in Seq(Record) /\ Len(buffer') <= BufferRecords
           /\ Logged \in Seq(Record)
           /\ Logged' = Append(Logged, rec)
           /\ file' \in {file, Logged}
<1>1. /\ buffer \in Seq(Record) /\ file \in Seq(Record) /\ Len(buffer) <= BufferRecords
      /\ Len(buffer) \in Nat /\ <<rec>> \in Seq(Record) /\ Len(<<rec>>) = 1
    BY LenProperties DEF Inv, Typed, Recoverable
<1>2. Logged \in Seq(Record) /\ Append(Logged, rec) = Logged \o <<rec>>
    BY <1>1, ConcatProperties, AppendIsConcat DEF Logged
<1>3. CASE Len(buffer) < BufferRecords
  <2>1. buffer' = Append(buffer, rec) /\ file' = file
    BY <1>3 DEF Fwrite
  <2>2. /\ buffer' = buffer \o <<rec>> /\ buffer' \in Seq(Record)
        /\ Len(buffer') = Len(buffer) + 1
    BY <1>1, <2>1, AppendProperties, AppendIsConcat
  <2>3. file \o (buffer \o <<rec>>) = (file \o buffer) \o <<rec>>
    BY <1>1, ConcatAssociative
  <2>4. QED
    BY <1>1, <1>2, <1>3, <2>1, <2>2, <2>3, OmsAssumption DEF Logged
<1>4. CASE ~ (Len(buffer) < BufferRecords)
  <2>1. buffer' = <<rec>> /\ file' = Logged
    BY <1>4 DEF Fwrite, Logged
  <2>2. Logged' = Logged \o <<rec>>
    BY <2>1 DEF Logged
  <2>3. 1 <= BufferRecords
    BY OmsAssumption
  <2>4. QED
    BY <1>1, <1>2, <2>1, <2>2, <2>3
<1>5. QED
    BY <1>3, <1>4

LEMMA SubmitInv ==
    ASSUME Inv, NEW c \in Inputs, Submit(c)
    PROVE  Inv'
<1>1. /\ ~ stop /\ pc \notin {"done", "crashed"} /\ Len(queue) < QueueCapacity
      /\ queue' = Append(queue, c) /\ accepted' = Append(accepted, c)
      /\ UNCHANGED <<mode, stop, pc, cmd, todo, book, buffer, file, handled, shown>>
    BY DEF Submit, Over, consumer, log
<1>2. /\ queue \in Seq(Inputs) /\ accepted \in Seq(Inputs) /\ handled \in Seq(Inputs)
      /\ cmd \in Inputs \union {NoCommand}
    BY DEF Inv, Typed
<1>3. Taken \in Seq(Inputs) /\ Taken' = Taken
    BY <1>1, <1>2, AppendProperties DEF Taken
<1>4. Append(Taken \o queue, c) = Taken \o Append(queue, c)
  <2> DEFINE one == <<c>>
  <2>1. /\ Append(Taken \o queue, c) = (Taken \o queue) \o one
        /\ Append(queue, c) = queue \o one
        /\ one \in Seq(Inputs)
    BY <1>2, <1>3, ConcatProperties, AppendIsConcat
  <2> HIDE DEF one
  <2>2. (Taken \o queue) \o one = Taken \o (queue \o one)
    BY <1>2, <1>3, <2>1, ConcatAssociative
  <2>3. QED
    BY <2>1, <2>2
<1>5. Typed'
  <2>1. /\ queue' \in Seq(Inputs) /\ accepted' \in Seq(Inputs)
        /\ Len(queue') = Len(queue) + 1 /\ Len(queue) \in Nat
    BY <1>1, <1>2, AppendProperties, LenProperties
  <2>2. QED
    BY <1>1, <2>1, OmsAssumption DEF Inv, Typed
<1>6. InHand'
    BY <1>1 DEF Inv, InHand
<1>7. Accounted'
    BY <1>1, <1>3, <1>4 DEF Inv, Accounted, Logged
<1>8. QED
    BY <1>1, <1>5, <1>6, <1>7 DEF Inv

(* The steps of the consumer that touch neither log nor book.              *)
LEMMA LoopInv ==
    ASSUME Inv, Loop
    PROVE  Inv'
<1>1. /\ pc = "loop" /\ pc' \in {"leaving", "pop"}
      /\ pc' = "leaving" => stop /\ (mode = "session" => queue = <<>>)
      /\ UNCHANGED <<mode, stop, queue, cmd, todo, book, buffer, file, accepted, handled, shown>>
    BY DEF Loop, log, history
<1>2. Typed'
    BY <1>1 DEF Inv, Typed, Places
<1>3. InHand'
    BY <1>1 DEF Inv, InHand
<1>4. Accounted'
    BY <1>1 DEF Inv, Accounted, Logged, Taken
<1>5. QED
    BY <1>1, <1>2, <1>3, <1>4 DEF Inv

LEMMA PopInv ==
    ASSUME Inv, Pop
    PROVE  Inv'
<1>1. /\ pc = "pop"
      /\ UNCHANGED <<mode, stop, todo, book, buffer, file, accepted, handled, shown>>
    BY DEF Pop, log, history
<1>2. /\ queue \in Seq(Inputs) /\ handled \in Seq(Inputs) /\ cmd = NoCommand
      /\ Len(queue) <= QueueCapacity
    BY <1>1 DEF Inv, Typed, InHand
<1>3. CASE queue = <<>>
  <2>1. pc' = "flush" /\ queue' = queue /\ cmd' = cmd
    BY <1>3 DEF Pop
  <2>2. Typed' /\ InHand' /\ Accounted'
    BY <1>1, <1>2, <2>1 DEF Inv, Typed, Places, InHand, Accounted, Logged, Taken
  <2>3. QED
    BY <1>1, <2>1, <2>2 DEF Inv
<1>4. CASE queue # <<>>
  <2>1. pc' = "log" /\ cmd' = Head(queue) /\ queue' = Tail(queue)
    BY <1>4 DEF Pop
  <2>2. /\ Head(queue) \in Inputs /\ Tail(queue) \in Seq(Inputs)
        /\ Len(Tail(queue)) = Len(queue) - 1 /\ Len(queue) \in Nat
        /\ Head(queue) # NoCommand
    BY <1>2, <1>4, HeadTailProperties, LenProperties, InputsAreRecords
  <2>3. Append(handled, Head(queue)) \o Tail(queue) = handled \o queue
    <3> DEFINE h == Head(queue)
               t == Tail(queue)
    <3>1. queue = <<h>> \o t
      BY <1>2, <1>4, <2>2
    <3>2. Append(handled, h) = handled \o <<h>> /\ <<h>> \in Seq(Inputs)
      BY <1>2, <2>2, AppendIsConcat
    <3>3. (handled \o <<h>>) \o t = handled \o (<<h>> \o t)
      BY <1>2, <2>2, <3>2, ConcatAssociative
    <3>4. QED
      BY <3>1, <3>2, <3>3
  <2>4. Typed'
    BY <1>1, <1>2, <2>1, <2>2, OmsAssumption DEF Inv, Typed, Places
  <2>5. InHand'
    BY <1>1, <2>1, <2>2 DEF Inv, InHand
  <2>6. Accounted'
    BY <1>1, <1>2, <2>1, <2>2, <2>3 DEF Inv, Accounted, Logged, Taken
  <2>7. QED
    BY <1>1, <2>1, <2>4, <2>5, <2>6 DEF Inv
<1>5. QED
    BY <1>3, <1>4

LEMMA LogCommandInv ==
    ASSUME Inv, LogCommand
    PROVE  Inv'
<1>1. /\ pc = "log" /\ pc' = "apply" /\ Fwrite(cmd)
      /\ UNCHANGED <<mode, stop, queue, cmd, todo, book, accepted, handled, shown>>
    BY DEF LogCommand, history
<1>2. cmd \in Inputs /\ cmd # NoCommand /\ cmd \in Command /\ cmd \in Record /\ todo = <<>>
    BY <1>1, InputsAreRecords DEF Inv, Typed, InHand
<1>3. /\ buffer' \in Seq(Record) /\ Len(buffer') <= BufferRecords
      /\ Logged \in Seq(Record) /\ Logged' = Append(Logged, cmd) /\ file' \in {file, Logged}
    BY <1>1, <1>2, FwriteAppends
<1>4. /\ Recoverable(Logged) /\ Commands(Logged) = handled
      /\ Len(Commands(Logged)) >= shown /\ IsPrefix(Commands(Logged), Commands(Logged))
    BY <1>1, LoggedIsRecoverable
<1>5. Recoverable(file') /\ Len(Commands(file')) >= shown
    BY <1>3, <1>4 DEF Inv
<1>6. /\ Commands(Logged') = Append(handled, cmd) /\ Trades(Logged') = Trades(Logged)
    BY <1>2, <1>3, <1>4, RecordAppended
<1>7. Explained(Logged')
  <2>1. handled \in Seq(Command)
    BY SeqMonotonic, InputsAreRecords DEF Inv, Typed
  <2>2. Explained(Logged)
    BY <1>4 DEF Recoverable
  <2>3. QED
    BY <1>2, <1>3, <1>4, <2>1, <2>2, ExplainedAppend
<1>8. IsPrefix(Commands(file'), Append(handled, cmd))
  <2>1. IsPrefix(Commands(file'), handled)
    BY <1>1, <1>3, <1>4 DEF Inv, Accounted
  <2>2. handled \in Seq(Inputs) /\ Commands(file') \in Seq(Inputs)
    BY <1>5 DEF Inv, Typed, Recoverable
  <2>3. QED
    BY <1>2, <2>1, <2>2, PrefixAppend
<1>9. Typed'
    BY <1>1, <1>3 DEF Inv, Typed, Places
<1>10. InHand'
    BY <1>1, <1>2 DEF Inv, InHand
<1>11. Accounted'
  <2>1. Applied(handled).book = book /\ Applied(handled).trades = Trades(Logged) \o todo
    BY <1>1 DEF Inv, Accounted
  <2>2. Trades(Logged) \in Seq(TradeRecord) /\ accepted = Taken \o queue /\ Taken' = Taken
    BY <1>1 DEF Inv, Accounted, Taken
  <2>3. QED
    BY <1>1, <1>6, <1>7, <1>8, <2>1, <2>2 DEF Accounted
<1>12. QED
    BY <1>1, <1>5, <1>9, <1>10, <1>11 DEF Inv

LEMMA ApplyInv ==
    ASSUME Inv, Apply
    PROVE  Inv'
<1> DEFINE r == ApplyCommand(book, cmd)
           ts == TradeRecords(book, cmd, r.trades)
<1>1. /\ pc = "apply" /\ book' = r.book /\ todo' = ts
      /\ pc' = IF ts = <<>> THEN "pop" ELSE "trades"
      /\ handled' = Append(handled, cmd) /\ cmd' = NoCommand
      /\ UNCHANGED <<mode, stop, queue, buffer, file, accepted, shown>>
    BY DEF Apply, Then, log
<1>2. /\ cmd \in Inputs /\ cmd # NoCommand /\ cmd \in Command /\ todo = <<>>
      /\ handled \in Seq(Inputs) /\ SoundBook(book) /\ PositiveOrders(book)
    BY <1>1, InputsAreRecords DEF Inv, Typed, InHand
<1>3. SoundBook(r.book) /\ PositiveOrders(r.book) /\ ts \in Seq(TradeRecord)
    BY <1>2, ApplyCommandFacts
<1>4. /\ Applied(handled).book = book
      /\ Applied(handled).trades = Trades(Logged) \o todo
      /\ Trades(Logged) \in Seq(TradeRecord)
      /\ accepted = Taken \o queue
      /\ Explained(Logged)
      /\ Commands(Logged) = Append(handled, cmd)
      /\ IsPrefix(Commands(file), Commands(Logged))
    BY <1>1 DEF Inv, Accounted
<1>5. /\ Applied(handled').book = r.book
      /\ Applied(handled').trades = Trades(Logged) \o ts
  <2>1. Applied(handled') = AppliedNext(Applied(handled), cmd, r)
    BY <1>1, <1>2, <1>4, AppliedAppend DEF AppliedStep
  <2>2. Trades(Logged) \o todo = Trades(Logged)
    BY <1>2, <1>4, ConcatEmptySeq
  <2>3. QED
    BY <1>4, <2>1, <2>2 DEF AppliedNext
<1> HIDE DEF r, ts
<1>6. handled' \in Seq(Inputs) /\ Len(handled') = Len(handled) + 1 /\ Len(handled) \in Nat
    BY <1>1, <1>2, AppendProperties, LenProperties
<1>7. Typed'
    BY <1>1, <1>3, <1>6 DEF Inv, Typed, Places
<1>8. InHand'
    BY <1>1 DEF Inv, InHand
<1>9. Accounted'
  <2>1. Taken' = Taken /\ Logged' = Logged
    BY <1>1, <1>2 DEF Taken, Logged
  <2>2. QED
    BY <1>1, <1>4, <1>5, <2>1 DEF Accounted
<1>10. QED
    BY <1>1, <1>7, <1>8, <1>9 DEF Inv

LEMMA LogTradeInv ==
    ASSUME Inv, LogTrade
    PROVE  Inv'
<1> DEFINE rec == Head(todo)
           rest == Tail(todo)
<1>1. /\ pc = "trades" /\ Fwrite(rec) /\ todo' = rest
      /\ pc' = IF rest = <<>> THEN "pop" ELSE "trades"
      /\ UNCHANGED <<mode, stop, queue, cmd, book, accepted, handled, shown>>
    BY DEF LogTrade, Then, history
<1>2. todo # <<>> /\ todo \in Seq(TradeRecord)
    BY <1>1 DEF Inv, InHand, Typed
<1>3. /\ rec \in TradeRecord /\ rec \in Record /\ rest \in Seq(TradeRecord)
      /\ todo = <<rec>> \o rest /\ <<rec>> \in Seq(TradeRecord)
    BY <1>2, HeadTailProperties, InputsAreRecords
<1> HIDE DEF rec, rest
<1>4. /\ buffer' \in Seq(Record) /\ Len(buffer') <= BufferRecords
      /\ Logged \in Seq(Record) /\ Logged' = Append(Logged, rec) /\ file' \in {file, Logged}
    BY <1>1, <1>3, FwriteAppends
<1>5. /\ Recoverable(Logged) /\ Commands(Logged) = handled
      /\ Len(Commands(Logged)) >= shown /\ IsPrefix(Commands(Logged), Commands(Logged))
    BY <1>1, LoggedIsRecoverable
<1>6. Recoverable(file') /\ Len(Commands(file')) >= shown
    BY <1>4, <1>5 DEF Inv
<1>7. /\ Commands(Logged') = handled /\ Trades(Logged') = Append(Trades(Logged), rec)
    BY <1>3, <1>4, <1>5, RecordAppended
<1>8. Explained(Logged')
  <2>1. handled \in Seq(Command)
    BY SeqMonotonic, InputsAreRecords DEF Inv, Typed
  <2>2. Explained(Logged)
    BY <1>5 DEF Recoverable
  <2>3. QED
    BY <1>3, <1>4, <1>5, <2>1, <2>2, ExplainedAppend
<1>9. Append(Trades(Logged), rec) \in Seq(TradeRecord)
      /\ Append(Trades(Logged), rec) \o rest = Trades(Logged) \o todo
  <2>1. Trades(Logged) \in Seq(TradeRecord)
    BY <1>5 DEF Recoverable
  <2>2. /\ Append(Trades(Logged), rec) = Trades(Logged) \o <<rec>>
        /\ Append(Trades(Logged), rec) \in Seq(TradeRecord)
    BY <1>3, <2>1, AppendIsConcat, AppendProperties
  <2>3. (Trades(Logged) \o <<rec>>) \o rest = Trades(Logged) \o (<<rec>> \o rest)
    BY <1>3, <2>1, ConcatAssociative
  <2>4. QED
    BY <1>3, <2>2, <2>3
<1>10. IsPrefix(Commands(file'), handled)
    BY <1>1, <1>4, <1>5 DEF Inv, Accounted
<1>11. Typed'
    BY <1>1, <1>3, <1>4 DEF Inv, Typed, Places
<1>12. InHand'
    BY <1>1 DEF Inv, InHand
<1>13. Accounted'
  <2>1. /\ Applied(handled).book = book /\ Applied(handled).trades = Trades(Logged) \o todo
        /\ accepted = Taken \o queue /\ Taken' = Taken
    BY <1>1 DEF Inv, Accounted, Taken
  <2>2. QED
    BY <1>1, <1>7, <1>8, <1>9, <1>10, <2>1 DEF Accounted
<1>14. QED
    BY <1>1, <1>6, <1>11, <1>12, <1>13 DEF Inv

(* The buffer goes to the file: at a flush, and when the log is closed.    *)
LEMMA FlushedInv ==
    ASSUME Inv, pc \in {"flush", "leaving"}, file' = Logged, buffer' = <<>>,
           pc' \in {"publish", "loop", "done"}, pc' = "done" <=> pc = "leaving",
           UNCHANGED <<mode, stop, queue, cmd, todo, book, accepted, handled>>,
           shown' \in {shown, Len(handled)}
    PROVE  Inv'
<1>1. /\ Logged \in Seq(Record) /\ Recoverable(Logged) /\ Commands(Logged) = handled
      /\ IsPrefix(Commands(Logged), Commands(Logged))
    BY LoggedIsRecoverable
<1>2. Logged' = Logged
    BY <1>1, ConcatEmptySeq DEF Logged
<1>3. Len(handled) \in Nat /\ shown \in 0 .. Len(handled)
    BY LenProperties DEF Inv, Typed
<1>4. Typed'
  <2>1. <<>> \in Seq(Record) /\ Len(<<>>) = 0
    OBVIOUS
  <2>2. QED
    BY <1>3, <2>1, OmsAssumption DEF Inv, Typed, Places
<1>5. InHand'
    BY DEF Inv, InHand
<1>6. Accounted'
    BY <1>1, <1>2 DEF Inv, Accounted, Taken
<1>7. QED
    BY <1>1, <1>3, <1>4, <1>5, <1>6 DEF Inv

LEMMA PublishInv ==
    ASSUME Inv, Publish
    PROVE  Inv'
<1>1. /\ pc = "publish" /\ pc' = "loop" /\ shown' = Len(handled)
      /\ UNCHANGED <<mode, stop, queue, cmd, todo, book, buffer, file, accepted, handled>>
    BY DEF Publish, log
<1>2. Logged = file /\ Commands(Logged) = handled
  <2>1. buffer = <<>> /\ file \in Seq(Record)
    BY <1>1 DEF Inv, InHand, Recoverable
  <2>2. QED
    BY <1>1, <2>1, ConcatEmptySeq, LoggedIsRecoverable DEF Logged
<1>3. Len(handled) \in Nat
    BY LenProperties DEF Inv, Typed
<1>4. Typed' /\ InHand' /\ Accounted'
    BY <1>1, <1>3 DEF Inv, Typed, Places, InHand, Accounted, Logged, Taken
<1>5. QED
    BY <1>1, <1>2, <1>3, <1>4 DEF Inv

LEMMA CrashInv ==
    ASSUME Inv, Crash
    PROVE  Inv'
<1>1. /\ pc' = "crashed" /\ queue' = <<>> /\ cmd' = NoCommand /\ todo' = <<>>
      /\ book' = EmptyBook /\ buffer' = <<>>
      /\ UNCHANGED <<mode, stop, file, accepted, handled, shown>>
    BY DEF Crash, history
<1>2. Typed'
  <2>1. /\ <<>> \in Seq(Record) /\ <<>> \in Seq(Inputs) /\ <<>> \in Seq(TradeRecord)
        /\ Len(<<>>) = 0
    OBVIOUS
  <2>2. QED
    BY <1>1, <2>1, EmptyBookSound, OmsAssumption DEF Inv, Typed, Places
<1>3. InHand'
    BY <1>1 DEF InHand
<1>4. QED
    BY <1>1, <1>2, <1>3 DEF Inv

LEMMA NextInv ==
    ASSUME Inv, [Next]_vars
    PROVE  Inv'
<1>1. ASSUME NEW c \in Inputs, Submit(c) PROVE Inv'
    BY <1>1, SubmitInv
<1>2. CASE Stop
  <2>1. /\ stop' = TRUE /\ pc \notin {"done", "crashed"}
        /\ UNCHANGED <<mode, queue, pc, cmd, todo, book, buffer, file, accepted, handled, shown>>
    BY <1>2 DEF Stop, Over, consumer, log, history
  <2>2. Typed' /\ InHand' /\ Accounted'
    BY <2>1 DEF Inv, Typed, InHand, Accounted, Logged, Taken
  <2>3. QED
    BY <2>1, <2>2 DEF Inv
<1>3. CASE Flush
  <2>1. /\ pc = "flush" /\ file' = Logged /\ buffer' = <<>> /\ pc' \in {"publish", "loop"}
        /\ UNCHANGED <<mode, stop, queue, cmd, todo, book, accepted, handled, shown>>
    BY <1>3 DEF Flush, history, Logged
  <2>2. QED
    BY <2>1, FlushedInv
<1>4. CASE Leave
  <2>1. /\ pc = "leaving" /\ file' = Logged /\ buffer' = <<>> /\ pc' = "done"
        /\ shown' \in {shown, Len(handled)}
        /\ UNCHANGED <<mode, stop, queue, cmd, todo, book, accepted, handled>>
    BY <1>4 DEF Leave, Logged
  <2>2. QED
    BY <2>1, FlushedInv
<1>5. CASE Restart
    BY <1>5, FreshAgain DEF Restart, Fresh
<1>6. CASE UNCHANGED vars
  <2>1. UNCHANGED <<mode, stop, queue, pc, cmd, todo, book, buffer, file, accepted, handled,
                    shown>>
    BY <1>6 DEF vars, consumer, log, history
  <2>2. QED
    BY <2>1 DEF Inv, Typed, InHand, Accounted, Logged, Taken
<1>7. CASE Consume
    BY <1>3, <1>4, <1>7, LoopInv, PopInv, LogCommandInv, ApplyInv, LogTradeInv, PublishInv
       DEF Consume
<1>8. CASE Crash
    BY <1>8, CrashInv
<1>9. QED
    BY <1>1, <1>2, <1>5, <1>6, <1>7, <1>8 DEF Next

LEMMA InvHolds == Spec => []Inv
<1>1. Init => Inv
    BY FreshInv DEF Init, Fresh
<1>2. QED
    BY <1>1, NextInv, PTL DEF Spec

-----------------------------------------------------------------------------
(* The theorems.                                                           *)

(* The engine's state is well typed, and replaying what has been logged    *)
(* gives the book, at every moment but between logging a command and       *)
(* applying it.                                                            *)
THEOREM TheLogExplainsTheBook == Spec => []LogExplainsBook
<1>1. Inv => TypeOK
  <2> SUFFICES ASSUME Inv PROVE TypeOK
    OBVIOUS
  <2>1. \A i \in DOMAIN todo : todo[i].type = "Trade"
    BY LenProperties, ElementOfSeq, RecordTypes DEF Inv, Typed
  <2>2. book \in Book
    BY DEF Inv, Typed, SoundBook
  <2>3. QED
    BY <2>1, <2>2 DEF Inv, Typed, TypeOK
<1>2. Inv => (pc \notin {"apply", "crashed"} => Replay(Logged).book = book)
    BY DEF Inv, Accounted, Explained
<1>3. Inv => LogExplainsBook
    BY <1>1, <1>2 DEF LogExplainsBook
<1>4. QED
    BY InvHolds, <1>3, PTL

(* The file holds the first commands handled, none left out, and at least  *)
(* those the desk has shown; after a crash too.                            *)
THEOREM WhatIsShownIsInTheFile == Spec => []ShownIsRecoverable
<1>1. Inv => ShownIsRecoverable
  <2> SUFFICES ASSUME Inv PROVE ShownIsRecoverable
    OBVIOUS
  <2> DEFINE cs == Commands(file)
             upTo == IF cmd = NoCommand THEN handled ELSE Append(handled, cmd)
  <2>1. cs \in Seq(Inputs) /\ handled \in Seq(Inputs) /\ Len(cs) >= shown
    BY DEF Inv, Recoverable, Typed
  <2>2. ASSUME pc # "crashed" PROVE IsPrefix(cs, upTo)
    <3>1. IsPrefix(cs, IF pc = "apply" THEN Append(handled, cmd) ELSE handled)
      BY <2>2 DEF Inv, Accounted
    <3>2. pc \in {"log", "apply"} <=> cmd # NoCommand
      BY DEF Inv, InHand
    <3>3. CASE pc = "log"
      <4>1. cmd \in Inputs /\ IsPrefix(cs, handled) /\ upTo = Append(handled, cmd)
        BY <3>1, <3>2, <3>3 DEF Inv, Typed
      <4> HIDE DEF cs
      <4>2. IsPrefix(cs, Append(handled, cmd))
        BY <2>1, <4>1, PrefixAppend
      <4>3. QED
        BY <4>1, <4>2
    <3>4. CASE pc # "log"
      BY <3>1, <3>2, <3>4
    <3>5. QED
      BY <3>3, <3>4
  <2>3. QED
    BY <2>1, <2>2 DEF ShownIsRecoverable
<1>2. QED
    BY InvHolds, <1>1, PTL

(* The trades in the log are the ones its commands make, in their order.   *)
THEOREM TheTradesLogged == Spec => []TradesLoggedAreTheTradesMade
<1>1. Inv => TradesLoggedAreTheTradesMade
  <2> SUFFICES ASSUME Inv PROVE TradesLoggedAreTheTradesMade
    OBVIOUS
  <2>1. IsPrefix(Trades(file), Applied(Commands(file)).trades)
    BY DEF Inv, Recoverable
  <2>2. ASSUME pc \in {"loop", "pop", "log", "flush", "publish", "leaving", "done"}
        PROVE  Trades(Logged) = Applied(Commands(Logged)).trades
    <3>1. /\ todo = <<>> /\ Commands(Logged) = handled
          /\ Trades(Logged) \in Seq(TradeRecord)
          /\ Applied(handled).trades = Trades(Logged) \o todo
      BY <2>2 DEF Inv, InHand, Accounted
    <3>2. Trades(Logged) \o <<>> = Trades(Logged)
      BY <3>1, ConcatEmptySeq
    <3>3. QED
      BY <3>1, <3>2
  <2>3. QED
    BY <2>1, <2>2 DEF TradesLoggedAreTheTradesMade
<1>2. QED
    BY InvHolds, <1>1, PTL

(* The errors a replay reports are the commands the engine refused.        *)
THEOREM TheErrorsAreRefusals == Spec => []ErrorsAreRefusals
<1>1. Inv => ErrorsAreRefusals
    BY DEF Inv, Accounted, Explained, ErrorsAreRefusals, Reports
<1>2. QED
    BY InvHolds, <1>1, PTL

(* A session returns with every command accepted handled and logged; the   *)
(* desk leaves what is in the ring.                                        *)
THEOREM NothingIsLeftBehind == Spec => []NothingLeftBehind
<1>1. Inv => NothingLeftBehind
  <2> SUFFICES ASSUME Inv, pc = "done"
               PROVE  /\ Commands(file) = handled /\ accepted = handled \o queue
                      /\ mode = "session" => queue = <<>>
    BY DEF NothingLeftBehind
  <2>1. /\ buffer = <<>> /\ cmd = NoCommand /\ (mode = "session" => queue = <<>>)
        /\ file \in Seq(Record)
    BY DEF Inv, InHand, Recoverable
  <2>2. Logged = file
    BY <2>1, ConcatEmptySeq DEF Logged
  <2>3. QED
    BY <2>1, <2>2 DEF Inv, Accounted, Taken
<1>2. QED
    BY InvHolds, <1>1, PTL

(* Whatever of the log is in the file, after a crash too, a replay of it   *)
(* ends with the book that its commands lead to, and refuses as many of    *)
(* them as the engine would.                                               *)
THEOREM RecoveryIsExact ==
    Spec => [](/\ Replay(file).book = Applied(Commands(file)).book
               /\ Replay(file).errors = Applied(Commands(file)).refused)
<1>1. Inv => /\ Replay(file).book = Applied(Commands(file)).book
             /\ Replay(file).errors = Applied(Commands(file)).refused
    BY DEF Inv, Recoverable, Explained
<1>2. QED
    BY InvHolds, <1>1, PTL
=============================================================================
