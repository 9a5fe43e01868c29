----------------------------- MODULE DeskProofs -----------------------------
(***************************************************************************)
(* What the workstation promises: Desk.tla about orders, for every set of  *)
(* tickets, quotes and changes, every number of ids and every capacity of  *)
(* the ring, and Tasks.tla about the background tasks (at the end).        *)
(*                                                                         *)
(* Orders: the list of active orders agrees with what was sent, what was   *)
(* cancelled stays out of the market, "Cancel pending" is true, an         *)
(* immediate order only takes, and a ticket judged on the book as it is    *)
(* is judged as the engine would.                                          *)
(*                                                                         *)
(* None of the first four is inductive. Each speaks of the ring and the    *)
(* book, but what keeps it true is what the running handler has still to   *)
(* push, so the invariant follows an order from the desk through outbox    *)
(* and ring to the book: it is sent at most once, nothing of it is behind  *)
(* its cancel, and the cancel of an immediate order is right behind it.    *)
(* The last needs of it only that the book is sound: the argument is about *)
(* what the rows of a snapshot add up to and what the loop of the matcher  *)
(* takes.                                                                  *)
(***************************************************************************)
EXTENDS Desk, Tasks, BookLemmas

(***************************************************************************)
(* The invariant.                                                          *)
(***************************************************************************)

(* A command of this type for this order is in the queue.                  *)
Sends(q, type, id) == \E i \in 1 .. Len(q) : q[i].type = type /\ q[i].order_id = id

InState(id, state) == desk_orders[id] # Nothing /\ desk_orders[id].state = state

Typed ==
    /\ TypeOK /\ SoundBook(book) /\ PositiveOrders(book)
    /\ added \in [Ids -> {0, 1}]
    /\ handler \in TicketTypes
                   \union {"none", "simulation", "conditional", "cancel", "modify"}

(* Nothing anywhere has an id that is still to be given out.               *)
Numbered ==
    /\ \A i \in 1 .. Len(ring) : ring[i].order_id < next_order_id
    /\ \A i \in 1 .. Len(outbox) : outbox[i].order_id < next_order_id
    /\ \A id \in Ids : id >= next_order_id =>
          /\ desk_orders[id] = Nothing /\ conditional_orders[id] = Nothing
          /\ added[id] = 0 /\ id \notin withdrawn

(* added says which orders the ring has taken: those that rest, those in   *)
(* the ring, and none that is still to be pushed.                          *)
Sent ==
    /\ \A id \in Resting(book) : added[id] = 1
    /\ \A i \in 1 .. Len(ring) : ring[i].type = "Add" => added[ring[i].order_id] = 1
    /\ \A i \in 1 .. Len(outbox) : outbox[i].type = "Add" => added[outbox[i].order_id] = 0
    /\ \A i, j \in 1 .. Len(outbox) :
          outbox[i].type = "Add" /\ outbox[j].type = "Add"
            /\ outbox[i].order_id = outbox[j].order_id => i = j

(* An order waits for its trigger until the ring has taken it.             *)
ArmedWait ==
    \A id \in Armed :
        /\ added[id] = 0
        /\ desk_orders[id] # Nothing /\ desk_orders[id].type = "Stop"
        /\ desk_orders[id].state \notin {"Pending", "Cancel pending"}

PendingSent ==
    \A id \in Ids : InState(id, "Pending") => added[id] = 1 \/ desk_orders[id].type = "Stop"

(* What the list says of an order is so, or is about to be: the running    *)
(* handler has it to push.                                                 *)
Accounted ==
    /\ \A id \in Ids :
          /\ added[id] = 1 => desk_orders[id] # Nothing \/ id \in simulated
          /\ InState(id, "Pending") =>
                added[id] = 1 \/ Sends(outbox, "Add", id) \/ id \in lost
          /\ desk_orders[id] # Nothing =>
                \/ added[id] = 1 \/ Sends(outbox, "Add", id) \/ id \in lost
                \/ id \in Armed \/ id \in withdrawn
    /\ handler = "simulation" => \A i \in 1 .. Len(outbox) : outbox[i].order_id \in simulated

(* What a ticket has left to push: its order and, for a transient one, the *)
(* cancel behind it.                                                       *)
TicketPushes ==
    /\ Len(outbox) <= 2
    /\ \A i \in 1 .. Len(outbox) : /\ outbox[i].order_id = next_order_id - 1
                                   /\ outbox[i].type # "Modify"
                                   /\ i = 2 => outbox[i].type = "Cancel"
    /\ Len(outbox) > 0 /\ outbox[1].type = "Add" =>
          /\ IF handler = "Stop"
             THEN InState(outbox[1].order_id, "Pending")
             ELSE desk_orders[outbox[1].order_id] = Nothing
          /\ handler \in {"IOC", "FOK", "Market"} => Len(outbox) = 2

Handlers ==
    /\ \A i \in 1 .. Len(outbox) :
          /\ outbox[i].type = "Add" =>
                /\ handler \in TicketTypes \union {"simulation", "conditional"}
                /\ outbox[i].order_id \in Armed <=> handler = "conditional"
                /\ handler = "simulation" => desk_orders[outbox[i].order_id] = Nothing
          /\ handler = "conditional" => outbox[i].type = "Add"
    /\ handler \in TicketTypes => TicketPushes

(* No order is sent after its cancel.                                      *)
CancelsLast ==
    /\ \A i \in 1 .. Len(ring) : ring[i].type = "Cancel" =>
          /\ ring[i].order_id \notin Armed
          /\ ~ Sends(outbox, "Add", ring[i].order_id)
          /\ \A j \in i .. Len(ring) :
                ~ (ring[j].type = "Add" /\ ring[j].order_id = ring[i].order_id)
    /\ \A i \in 1 .. Len(outbox) : outbox[i].type = "Cancel" =>
          /\ outbox[i].order_id \notin Armed
          /\ \A j \in i .. Len(outbox) :
                ~ (outbox[j].type = "Add" /\ outbox[j].order_id = outbox[i].order_id)

CancelUnderWay ==
    \A id \in Ids : InState(id, "Cancel pending") =>
        \/ Sends(ring, "Cancel", id) \/ Sends(outbox, "Cancel", id)
        \/ id \in refused \/ id \in withdrawn

StaysOut ==
    \A id \in withdrawn : /\ id \notin Resting(book) /\ id \notin Armed
                          /\ ~ Sends(ring, "Add", id) /\ ~ Sends(outbox, "Add", id)

(* What the engine gets after the first i commands of the ring is the      *)
(* cancel of the order.                                                    *)
CancelFollows(i, id) ==
    IF i < Len(ring) THEN ring[i + 1].type = "Cancel" /\ ring[i + 1].order_id = id
    ELSE /\ handler \in TicketTypes /\ Len(outbox) > 0
         /\ outbox[1].type = "Cancel" /\ outbox[1].order_id = id

OnlyTakes ==
    \A id \in Transient \ refused :
        /\ id \in Resting(book) => CancelFollows(0, id)
        /\ \A i \in 1 .. Len(ring) :
              ring[i].type = "Add" /\ ring[i].order_id = id => CancelFollows(i, id)

Inv == /\ Typed /\ Numbered /\ Sent /\ ArmedWait /\ PendingSent /\ Accounted
       /\ Handlers /\ CancelsLast /\ CancelUnderWay /\ StaysOut /\ OnlyTakes

-----------------------------------------------------------------------------
(* The operators.                                                          *)

LEMMA IdsAreNumbers ==
    /\ Cardinality(Ids) \in Nat /\ Ids = 1 .. Cardinality(Ids) /\ Ids \subseteq Int
    BY DeskAssumption, FS_CardinalityType

LEMMA Distinct ==
    /\ Nothing \notin DeskOrder /\ Nothing \notin ConditionalOrder
    /\ Quantities \subseteq Int /\ Prices \subseteq Int
    BY DeskAssumption, BookAssumption

(* A recursive function of the numbers up to n exists.                     *)
LEMMA InOrderUpTo ==
    ASSUME NEW ids \in SUBSET Ids
    PROVE  \E run : /\ InOrder(ids) = run[Cardinality(Ids)]
                    /\ run[0] = <<>>
                    /\ \A k \in 1 .. Cardinality(Ids) :
                          run[k] = IF k \in ids THEN Append(run[k - 1], k) ELSE run[k - 1]
<1> DEFINE size == Cardinality(Ids)
           step(q, k) == IF k \in ids THEN Append(q, k) ELSE q
           upTo(f, n) == [k \in 0 .. n |-> IF k = 0 THEN <<>> ELSE step(f[k - 1], k)]
           reached(n) == \E f : f = upTo(f, n)
           T == {n \in 0 .. size : reached(n)}
           run == CHOOSE f : f = upTo(f, size)
<1>0. size \in Nat
    BY IdsAreNumbers
<1>1. InOrder(ids) = run[size]
    BY DEF InOrder
<1> HIDE DEF size, step
<1>2. reached(0)
  <2> DEFINE g == [k \in 0 .. 0 |-> <<>>]
  <2>1. \A k \in 0 .. 0 : g[k] = upTo(g, 0)[k]
    OBVIOUS
  <2>2. QED
    BY <2>1
<1>3. ASSUME NEW n \in 1 .. size, reached(n - 1) PROVE reached(n)
  <2>1. PICK f : f = upTo(f, n - 1)
    BY <1>3
  <2> DEFINE g == [k \in 0 .. n |-> IF k = n THEN step(f[n - 1], n) ELSE f[k]]
  <2>2. \A k \in 0 .. n : g[k] = upTo(g, n)[k]
    BY <1>0, <2>1
  <2>3. g = upTo(g, n)
    BY <2>2
  <2>4. QED
    BY <2>3
<1>4. reached(size)
  <2> HIDE DEF reached
  <2>1. 0 \in T /\ \A k \in 1 .. size : k - 1 \in T => k \in T
    BY <1>0, <1>2, <1>3
  <2> HIDE DEF T
  <2>2. size \in T
    BY <1>0, <2>1, InductionTo
  <2>3. QED
    BY <2>2 DEF T
<1>5. run = upTo(run, size)
    BY <1>4
<1>6. run[0] = <<>> /\ \A k \in 1 .. size : run[k] = step(run[k - 1], k)
  <2> HIDE DEF run
  <2>1. \A k \in 0 .. size : run[k] = IF k = 0 THEN <<>> ELSE step(run[k - 1], k)
    BY <1>5
  <2>2. QED
    BY <1>0, <2>1
<1>7. QED
    BY <1>1, <1>6 DEF step, size

(* The vector of a set has each of its ids once.                           *)
LEMMA InOrderFacts ==
    ASSUME NEW ids \in SUBSET Ids, NEW q, q = InOrder(ids)
    PROVE  /\ q \in Seq(ids)
           /\ \A id \in ids : \E i \in 1 .. Len(q) : q[i] = id
           /\ \A i, j \in 1 .. Len(q) : q[i] = q[j] => i = j
<1> DEFINE size == Cardinality(Ids)
           holds(r, k) == /\ r \in Seq(ids)
                          /\ \A id \in ids : id <= k => \E i \in 1 .. Len(r) : r[i] = id
                          /\ \A i \in 1 .. Len(r) : r[i] <= k
                          /\ \A i, j \in 1 .. Len(r) : r[i] = r[j] => i = j
<1>0. size \in Nat /\ Ids = 1 .. size /\ ids \subseteq 1 .. size
    BY IdsAreNumbers
<1>1. PICK run : /\ q = run[size]
                 /\ run[0] = <<>>
                 /\ \A k \in 1 .. size :
                       run[k] = IF k \in ids THEN Append(run[k - 1], k) ELSE run[k - 1]
    BY InOrderUpTo
<1> DEFINE T == {k \in 0 .. size : holds(run[k], k)}
<1> HIDE DEF size
<1>2. 0 \in T
  <2>1. run[0] \in Seq(ids) /\ Len(run[0]) = 0
    BY <1>1
  <2>2. holds(run[0], 0)
    BY <1>0, <2>1
  <2>3. QED
    BY <1>0, <2>2
<1>3. ASSUME NEW k \in 1 .. size, k - 1 \in T PROVE k \in T
  <2>0. k \in Nat /\ \A id \in ids : id \in Nat
    BY <1>0
  <2>1. holds(run[k - 1], k - 1)
    BY <1>3
  <2>2. CASE k \notin ids
    <3> DEFINE r == run[k - 1]
    <3>1. run[k] = r
      BY <1>1, <2>2
    <3>2. \A i \in 1 .. Len(r) : r[i] \in ids /\ r[i] <= k - 1
      BY <2>1, ElementOfSeq
    <3>3. \A id \in ids : id <= k => id <= k - 1
      BY <2>0, <2>2
    <3> HIDE DEF r
    <3>4. \A i \in 1 .. Len(r) : r[i] <= k
      BY <2>0, <3>2
    <3>5. holds(r, k)
      BY <2>1, <3>3, <3>4 DEF r
    <3>6. QED
      BY <3>1, <3>5
  <2>3. CASE k \in ids
    <3> DEFINE r == run[k - 1]
               s == Append(r, k)
    <3>1. run[k] = s
      BY <1>1, <2>3
    <3>2. /\ s \in Seq(ids) /\ Len(s) = Len(r) + 1 /\ Len(r) \in Nat
          /\ \A i \in 1 .. Len(r) : s[i] = r[i]
          /\ s[Len(r) + 1] = k
      BY <2>1, <2>3, AppendProperties, LenProperties
    <3>3. \A i \in 1 .. Len(r) : r[i] \in ids /\ r[i] <= k - 1
      BY <2>1, ElementOfSeq
    <3> HIDE DEF r, s
    <3>4. ASSUME NEW i \in 1 .. Len(s) PROVE s[i] <= k
      <4>1. i \in 1 .. Len(r) \/ i = Len(r) + 1
        BY <3>2
      <4>2. CASE i \in 1 .. Len(r)
        BY <2>0, <3>2, <3>3, <4>2
      <4>3. QED
        BY <2>0, <3>2, <4>1, <4>2
    <3>5. \A i, j \in 1 .. Len(s) : s[i] = s[j] => i = j
      <4>1. ASSUME NEW i \in 1 .. Len(s), NEW j \in 1 .. Len(s), s[i] = s[j] PROVE i = j
        <5>1. CASE i \in 1 .. Len(r) /\ j \in 1 .. Len(r)
          BY <2>1, <3>2, <4>1, <5>1 DEF r
        <5>2. CASE ~ (i \in 1 .. Len(r) /\ j \in 1 .. Len(r))
          BY <1>0, <3>2, <3>3, <4>1, <5>2
        <5>3. QED
          BY <5>1, <5>2
      <4>2. QED
        BY <4>1
    <3>6. ASSUME NEW id \in ids, id <= k PROVE \E i \in 1 .. Len(s) : s[i] = id
      <4>1. CASE id = k
        BY <3>2, <4>1
      <4>2. CASE id # k
        <5>1. id <= k - 1
          BY <1>0, <3>6, <4>2
        <5>2. PICK i \in 1 .. Len(r) : r[i] = id
          BY <2>1, <5>1 DEF r
        <5>3. QED
          BY <3>2, <5>2
      <4>3. QED
        BY <4>1, <4>2
    <3>7. holds(s, k)
      BY <3>2, <3>4, <3>5, <3>6
    <3>8. k \in 0 .. size
      BY <1>0
    <3> HIDE DEF holds
    <3>9. QED
      BY <3>1, <3>7, <3>8
  <2>4. QED
    BY <2>2, <2>3
<1> HIDE DEF T
<1>4. size \in T
    BY <1>0, <1>2, <1>3, InductionTo
<1>5. holds(q, size)
    BY <1>1, <1>4 DEF T
<1>6. QED
    BY <1>0, <1>5

(* What a command does to the book, and whom it trades with.               *)
LEMMA ApplyFacts ==
    ASSUME NEW b, SoundBook(b), PositiveOrders(b), NEW c \in Command,
           NEW r, r = ApplyCommand(b, c)
    PROVE  /\ SoundBook(r.book) /\ PositiveOrders(r.book)
           /\ c.type = "Add" => Resting(r.book) \subseteq Resting(b) \union {c.order_id}
           /\ c.type = "Modify" => Resting(r.book) \subseteq Resting(b)
           /\ c.type = "Cancel" => /\ Resting(r.book) \subseteq Resting(b) \ {c.order_id}
                                  /\ Len(r.trades) = 0
           /\ r.trades \in Seq(Trade)
           /\ \A i \in 1 .. Len(r.trades) : r.trades[i].maker_id \in Resting(b)
<1>1. /\ c.order_id \in Ids /\ c.type \in {"Add", "Modify", "Cancel"}
      /\ c.type \in {"Add", "Modify"} => c.side \in Side /\ c.price \in Prices /\ c.qty \in Int
    BY BookAssumption DEF Command
<1>2. <<>> \in Seq(Trade) /\ Len(<<>>) = 0
    OBVIOUS
<1>3. CASE c.type = "Add"
  <2>1. r = SubmitOrder(b, c.order_id, c.side, c.price, c.qty)
    BY <1>3 DEF ApplyCommand
  <2>2. QED
    BY <1>1, <1>3, <2>1, SubmitOrderFacts, SubmitOrderTakes
<1>4. CASE c.type = "Cancel"
  <2>1. r.book = CancelOrder(b, c.order_id).book /\ r.trades = <<>>
    BY <1>4 DEF ApplyCommand, EngineCancel, NoFills
  <2>2. Resting(r.book) \subseteq Resting(b) \ {c.order_id}
    <3>1. CASE c.order_id \in Resting(b)
      BY <2>1, <3>1, DroppedFacts DEF CancelOrder, Done, SoundBook
    <3>2. CASE c.order_id \notin Resting(b)
      BY <2>1, <3>2 DEF CancelOrder, Rejected
    <3>3. QED
      BY <3>1, <3>2
  <2>3. QED
    BY <1>1, <1>2, <1>4, <2>1, <2>2, CancelPositive
<1>5. CASE c.type = "Modify" /\ c.order_id \notin Resting(b)
  <2>1. r.book = b /\ r.trades = <<>>
    BY <1>5 DEF ApplyCommand, CancelOrder, Rejected, NoFills
  <2>2. QED
    BY <1>2, <1>5, <2>1
<1>6. CASE c.type = "Modify" /\ c.order_id \in Resting(b)
  <2> DEFINE d == Dropped(b, c.order_id)
  <2>1. r = SubmitOrder(d, c.order_id, b.orders[c.order_id].side, c.price, c.qty)
    BY <1>6 DEF ApplyCommand, CancelOrder, Done
  <2>2. /\ SoundBook(d) /\ PositiveOrders(d)
        /\ Resting(d) \subseteq Resting(b)
    BY <1>6, DroppedShrinks DEF Shrinks
  <2>3. b.orders[c.order_id].side \in Side
    BY <1>6, RestingTyped DEF SoundBook, Order
  <2> HIDE DEF d
  <2>4. /\ SoundBook(r.book) /\ PositiveOrders(r.book) /\ r.trades \in Seq(Trade)
        /\ Resting(r.book) \subseteq Resting(d) \union {c.order_id}
        /\ \A i \in 1 .. Len(r.trades) : r.trades[i].maker_id \in Resting(d)
    BY <1>1, <1>6, <2>1, <2>2, <2>3, SubmitOrderFacts, SubmitOrderTakes
  <2>5. QED
    BY <1>6, <2>2, <2>4
<1>7. QED
    BY <1>1, <1>3, <1>4, <1>5, <1>6

(* The queue to the engine is the ring and then the outbox.                *)
LEMMA ToGoFacts ==
    ASSUME NEW S, ring \in Seq(S), outbox \in Seq(S), NEW type, NEW id
    PROVE  ToGo(type, id) <=> Sends(ring, type, id) \/ Sends(outbox, type, id)
<1> DEFINE q == ring \o outbox
           n == Len(ring)
           m == Len(outbox)
<1>1. /\ q \in Seq(S) /\ Len(q) = n + m /\ n \in Nat /\ m \in Nat
      /\ \A i \in 1 .. n : q[i] = ring[i]
      /\ \A i \in 1 .. m : q[n + i] = outbox[i]
  <2>1. /\ q \in Seq(S) /\ Len(q) = n + m
        /\ \A i \in 1 .. n + m : q[i] = IF i <= n THEN ring[i] ELSE outbox[i - n]
    BY ConcatProperties
  <2>2. n \in Nat /\ m \in Nat
    BY LenProperties
  <2> HIDE DEF q, n, m
  <2>3. QED
    BY <2>1, <2>2
<1>2. DOMAIN q = 1 .. n + m
    BY <1>1, LenProperties
<1> HIDE DEF q
<1>3. ToGo(type, id) <=> \E i \in 1 .. n + m : q[i].type = type /\ q[i].order_id = id
    BY <1>2 DEF ToGo, q
<1>4. ASSUME NEW i \in 1 .. n + m, q[i].type = type, q[i].order_id = id
      PROVE  Sends(ring, type, id) \/ Sends(outbox, type, id)
  <2>1. CASE i <= n
    BY <1>1, <1>4, <2>1 DEF Sends
  <2>2. CASE ~ (i <= n)
    <3>1. i - n \in 1 .. m /\ n + (i - n) = i
      BY <1>1, <2>2
    <3>2. q[i] = outbox[i - n]
      BY <1>1, <3>1
    <3>3. QED
      BY <1>4, <3>1, <3>2 DEF Sends
  <2>3. QED
    BY <2>1, <2>2
<1>5. ASSUME Sends(ring, type, id) PROVE ToGo(type, id)
    BY <1>1, <1>3, <1>5 DEF Sends
<1>6. ASSUME Sends(outbox, type, id) PROVE ToGo(type, id)
  <2>1. PICK i \in 1 .. m : outbox[i].type = type /\ outbox[i].order_id = id
    BY <1>6 DEF Sends
  <2>2. n + i \in 1 .. n + m /\ q[n + i] = outbox[i]
    BY <1>1
  <2>3. QED
    BY <1>3, <2>1, <2>2
<1>7. QED
    BY <1>3, <1>4, <1>5, <1>6

LEMMA TailFacts ==
    ASSUME NEW S, NEW q \in Seq(S), q # <<>>
    PROVE  /\ Tail(q) \in Seq(S) /\ Len(q) \in Nat /\ Len(q) > 0 /\ Len(Tail(q)) = Len(q) - 1
           /\ Head(q) = q[1] /\ q[1] \in S
           /\ \A i \in 1 .. Len(Tail(q)) : Tail(q)[i] = q[i + 1]
<1>1. Len(q) \in Nat /\ Len(q) > 0
    BY EmptySeq, LenProperties
<1>2. QED
    BY <1>1, HeadTailProperties, ElementOfSeq

(* A queue of at most two commands.                                        *)
LEMMA ShortQueues ==
    ASSUME NEW S, NEW a \in S, NEW b \in S
    PROVE  /\ <<>> \in Seq(S) /\ Len(<<>>) = 0
           /\ <<a>> \in Seq(S) /\ Len(<<a>>) = 1 /\ <<a>>[1] = a
           /\ <<a, b>> \in Seq(S) /\ Len(<<a, b>>) = 2
           /\ <<a, b>>[1] = a /\ <<a, b>>[2] = b
    OBVIOUS

LEMMA TypedFacts ==
    ASSUME Typed
    PROVE  /\ next_order_id \in Nat
           /\ ring \in Seq(Command) /\ outbox \in Seq(Command)
           /\ Len(ring) \in Nat /\ Len(outbox) \in Nat
           /\ \A i \in 1 .. Len(ring) : ring[i] \in Command /\ ring[i].order_id \in Ids
           /\ \A i \in 1 .. Len(outbox) : outbox[i] \in Command /\ outbox[i].order_id \in Ids
<1>1. \A c \in Command : c.order_id \in Ids
    BY DEF Command
<1>2. QED
    BY <1>1, LenProperties, ElementOfSeq, IdsAreNumbers DEF Typed, TypeOK

LEMMA CommandFacts ==
    /\ \A id \in Ids, s \in Side, p \in Prices, qty \in Quantities :
          /\ AddOf(id, s, p, qty) \in Command
          /\ AddOf(id, s, p, qty).type = "Add" /\ AddOf(id, s, p, qty).order_id = id
    /\ \A id \in Ids :
          /\ CancelOf(id) \in Command
          /\ CancelOf(id).type = "Cancel" /\ CancelOf(id).order_id = id
    BY DEF AddOf, CancelOf, Command

-----------------------------------------------------------------------------
(* The steps. A handler starts when the outbox is empty: what is behind    *)
(* the ring's last command is then nothing.                                *)

LEMMA IdleOnlyTakes ==
    ASSUME Inv, Idle, UNCHANGED <<ring, book, refused>>, Transient' \subseteq Transient
    PROVE  OnlyTakes'
<1>1. Len(outbox) = 0
    BY DEF Idle
<1>2. ASSUME NEW i \in Nat, NEW id, CancelFollows(i, id) PROVE CancelFollows(i, id)'
    BY <1>1, <1>2 DEF CancelFollows
<1>3. Len(ring) \in Nat
    BY TypedFacts DEF Inv
<1>4. ASSUME NEW id \in (Transient \ refused)'
      PROVE  /\ id \in Resting(book)' => CancelFollows(0, id)'
             /\ \A i \in 1 .. Len(ring') : 
                   ring'[i].type = "Add" /\ ring'[i].order_id = id => CancelFollows(i, id)'
  <2>1. id \in Transient \ refused
    BY <1>4
  <2>2. /\ id \in Resting(book) => CancelFollows(0, id)
        /\ \A i \in 1 .. Len(ring) : 
              ring[i].type = "Add" /\ ring[i].order_id = id => CancelFollows(i, id)
    BY <2>1 DEF Inv, OnlyTakes
  <2> HIDE DEF CancelFollows
  <2>3. QED
    BY <1>2, <1>3, <2>2
<1>5. QED
    BY <1>4 DEF OnlyTakes

(* A handler lists only what it sends or leaves to wait.                   *)
LEMMA HandlerAccounts ==
    ASSUME Inv, Idle, UNCHANGED <<added, lost>>,
           simulated \subseteq simulated', withdrawn \subseteq withdrawn',
           Armed \subseteq Armed' \union withdrawn',
           \A x \in Ids :
              /\ desk_orders[x] # Nothing => desk_orders'[x] # Nothing
              /\ desk_orders'[x] # Nothing =>
                    desk_orders[x] # Nothing \/ Sends(outbox', "Add", x) \/ x \in Armed'
              /\ InState(x, "Pending")' => InState(x, "Pending") \/ Sends(outbox', "Add", x),
           handler' = "simulation" =>
              \A i \in 1 .. Len(outbox') : outbox'[i].order_id \in simulated'
    PROVE  Accounted'
<1>1. \A x : ~ Sends(outbox, "Add", x)
    BY DEF Idle, Sends
<1>2. ASSUME NEW x \in Ids
      PROVE  /\ added'[x] = 1 => desk_orders'[x] # Nothing \/ x \in simulated'
             /\ InState(x, "Pending")' =>
                   added'[x] = 1 \/ Sends(outbox', "Add", x) \/ x \in lost'
             /\ desk_orders'[x] # Nothing =>
                   \/ added'[x] = 1 \/ Sends(outbox', "Add", x) \/ x \in lost'
                   \/ x \in Armed' \/ x \in withdrawn'
    BY <1>1 DEF Inv, Accounted
<1>3. \A x : Sends(outbox, "Add", x)' <=> Sends(outbox', "Add", x)
    BY DEF Sends
<1>4. QED
    BY <1>2, <1>3 DEF Accounted

LEMMA SubmitTicketInv ==
    ASSUME Inv, NEW t \in Tickets, NEW snap, SubmitTicket(t, snap)
    PROVE  Inv'
<1> DEFINE id == next_order_id
           p == LimitPrice(t, snap)
           fires == t.type = "Stop" => Triggered(t.side, t.trigger, snap)
           add == AddOf(id, t.side, p, t.qty)
           transient == t.type \in {"IOC", "FOK", "Market"}
<1>1. /\ id \in Ids /\ p \in Prices /\ t.type \in TicketTypes /\ t.side \in Side
      /\ t.qty \in Quantities /\ t.trigger \in Int
    BY DeskAssumption DEF SubmitTicket, Ticket
<1>2. /\ id \in Int /\ Len(outbox) = 0
      /\ desk_orders[id] = Nothing /\ conditional_orders[id] = Nothing
      /\ added[id] = 0 /\ id \notin withdrawn
    BY <1>1, IdsAreNumbers DEF Inv, Numbered, SubmitTicket, Idle
<1>3. /\ next_order_id' = id + 1 /\ handler' = IF fires THEN t.type ELSE "none"
      /\ UNCHANGED <<ring, active, view, cpc, book, added, refused, lost, withdrawn, simulated>>
    BY DEF SubmitTicket, engine, screen, sent
<1>4. add \in Command /\ add.type = "Add" /\ add.order_id = id
    BY <1>1, CommandFacts
<1>5. /\ outbox' \in Seq(Command)
      /\ Len(outbox') = IF ~ fires THEN 0 ELSE IF transient THEN 2 ELSE 1
      /\ fires => outbox'[1] = add
      /\ fires /\ transient => outbox'[2] = CancelOf(id)
  <2>1. outbox' = IF fires THEN IF transient THEN <<add, CancelOf(id)>> ELSE <<add>> ELSE <<>>
    BY <1>4 DEF SubmitTicket, PushesOf
  <2> HIDE DEF add, fires
  <2>2. QED
    BY <1>1, <1>4, <2>1, CommandFacts, ShortQueues
<1>6. /\ desk_orders' \in [Ids -> DeskOrder \union {Nothing}]
      /\ \A x \in Ids : x # id => desk_orders'[x] = desk_orders[x]
      /\ t.type # "Stop" => desk_orders'[id] = Nothing
      /\ t.type = "Stop" =>
            /\ desk_orders'[id] # Nothing /\ desk_orders'[id].type = "Stop"
            /\ desk_orders'[id].state = IF fires THEN "Pending" ELSE "Conditional"
  <2> DEFINE st == IF fires THEN "Pending" ELSE "Conditional"
             o == Listed(t.type, t.side, p, t.qty, st)
  <2>1. desk_orders' = IF t.type # "Stop" THEN desk_orders ELSE [desk_orders EXCEPT ![id] = o]
    BY DEF SubmitTicket
  <2> HIDE DEF fires, p
  <2>5. st \in {"Pending", "Conditional", "Cancel pending", "Modify pending"}
    OBVIOUS
  <2> HIDE DEF st
  <2>2. o \in DeskOrder /\ o # Nothing /\ o.type = t.type /\ o.state = st
    <3>1. o \in DeskOrder
      BY <1>1, <2>5 DEF Listed, DeskOrder
    <3>2. o.type = t.type /\ o.state = st
      BY DEF Listed
    <3>3. QED
      BY <3>1, <3>2, Distinct
  <2>3. desk_orders \in [Ids -> DeskOrder \union {Nothing}]
    BY DEF Inv, Typed, TypeOK
  <2> HIDE DEF o
  <2>4. QED
    BY <1>1, <1>2, <2>1, <2>2, <2>3 DEF st
<1>7. /\ conditional_orders' \in [Ids -> ConditionalOrder \union {Nothing}]
      /\ \A x \in Ids : x # id => conditional_orders'[x] = conditional_orders[x]
      /\ conditional_orders'[id] = Nothing <=> fires
  <2> DEFINE o == [side |-> t.side, price |-> p, qty |-> t.qty, trigger |-> t.trigger]
  <2>1. conditional_orders' = IF fires THEN conditional_orders
                              ELSE [conditional_orders EXCEPT ![id] = o]
    BY DEF SubmitTicket
  <2>2. o \in ConditionalOrder /\ o # Nothing
    BY <1>1, Distinct DEF ConditionalOrder
  <2>3. conditional_orders \in [Ids -> ConditionalOrder \union {Nothing}]
    BY DEF Inv, Typed, TypeOK
  <2> HIDE DEF o, fires, p
  <2>4. QED
    BY <1>1, <1>2, <2>1, <2>2, <2>3
<1>8. ~ fires => t.type = "Stop"
    OBVIOUS
<1> HIDE DEF p, fires, add
<1>9. /\ \A i \in 1 .. Len(outbox') :
            /\ outbox'[i].order_id = id
            /\ outbox'[i].type = "Add" <=> i = 1
            /\ outbox'[i].type = "Cancel" <=> i = 2
      /\ Len(outbox') \in 0 .. 2
    BY <1>1, <1>4, <1>5, CommandFacts
<1>10. Armed' = IF fires THEN Armed ELSE Armed \union {id}
    BY <1>1, <1>2, <1>7 DEF Armed
<1>11. \A x \in withdrawn \union Armed : x # id
    BY <1>2 DEF Armed
<1>12. \A i \in 1 .. Len(ring) : ring[i].order_id \in Ids /\ ring[i].order_id # id
    BY <1>2, TypedFacts, IdsAreNumbers DEF Inv, Numbered
<1>13. /\ Ids \subseteq Int /\ Armed \subseteq Ids
       /\ \A type, x : Sends(ring', type, x) <=> Sends(ring, type, x)
       /\ \A type, x : ~ Sends(outbox, type, x)
       /\ \A x : Sends(outbox', "Add", x) => x = id
    BY <1>2, <1>3, <1>9, IdsAreNumbers DEF Armed, Sends
<1>14. Typed'
  <2>1. next_order_id' \in 1 .. Cardinality(Ids) + 1
    BY <1>1, <1>3, IdsAreNumbers
  <2>2. handler' \in TicketTypes
                       \union {"none", "simulation", "conditional", "cancel", "modify"}
    BY <1>1, <1>3
  <2>3. QED
    BY <1>3, <1>5, <1>6, <1>7, <2>1, <2>2 DEF Inv, Typed, TypeOK
<1>15. Numbered'
  <2>1. ASSUME NEW i \in 1 .. Len(ring) PROVE ring[i].order_id < id + 1
    <3>1. ring[i].order_id < id /\ ring[i].order_id \in Int
      BY <1>12, <1>13 DEF Inv, Numbered
    <3>2. QED
      BY <1>2, <3>1
  <2>2. \A i \in 1 .. Len(outbox') : outbox'[i].order_id < id + 1
    BY <1>2, <1>9
  <2>3. ASSUME NEW x \in Ids, x >= id + 1
        PROVE  /\ desk_orders'[x] = Nothing /\ conditional_orders'[x] = Nothing
               /\ added[x] = 0 /\ x \notin withdrawn
    <3>1. x # id /\ x >= id
      BY <1>2, <1>13, <2>3
    <3>2. QED
      BY <1>6, <1>7, <3>1 DEF Inv, Numbered
  <2>4. QED
    BY <1>3, <2>1, <2>2, <2>3 DEF Numbered
<1>16. Sent'
    BY <1>2, <1>3, <1>9 DEF Inv, Sent
<1>17. ArmedWait'
  <2>1. ASSUME NEW x \in Armed'
        PROVE  /\ added'[x] = 0
               /\ desk_orders'[x] # Nothing /\ desk_orders'[x].type = "Stop"
               /\ desk_orders'[x].state \notin {"Pending", "Cancel pending"}
    <3>1. CASE x = id
      BY <1>2, <1>3, <1>6, <1>8, <1>10, <1>11, <2>1, <3>1
    <3>2. CASE x # id
      <4>1. x \in Armed /\ x \in Ids
        BY <1>10, <1>13, <2>1, <3>2
      <4>2. QED
        BY <1>3, <1>6, <3>2, <4>1 DEF Inv, ArmedWait
    <3>3. QED
      BY <3>1, <3>2
  <2>2. QED
    BY <2>1 DEF ArmedWait
<1>18. PendingSent' /\ Accounted'
  <2>1. PendingSent'
    BY <1>2, <1>3, <1>6 DEF Inv, PendingSent, InState
  <2>2. fires => Sends(outbox', "Add", id)
    BY <1>4, <1>5 DEF Sends
  <2>3. ASSUME NEW x \in Ids
        PROVE  /\ desk_orders[x] # Nothing => desk_orders'[x] # Nothing
               /\ desk_orders'[x] # Nothing =>
                     desk_orders[x] # Nothing \/ Sends(outbox', "Add", x) \/ x \in Armed'
               /\ InState(x, "Pending")' => InState(x, "Pending") \/ Sends(outbox', "Add", x)
    <3>1. CASE x = id
      BY <1>2, <1>6, <1>10, <2>2, <3>1 DEF InState
    <3>2. CASE x # id
      BY <1>6, <3>2 DEF InState
    <3>3. QED
      BY <3>1, <3>2
  <2>4. handler' # "simulation"
    BY <1>1, <1>3 DEF TicketTypes
  <2>5. Idle /\ Armed \subseteq Armed'
    BY <1>10 DEF SubmitTicket
  <2>6. QED
    BY <1>3, <2>1, <2>3, <2>4, <2>5, HandlerAccounts
<1>19. Handlers'
  <2>1. TicketPushes'
    BY <1>1, <1>2, <1>3, <1>5, <1>6, <1>9 DEF TicketPushes, InState
  <2>2. QED
    BY <1>1, <1>2, <1>3, <1>5, <1>9, <1>10, <1>11, <2>1 DEF Handlers, TicketTypes
<1>20. CancelsLast'
  <2>1. ASSUME NEW i \in 1 .. Len(ring), ring[i].type = "Cancel"
        PROVE  /\ ring[i].order_id \notin Armed'
               /\ ~ Sends(outbox', "Add", ring[i].order_id)
               /\ \A j \in i .. Len(ring) :
                     ~ (ring[j].type = "Add" /\ ring[j].order_id = ring[i].order_id)
    BY <1>10, <1>12, <1>13, <2>1 DEF Inv, CancelsLast
  <2>2. ASSUME NEW i \in 1 .. Len(outbox'), outbox'[i].type = "Cancel"
        PROVE  /\ outbox'[i].order_id \notin Armed'
               /\ \A j \in i .. Len(outbox') :
                     ~ (outbox'[j].type = "Add" /\ outbox'[j].order_id = outbox'[i].order_id)
    BY <1>5, <1>9, <1>10, <1>11, <2>2
  <2>3. QED
    BY <1>3, <2>1, <2>2 DEF CancelsLast
<1>21. CancelUnderWay'
  <2>1. ASSUME NEW x \in Ids, InState(x, "Cancel pending")'
        PROVE  \/ Sends(ring, "Cancel", x)'
               \/ x \in refused' \/ x \in withdrawn'
    <3>1. desk_orders'[x] # Nothing /\ desk_orders'[x].state = "Cancel pending"
      BY <2>1 DEF InState
    <3>3. x # id
      BY <1>6, <1>8, <3>1
    <3>2. desk_orders'[x] = desk_orders[x]
      BY <1>6, <3>3
    <3>4. InState(x, "Cancel pending")
      BY <3>1, <3>2 DEF InState
    <3>5. QED
      BY <1>3, <1>13, <3>4 DEF Inv, CancelUnderWay
  <2>2. QED
    BY <2>1 DEF CancelUnderWay
<1>22. StaysOut'
    BY <1>2, <1>3, <1>10, <1>11, <1>13 DEF Inv, StaysOut
<1>23. OnlyTakes'
    BY <1>3, <1>6, IdleOnlyTakes DEF SubmitTicket, Transient
<1>24. QED
    BY <1>14, <1>15, <1>16, <1>17, <1>18, <1>19, <1>20, <1>21, <1>22, <1>23 DEF Inv

(* What every handler finds when it starts, and what it leaves alone.      *)
LEMMA IdleFacts ==
    ASSUME Inv, Idle
    PROVE  /\ Len(outbox) = 0 /\ next_order_id \in Nat
           /\ Ids \subseteq Int /\ Armed \subseteq Ids /\ Cancellable \subseteq Ids
           /\ Len(ring) \in Nat
           /\ \A i \in 1 .. Len(ring) : ring[i].order_id \in Ids
           /\ \A type, x : ~ Sends(outbox, type, x)
           /\ \A x \in Armed : x \notin Cancellable /\ x < next_order_id
           /\ \A x \in Cancellable : x < next_order_id
           /\ desk_orders \in [Ids -> DeskOrder \union {Nothing}]
           /\ conditional_orders \in [Ids -> ConditionalOrder \union {Nothing}]
<1>1. Len(outbox) = 0
    BY DEF Idle
<1>2. \A type, x : ~ Sends(outbox, type, x)
    BY <1>1 DEF Sends
<1>3. Armed \subseteq Ids /\ Cancellable \subseteq Ids
    BY DEF Armed, Cancellable
<1>4. \A x \in Armed : x \notin Cancellable
    BY DEF Inv, ArmedWait, Cancellable
<1>5. \A x \in Armed \union Cancellable : x < next_order_id
  <2>1. next_order_id \in Nat /\ Ids \subseteq Int
    BY TypedFacts, IdsAreNumbers DEF Inv
  <2>2. ASSUME NEW x \in Ids, ~ (x < next_order_id) PROVE x \notin Armed \union Cancellable
    <3>1. x >= next_order_id
      BY <2>1, <2>2
    <3>2. QED
      BY <3>1 DEF Inv, Numbered, Armed, Cancellable
  <2>3. QED
    BY <1>3, <2>2
<1>6. QED
    BY <1>1, <1>2, <1>3, <1>4, <1>5, TypedFacts, IdsAreNumbers DEF Inv, Typed, TypeOK

LEMMA SubmitSimulatedOrderInv ==
    ASSUME Inv, NEW q \in Quotes, SubmitSimulatedOrder(q)
    PROVE  Inv'
<1> DEFINE id == next_order_id
           add == AddOf(id, q.side, q.price, q.qty)
<1>1. id \in Ids /\ q.side \in Side /\ q.price \in Prices /\ q.qty \in Quantities /\ Idle
    BY DeskAssumption DEF SubmitSimulatedOrder
<1>2. /\ id \in Int /\ Len(outbox) = 0
      /\ desk_orders[id] = Nothing /\ conditional_orders[id] = Nothing
      /\ added[id] = 0 /\ id \notin withdrawn /\ id \notin Armed
    BY <1>1, IdsAreNumbers DEF Inv, Numbered, Idle, Armed
<1>3. /\ next_order_id' = id + 1 /\ handler' = "simulation"
      /\ UNCHANGED <<desk_orders, conditional_orders, ring, active, view, cpc, book, added,
                     refused, lost, withdrawn>>
      /\ simulated' = simulated \union {id}
    BY DEF SubmitSimulatedOrder, engine, screen, sent
<1>4. add \in Command /\ add.type = "Add" /\ add.order_id = id
    BY <1>1, CommandFacts
<1>5. outbox' \in Seq(Command) /\ Len(outbox') = 1 /\ outbox'[1] = add
  <2>1. outbox' = <<add>>
    BY DEF SubmitSimulatedOrder
  <2> HIDE DEF add
  <2>2. QED
    BY <1>4, <2>1, ShortQueues
<1> HIDE DEF add
<1>6. /\ Len(ring) \in Nat /\ Ids \subseteq Int
      /\ \A i \in 1 .. Len(ring) : /\ ring[i].order_id \in Int /\ ring[i].order_id < id
                                   /\ ring[i].order_id # id
      /\ \A type, x : Sends(ring', type, x) <=> Sends(ring, type, x)
      /\ \A type, x : ~ Sends(outbox, type, x)
      /\ \A x : Sends(outbox', "Add", x) => x = id
  <2>1. \A i \in 1 .. Len(ring) : ring[i].order_id \in Int
    BY <1>1, IdleFacts
  <2>2. \A i \in 1 .. Len(ring) : ring[i].order_id < id
    BY DEF Inv, Numbered
  <2>3. \A type, x : Sends(ring', type, x) <=> Sends(ring, type, x)
    BY <1>3 DEF Sends
  <2>4. \A x : Sends(outbox', "Add", x) => x = id
    BY <1>4, <1>5 DEF Sends
  <2>5. QED
    BY <1>1, <1>2, <2>1, <2>2, <2>3, <2>4, IdleFacts
<1>7. Armed' = Armed
    BY <1>3 DEF Armed
<1>8. Typed'
    BY <1>1, <1>3, <1>5, IdsAreNumbers DEF Inv, Typed, TypeOK
<1>9. Numbered'
  <2>1. \A i \in 1 .. Len(ring) : ring[i].order_id < id + 1
    BY <1>2, <1>6
  <2>2. \A i \in 1 .. Len(outbox') : outbox'[i].order_id < id + 1
    BY <1>2, <1>4, <1>5
  <2>3. \A x \in Ids : x >= id + 1 => x >= id
    BY <1>2, <1>6
  <2>4. QED
    BY <1>3, <2>1, <2>2, <2>3 DEF Inv, Numbered
<1>10. Sent'
    BY <1>2, <1>3, <1>4, <1>5 DEF Inv, Sent
<1>11. ArmedWait' /\ PendingSent' /\ Accounted'
  <2>1. ArmedWait' /\ PendingSent'
    BY <1>3, <1>7 DEF Inv, ArmedWait, PendingSent, InState
  <2>2. \A x : InState(x, "Pending")' <=> InState(x, "Pending")
    BY <1>3 DEF InState
  <2>3. \A i \in 1 .. Len(outbox') : outbox'[i].order_id \in simulated'
    BY <1>3, <1>4, <1>5
  <2>4. QED
    BY <1>1, <1>3, <1>7, <2>1, <2>2, <2>3, HandlerAccounts
<1>12. Handlers'
    BY <1>2, <1>3, <1>4, <1>5, <1>7 DEF Handlers, TicketTypes
<1>13. CancelsLast'
  <2>1. ASSUME NEW i \in 1 .. Len(ring), ring[i].type = "Cancel"
        PROVE  /\ ring[i].order_id \notin Armed'
               /\ ~ Sends(outbox', "Add", ring[i].order_id)
               /\ \A j \in i .. Len(ring) :
                     ~ (ring[j].type = "Add" /\ ring[j].order_id = ring[i].order_id)
    BY <1>6, <1>7, <2>1 DEF Inv, CancelsLast
  <2>2. \A i \in 1 .. Len(outbox') : outbox'[i].type # "Cancel"
    BY <1>4, <1>5
  <2>3. QED
    BY <1>3, <2>1, <2>2 DEF CancelsLast
<1>14. CancelUnderWay'
  <2>1. ASSUME NEW x \in Ids, InState(x, "Cancel pending")'
        PROVE  Sends(ring, "Cancel", x)' \/ x \in refused' \/ x \in withdrawn'
    <3>1. InState(x, "Cancel pending")
      BY <1>3, <2>1 DEF InState
    <3>2. QED
      BY <1>3, <1>6, <3>1 DEF Inv, CancelUnderWay
  <2>2. QED
    BY <2>1 DEF CancelUnderWay
<1>15. StaysOut'
    BY <1>2, <1>3, <1>6, <1>7 DEF Inv, StaysOut
<1>16. OnlyTakes'
    BY <1>1, <1>3, IdleOnlyTakes DEF Transient
<1>17. QED
    BY <1>8, <1>9, <1>10, <1>11, <1>12, <1>13, <1>14, <1>15, <1>16 DEF Inv

LEMMA ProcessConditionalOrdersInv ==
    ASSUME Inv, NEW snap, ProcessConditionalOrders(snap)
    PROVE  Inv'
<1> DEFINE ids == TriggeredOrders(snap)
           q == InOrder(ids)
           add(id) == AddOf(id, conditional_orders[id].side, conditional_orders[id].price,
                            conditional_orders[id].qty)
<1>1. /\ Idle /\ handler' = "conditional" /\ outbox' = [i \in DOMAIN q |-> add(q[i])]
      /\ UNCHANGED <<next_order_id, desk_orders, conditional_orders, ring, active, view, cpc,
                     book, added, refused, lost, withdrawn, simulated>>
    BY DEF ProcessConditionalOrders, orders, engine, screen, sent
<1>2. ids \subseteq Armed /\ ids \subseteq Ids
    BY DEF TriggeredOrders, Armed
<1>3. q \in Seq(ids) /\ \A i, j \in 1 .. Len(q) : q[i] = q[j] => i = j
  <2> HIDE DEF ids
  <2>1. PICK w : w = InOrder(ids)
    OBVIOUS
  <2>2. ids \in SUBSET Ids
    BY <1>2
  <2>3. w \in Seq(ids) /\ \A i, j \in 1 .. Len(w) : w[i] = w[j] => i = j
    BY <2>1, <2>2, InOrderFacts
  <2>4. QED
    BY <2>1, <2>3
<1>4. \A id \in ids : add(id) \in Command /\ add(id).type = "Add" /\ add(id).order_id = id
  <2>1. ASSUME NEW id \in ids PROVE conditional_orders[id] \in ConditionalOrder
    BY <1>1, <1>2, IdleFacts DEF Armed
  <2>2. \A o \in ConditionalOrder : o.side \in Side /\ o.price \in Prices /\ o.qty \in Quantities
    BY DEF ConditionalOrder
  <2> HIDE DEF ids
  <2>3. QED
    BY <1>2, <2>1, <2>2, CommandFacts
<1> HIDE DEF ids, q, add
<1>5. /\ outbox' \in Seq(Command) /\ Len(outbox') = Len(q)
      /\ \A i \in 1 .. Len(outbox') :
            /\ outbox'[i].type = "Add"
            /\ outbox'[i].order_id = q[i] /\ q[i] \in Armed /\ q[i] \in Ids
  <2>1. Len(q) \in Nat /\ DOMAIN q = 1 .. Len(q) /\ \A i \in 1 .. Len(q) : q[i] \in ids
    BY <1>3, LenProperties, ElementOfSeq
  <2>2. outbox' \in Seq(Command) /\ Len(outbox') = Len(q)
    BY <1>1, <1>4, <2>1, IsASeq, LenProperties
  <2>3. QED
    BY <1>1, <1>2, <1>4, <2>1, <2>2
<1>6. /\ \A type, x : Sends(ring', type, x) <=> Sends(ring, type, x)
      /\ \A type, x : ~ Sends(outbox, type, x)
      /\ \A x : Sends(outbox', "Add", x) => x \in Armed
  <2>1. \A type, x : Sends(ring', type, x) <=> Sends(ring, type, x)
    BY <1>1 DEF Sends
  <2>2. \A x : Sends(outbox', "Add", x) => x \in Armed
    BY <1>5 DEF Sends
  <2>3. QED
    BY <1>1, <2>1, <2>2, IdleFacts
<1>7. Armed' = Armed
    BY <1>1 DEF Armed
<1>8. Typed'
    BY <1>1, <1>5 DEF Inv, Typed, TypeOK
<1>9. Numbered'
  <2>1. \A x \in Armed : x < next_order_id
    BY <1>1, IdleFacts
  <2>2. QED
    BY <1>1, <1>5, <2>1 DEF Inv, Numbered
<1>10. Sent'
  <2>1. \A x \in Armed : added[x] = 0
    BY DEF Inv, ArmedWait
  <2>2. \A i \in 1 .. Len(outbox') : added'[outbox'[i].order_id] = 0
    BY <1>1, <1>5, <2>1
  <2>3. \A i, j \in 1 .. Len(outbox') :
            outbox'[i].order_id = outbox'[j].order_id => i = j
    BY <1>3, <1>5
  <2>4. QED
    BY <1>1, <2>2, <2>3 DEF Inv, Sent
<1>11. ArmedWait' /\ PendingSent' /\ Accounted'
  <2>1. ArmedWait' /\ PendingSent'
    BY <1>1, <1>7 DEF Inv, ArmedWait, PendingSent, InState
  <2>2. \A x : InState(x, "Pending")' <=> InState(x, "Pending")
    BY <1>1 DEF InState
  <2>3. QED
    BY <1>1, <1>7, <2>1, <2>2, HandlerAccounts
<1>12. Handlers'
    BY <1>1, <1>5, <1>7 DEF Handlers, TicketTypes
<1>13. CancelsLast'
    BY <1>1, <1>5, <1>6, <1>7 DEF Inv, CancelsLast
<1>14. CancelUnderWay'
  <2>1. ASSUME NEW x \in Ids, InState(x, "Cancel pending")'
        PROVE  Sends(ring, "Cancel", x)' \/ x \in refused' \/ x \in withdrawn'
    <3>1. InState(x, "Cancel pending")
      BY <1>1, <2>1 DEF InState
    <3>2. QED
      BY <1>1, <1>6, <3>1 DEF Inv, CancelUnderWay
  <2>2. QED
    BY <2>1 DEF CancelUnderWay
<1>15. StaysOut'
    BY <1>1, <1>6, <1>7 DEF Inv, StaysOut
<1>16. OnlyTakes'
    BY <1>1, IdleOnlyTakes DEF Transient
<1>17. QED
    BY <1>8, <1>9, <1>10, <1>11, <1>12, <1>13, <1>14, <1>15, <1>16 DEF Inv

(* The cancels of some orders that are on their way, by CancelOrderClicked *)
(* or by CancelAll, which also takes those that wait off the desk.         *)
CancelsLeave(ids) ==
    /\ outbox' \in Seq(Command)
    /\ \A i \in 1 .. Len(outbox') : outbox'[i].type = "Cancel" /\ outbox'[i].order_id \in ids
    /\ \A id \in ids : Sends(outbox', "Cancel", id)
    /\ desk_orders' = SetState(ids, "Cancel pending") /\ handler' = "cancel"
    /\ UNCHANGED <<next_order_id, ring, active, view, cpc, book, added, refused, lost,
                   simulated>>
    /\ \/ UNCHANGED <<conditional_orders, withdrawn>>
       \/ /\ conditional_orders' = [id \in Ids |-> Nothing]
          /\ withdrawn' = withdrawn \union Armed

LEMMA CancelsInv ==
    ASSUME Inv, Idle, NEW ids \in SUBSET Cancellable, CancelsLeave(ids)
    PROVE  Inv'
<1>1. /\ outbox' \in Seq(Command) /\ handler' = "cancel" /\ Len(outbox') \in Nat
      /\ UNCHANGED <<next_order_id, ring, active, view, cpc, book, added, refused, lost,
                     simulated>>
  <2>1. outbox' \in Seq(Command)
    BY DEF CancelsLeave
  <2>2. QED
    BY <2>1, LenProperties DEF CancelsLeave
<1>2. \A i \in 1 .. Len(outbox') :
          outbox'[i].type = "Cancel" /\ outbox'[i].order_id \in ids
    BY DEF CancelsLeave
<1>3. /\ desk_orders' \in [Ids -> DeskOrder \union {Nothing}]
      /\ \A x \in ids : /\ x \in Ids /\ desk_orders[x] # Nothing /\ desk_orders'[x] # Nothing
                        /\ desk_orders'[x].type = desk_orders[x].type
                        /\ desk_orders'[x].state = "Cancel pending"
      /\ \A x \in Ids : x \notin ids => desk_orders'[x] = desk_orders[x]
  <2>1. ASSUME NEW x \in ids
        PROVE  /\ x \in Ids /\ desk_orders[x] # Nothing /\ desk_orders'[x] # Nothing
               /\ desk_orders'[x] \in DeskOrder
               /\ desk_orders'[x].type = desk_orders[x].type
               /\ desk_orders'[x].state = "Cancel pending"
    <3>1. x \in Ids /\ desk_orders[x] \in DeskOrder
      BY IdleFacts DEF Cancellable
    <3>2. desk_orders'[x] = [desk_orders[x] EXCEPT !.state = "Cancel pending"]
      BY <3>1 DEF SetState, CancelsLeave
    <3>3. /\ desk_orders'[x] \in DeskOrder
          /\ desk_orders'[x].type = desk_orders[x].type
          /\ desk_orders'[x].state = "Cancel pending"
      BY <3>1, <3>2 DEF DeskOrder
    <3>4. QED
      BY <3>1, <3>3, Distinct
  <2>2. \A x \in Ids : x \notin ids => desk_orders'[x] = desk_orders[x]
    BY DEF SetState, CancelsLeave
  <2>3. \A x \in Ids : desk_orders'[x] \in DeskOrder \union {Nothing}
    BY <2>1, <2>2, IdleFacts
  <2>4. desk_orders' = [x \in Ids |-> desk_orders'[x]]
    BY DEF SetState, CancelsLeave
  <2>5. QED
    BY <2>1, <2>2, <2>3, <2>4
<1>4. /\ Armed' \subseteq Armed
      /\ withdrawn \subseteq withdrawn' /\ withdrawn' \subseteq withdrawn \union Armed
      /\ withdrawn' \subseteq withdrawn \/ Armed' = {}
      /\ conditional_orders' \in [Ids -> ConditionalOrder \union {Nothing}]
      /\ \A x \in Ids : conditional_orders[x] = Nothing => conditional_orders'[x] = Nothing
  <2>1. CASE UNCHANGED <<conditional_orders, withdrawn>>
    BY <2>1, IdleFacts DEF Armed
  <2>2. CASE /\ conditional_orders' = [id \in Ids |-> Nothing]
             /\ withdrawn' = withdrawn \union Armed
    BY <2>2 DEF Armed
  <2>3. QED
    BY <2>1, <2>2 DEF CancelsLeave
<1>5. \A x \in Armed : /\ added[x] = 0 /\ x \in Ids /\ x \notin ids
                       /\ x < next_order_id
  <2>1. \A x \in Armed : added[x] = 0
    BY DEF Inv, ArmedWait
  <2>2. QED
    BY <2>1, IdleFacts
<1>6. /\ \A type, x : Sends(ring', type, x) <=> Sends(ring, type, x)
      /\ \A type, x : ~ Sends(outbox, type, x)
      /\ \A x : ~ Sends(outbox', "Add", x)
  <2>1. \A type, x : Sends(ring', type, x) <=> Sends(ring, type, x)
    BY <1>1 DEF Sends
  <2>2. \A x : ~ Sends(outbox', "Add", x)
    BY <1>2 DEF Sends
  <2>3. QED
    BY <2>1, <2>2, IdleFacts
<1>7. Typed'
    BY <1>1, <1>3, <1>4, <1>5 DEF Inv, Typed, TypeOK
<1>8. Numbered'
  <2>1. \A x \in ids : x < next_order_id
    BY IdleFacts
  <2>2. ASSUME NEW x \in Ids, x >= next_order_id
        PROVE  /\ desk_orders'[x] = Nothing /\ conditional_orders'[x] = Nothing
               /\ added[x] = 0 /\ x \notin withdrawn'
    <3>1. x \notin ids /\ x \notin Armed
      <4>1. x \in Int /\ next_order_id \in Int
        BY IdleFacts
      <4>2. ~ (x < next_order_id)
        BY <2>2, <4>1
      <4>3. QED
        BY <1>5, <2>1, <4>2
    <3>2. QED
      BY <1>3, <1>4, <2>2, <3>1 DEF Inv, Numbered
  <2>3. QED
    BY <1>1, <1>2, <2>1, <2>2 DEF Inv, Numbered
<1>9. Sent'
    BY <1>1, <1>2 DEF Inv, Sent
<1>10. ArmedWait'
  <2>1. \A x \in Armed' : x \in Armed /\ x \in Ids /\ desk_orders'[x] = desk_orders[x]
    BY <1>3, <1>4, <1>5
  <2>2. QED
    BY <1>1, <2>1 DEF Inv, ArmedWait
<1>11. PendingSent' /\ Accounted'
  <2>1. ASSUME NEW x \in Ids, InState(x, "Pending")'
        PROVE  InState(x, "Pending") /\ desk_orders'[x] = desk_orders[x]
    <3>1. desk_orders'[x] # Nothing /\ desk_orders'[x].state = "Pending"
      BY <2>1 DEF InState
    <3>2. QED
      BY <1>3, <3>1 DEF InState
  <2>2. PendingSent'
    BY <1>1, <2>1 DEF Inv, PendingSent
  <2>3. \A x \in Ids : desk_orders'[x] # Nothing <=> desk_orders[x] # Nothing
    BY <1>3
  <2>4. Armed \subseteq Armed' \union withdrawn'
    BY DEF CancelsLeave, Armed
  <2>5. QED
    BY <1>1, <1>4, <2>1, <2>2, <2>3, <2>4, HandlerAccounts
<1>12. Handlers'
    BY <1>1, <1>2 DEF Handlers, TicketTypes
<1>13. CancelsLast'
  <2>1. ASSUME NEW i \in 1 .. Len(ring'), ring'[i].type = "Cancel"
        PROVE  /\ ring'[i].order_id \notin Armed'
               /\ ~ Sends(outbox', "Add", ring'[i].order_id)
               /\ \A j \in i .. Len(ring') :
                     ~ (ring'[j].type = "Add" /\ ring'[j].order_id = ring'[i].order_id)
    BY <1>1, <1>4, <1>6, <2>1 DEF Inv, CancelsLast
  <2>2. ASSUME NEW i \in 1 .. Len(outbox')
        PROVE  /\ outbox'[i].order_id \notin Armed'
               /\ \A j \in i .. Len(outbox') :
                     ~ (outbox'[j].type = "Add" /\ outbox'[j].order_id = outbox'[i].order_id)
    <3>1. outbox'[i].order_id \in ids
      BY <1>2
    <3>2. \A x \in ids : x \notin Armed'
      BY <1>4, <1>5
    <3>3. \A j \in i .. Len(outbox') : j \in 1 .. Len(outbox')
      BY <1>1
    <3>4. \A j \in 1 .. Len(outbox') : outbox'[j].type # "Add"
      BY <1>2
    <3>5. QED
      BY <3>1, <3>2, <3>3, <3>4
  <2>3. QED
    BY <2>1, <2>2 DEF CancelsLast
<1>14. CancelUnderWay'
  <2>1. ASSUME NEW x \in Ids, InState(x, "Cancel pending")'
        PROVE  \/ Sends(ring, "Cancel", x)' \/ Sends(outbox, "Cancel", x)'
               \/ x \in refused' \/ x \in withdrawn'
    <3>1. CASE x \in ids
      BY <3>1 DEF CancelsLeave
    <3>2. CASE x \notin ids
      <4>1. InState(x, "Cancel pending")
        BY <1>3, <2>1, <3>2 DEF InState
      <4>2. QED
        BY <1>1, <1>4, <1>6, <4>1 DEF Inv, CancelUnderWay
    <3>3. QED
      BY <3>1, <3>2
  <2>2. QED
    BY <2>1 DEF CancelUnderWay
<1>15. StaysOut'
  <2>1. \A x \in Armed : x \notin Resting(book) /\ ~ Sends(ring, "Add", x)
    <3>1. /\ \A x \in Resting(book) : added[x] = 1
          /\ \A i \in 1 .. Len(ring) : ring[i].type = "Add" => added[ring[i].order_id] = 1
      BY DEF Inv, Sent
    <3>2. \A x \in Armed : added[x] # 1
      BY <1>5
    <3>3. QED
      BY <3>1, <3>2 DEF Sends
  <2>2. QED
    BY <1>1, <1>4, <1>6, <2>1 DEF Inv, StaysOut
<1>16. OnlyTakes'
  <2>1. Transient' \subseteq Transient
    <3>1. ASSUME NEW x \in Ids, desk_orders'[x] # Nothing
          PROVE  desk_orders[x] # Nothing /\ desk_orders[x].type = desk_orders'[x].type
      BY <1>3, <3>1
    <3>2. QED
      BY <3>1 DEF Transient
  <2>2. QED
    BY <1>1, <2>1, IdleOnlyTakes
<1>17. QED
    BY <1>7, <1>8, <1>9, <1>10, <1>11, <1>12, <1>13, <1>14, <1>15, <1>16 DEF Inv

LEMMA CancelOrderClickedInv ==
    ASSUME Inv, NEW id \in Ids, CancelOrderClicked(id)
    PROVE  Inv'
<1>1. Idle /\ {id} \in SUBSET Cancellable
    BY DEF CancelOrderClicked
<1>2. /\ outbox' \in Seq(Command) /\ Len(outbox') = 1 /\ outbox'[1] = CancelOf(id)
      /\ CancelOf(id).type = "Cancel" /\ CancelOf(id).order_id = id
  <2>1. outbox' = <<CancelOf(id)>>
    BY DEF CancelOrderClicked
  <2>2. QED
    BY <2>1, CommandFacts, ShortQueues
<1>3. /\ \A i \in 1 .. Len(outbox') : outbox'[i].type = "Cancel" /\ outbox'[i].order_id \in {id}
      /\ \A x \in {id} : Sends(outbox', "Cancel", x)
    BY <1>2 DEF Sends
<1>4. /\ desk_orders' = SetState({id}, "Cancel pending") /\ handler' = "cancel"
      /\ UNCHANGED <<next_order_id, ring, active, view, cpc, book, added, refused, lost,
                     simulated>>
      /\ UNCHANGED <<conditional_orders, withdrawn>>
    BY DEF CancelOrderClicked, engine, screen, sent
<1>5. QED
    BY <1>1, <1>2, <1>3, <1>4, CancelsInv DEF CancelsLeave

LEMMA CancelAllInv ==
    ASSUME Inv, CancelAll
    PROVE  Inv'
<1> DEFINE ids == Cancellable
           q == InOrder(ids)
<1>1. /\ Idle /\ outbox' = [i \in DOMAIN q |-> CancelOf(q[i])]
      /\ desk_orders' = SetState(ids, "Cancel pending") /\ handler' = "cancel"
      /\ UNCHANGED <<next_order_id, ring, active, view, cpc, book, added, refused, lost,
                     simulated>>
      /\ conditional_orders' = [id \in Ids |-> Nothing]
      /\ withdrawn' = withdrawn \union Armed
    BY DEF CancelAll, CancelsOf, engine, screen, sent
<1>2. ids \subseteq Ids /\ ids \in SUBSET Cancellable
    BY DEF Cancellable
<1>3. /\ q \in Seq(ids)
      /\ \A id \in ids : \E i \in 1 .. Len(q) : q[i] = id
  <2> HIDE DEF ids
  <2>1. PICK w : w = InOrder(ids)
    OBVIOUS
  <2>2. ids \in SUBSET Ids
    BY <1>2
  <2>3. w \in Seq(ids) /\ \A id \in ids : \E i \in 1 .. Len(w) : w[i] = id
    BY <2>1, <2>2, InOrderFacts
  <2>4. QED
    BY <2>1, <2>3
<1> HIDE DEF ids, q
<1>4. /\ outbox' \in Seq(Command) /\ Len(outbox') = Len(q)
      /\ \A i \in 1 .. Len(q) : /\ outbox'[i].type = "Cancel"
                                /\ outbox'[i].order_id = q[i] /\ q[i] \in ids
  <2>1. Len(q) \in Nat /\ DOMAIN q = 1 .. Len(q) /\ \A i \in 1 .. Len(q) : q[i] \in ids
    BY <1>3, LenProperties, ElementOfSeq
  <2>2. \A id \in ids : /\ CancelOf(id) \in Command
                        /\ CancelOf(id).type = "Cancel" /\ CancelOf(id).order_id = id
    BY <1>2, CommandFacts
  <2>3. outbox' \in Seq(Command) /\ Len(outbox') = Len(q)
    <3>1. /\ outbox' = [i \in 1 .. Len(q) |-> CancelOf(q[i])]
          /\ \A i \in 1 .. Len(q) : CancelOf(q[i]) \in Command
      BY <1>1, <2>1, <2>2
    <3>2. QED
      BY <2>1, <3>1, IsASeq, LenProperties
  <2>4. QED
    BY <1>1, <2>1, <2>2, <2>3
<1>5. /\ \A i \in 1 .. Len(outbox') : outbox'[i].type = "Cancel" /\ outbox'[i].order_id \in ids
      /\ \A id \in ids : Sends(outbox', "Cancel", id)
    BY <1>3, <1>4 DEF Sends
<1>6. QED
    BY <1>1, <1>2, <1>4, <1>5, CancelsInv DEF CancelsLeave

LEMMA ModifyOrderAppliedInv ==
    ASSUME Inv, NEW id \in Ids, NEW p \in Prices, NEW qty \in Quantities,
           ModifyOrderApplied(id, p, qty)
    PROVE  Inv'
<1> DEFINE c == [type |-> "Modify", order_id |-> id, side |-> "Bid", price |-> p, qty |-> qty]
<1>1. /\ Idle /\ desk_orders[id] # Nothing /\ handler' = "modify"
      /\ UNCHANGED <<next_order_id, conditional_orders, ring, active, view, cpc, book, added,
                     refused, lost, withdrawn, simulated>>
    BY DEF ModifyOrderApplied, engine, screen, sent
<1>2. outbox' \in Seq(Command) /\ Len(outbox') = 1 /\ outbox'[1] = c
  <2>1. outbox' = <<c>>
    BY DEF ModifyOrderApplied
  <2>2. c \in Command
    BY DEF Command, Side
  <2> HIDE DEF c
  <2>3. QED
    BY <2>1, <2>2, ShortQueues
<1>3. c.type = "Modify" /\ c.order_id = id
    OBVIOUS
<1> HIDE DEF c
<1>4. /\ desk_orders' \in [Ids -> DeskOrder \union {Nothing}]
      /\ desk_orders'[id] # Nothing /\ desk_orders'[id].type = desk_orders[id].type
      /\ desk_orders'[id].state = "Modify pending"
      /\ \A x \in Ids : x # id => desk_orders'[x] = desk_orders[x]
  <2> DEFINE o == [desk_orders[id] EXCEPT !.price = p, !.qty = qty, !.state = "Modify pending"]
  <2>1. desk_orders \in [Ids -> DeskOrder \union {Nothing}] /\ desk_orders[id] \in DeskOrder
    BY <1>1, IdleFacts
  <2>2. desk_orders' = [desk_orders EXCEPT ![id] = o]
    BY <2>1 DEF ModifyOrderApplied
  <2>3. o \in DeskOrder /\ o.type = desk_orders[id].type /\ o.state = "Modify pending"
    BY <2>1 DEF DeskOrder
  <2> HIDE DEF o
  <2>4. QED
    BY <2>1, <2>2, <2>3, Distinct
<1>5. /\ Armed' = Armed
      /\ \A type, x : Sends(ring', type, x) <=> Sends(ring, type, x)
      /\ \A type, x : ~ Sends(outbox, type, x)
      /\ \A x : ~ Sends(outbox', "Add", x)
  <2>1. Armed' = Armed
    BY <1>1 DEF Armed
  <2>2. \A type, x : Sends(ring', type, x) <=> Sends(ring, type, x)
    BY <1>1 DEF Sends
  <2>3. \A x : ~ Sends(outbox', "Add", x)
    BY <1>2, <1>3 DEF Sends
  <2>4. QED
    BY <1>1, <2>1, <2>2, <2>3, IdleFacts
<1>6. Typed'
    BY <1>1, <1>2, <1>4 DEF Inv, Typed, TypeOK
<1>7. Numbered'
  <2>1. id \in Int /\ next_order_id \in Int /\ id < next_order_id
    <3>1. id \in Int /\ next_order_id \in Int
      BY <1>1, IdleFacts
    <3>2. ~ (id >= next_order_id)
      BY <1>1 DEF Inv, Numbered
    <3>3. QED
      BY <3>1, <3>2
  <2>2. \A x \in Ids : x >= next_order_id => x # id
    BY <2>1
  <2>3. \A i \in 1 .. Len(outbox') : outbox'[i].order_id < next_order_id
    BY <1>2, <1>3, <2>1
  <2>4. QED
    BY <1>1, <1>4, <2>2, <2>3 DEF Inv, Numbered
<1>8. Sent'
    BY <1>1, <1>2, <1>3 DEF Inv, Sent
<1>9. ArmedWait'
  <2>1. ASSUME NEW x \in Armed
        PROVE  /\ added[x] = 0 /\ desk_orders'[x] # Nothing /\ desk_orders'[x].type = "Stop"
               /\ desk_orders'[x].state \notin {"Pending", "Cancel pending"}
    <3>1. x \in Ids
      BY DEF Armed
    <3>2. /\ added[x] = 0 /\ desk_orders[x] # Nothing /\ desk_orders[x].type = "Stop"
          /\ desk_orders[x].state \notin {"Pending", "Cancel pending"}
      BY DEF Inv, ArmedWait
    <3>3. QED
      BY <1>4, <3>1, <3>2
  <2>2. QED
    BY <1>1, <1>5, <2>1 DEF ArmedWait
<1>10. \A x \in Ids, state \in {"Pending", "Cancel pending"} :
          InState(x, state)' => x # id /\ InState(x, state) /\ desk_orders'[x] = desk_orders[x]
    BY <1>4 DEF InState
<1>11. PendingSent' /\ Accounted'
  <2>1. PendingSent'
    BY <1>1, <1>10 DEF Inv, PendingSent
  <2>2. \A x \in Ids : desk_orders'[x] # Nothing <=> desk_orders[x] # Nothing
    BY <1>1, <1>4
  <2>3. QED
    BY <1>1, <1>5, <1>10, <2>1, <2>2, HandlerAccounts
<1>12. Handlers'
    BY <1>1, <1>2, <1>3 DEF Handlers, TicketTypes
<1>13. CancelsLast'
    BY <1>1, <1>2, <1>3, <1>5 DEF Inv, CancelsLast
<1>14. CancelUnderWay'
    BY <1>1, <1>5, <1>10 DEF Inv, CancelUnderWay
<1>15. StaysOut'
    BY <1>1, <1>5 DEF Inv, StaysOut
<1>16. OnlyTakes'
  <2>1. Transient' \subseteq Transient
    <3>1. ASSUME NEW x \in Ids, desk_orders'[x] # Nothing
          PROVE  desk_orders[x] # Nothing /\ desk_orders[x].type = desk_orders'[x].type
      BY <1>1, <1>4, <3>1
    <3>2. QED
      BY <3>1 DEF Transient
  <2>2. QED
    BY <1>1, <2>1, IdleOnlyTakes
<1>17. QED
    BY <1>6, <1>7, <1>8, <1>9, <1>11, <1>12, <1>13, <1>14, <1>15, <1>16 DEF Inv

(* The steps that move neither a command nor an order: SelectSymbol,       *)
(* ReplayPublished, Drained and Publish.                                   *)
LEMMA QuietInv ==
    ASSUME Inv, UNCHANGED <<orders, outbox, handler, ring, book, sent, withdrawn, simulated>>,
           active' \in {"live", "other"}, cpc' \in {"drain", "publish"}
    PROVE  Inv'
<1>1. UNCHANGED <<next_order_id, desk_orders, conditional_orders, added, refused, lost>>
    BY DEF orders, sent
<1>2. Armed' = Armed /\ Transient' = Transient
    BY <1>1 DEF Armed, Transient
<1>3. /\ \A type, x : /\ Sends(ring', type, x) <=> Sends(ring, type, x)
                      /\ Sends(outbox', type, x) <=> Sends(outbox, type, x)
      /\ \A x, state : InState(x, state)' <=> InState(x, state)
      /\ \A i, x : CancelFollows(i, x)' <=> CancelFollows(i, x)
    BY <1>1 DEF Sends, InState, CancelFollows
<1>4. Typed'
    BY <1>1 DEF Inv, Typed, TypeOK
<1>5. Numbered' /\ Sent'
    BY <1>1 DEF Inv, Numbered, Sent
<1>6. ArmedWait' /\ PendingSent' /\ Accounted'
    BY <1>1, <1>2, <1>3 DEF Inv, ArmedWait, PendingSent, Accounted
<1>7. Handlers'
    BY <1>1, <1>2, <1>3 DEF Inv, Handlers, TicketPushes
<1>8. CancelsLast'
    BY <1>2, <1>3 DEF Inv, CancelsLast
<1>9. CancelUnderWay' /\ StaysOut'
    BY <1>1, <1>2, <1>3 DEF Inv, CancelUnderWay, StaysOut
<1>10. OnlyTakes'
    BY <1>1, <1>2, <1>3 DEF Inv, OnlyTakes
<1>11. QED
    BY <1>4, <1>5, <1>6, <1>7, <1>8, <1>9, <1>10 DEF Inv

LEMMA ApplyInv ==
    ASSUME Inv, Apply
    PROVE  Inv'
<1> DEFINE c == ring[1]
           r == ApplyCommand(book, c)
<1>1. /\ c \in Command /\ c.order_id \in Ids
      /\ Len(ring) \in Nat /\ Len(ring) > 0 /\ Head(ring) = c
      /\ ring' \in Seq(Command) /\ Len(ring') = Len(ring) - 1
      /\ \A i \in 1 .. Len(ring') : ring'[i] = ring[i + 1] /\ i + 1 \in 1 .. Len(ring)
  <2>1. /\ Tail(ring) \in Seq(Command) /\ Len(ring) \in Nat /\ Len(ring) > 0
        /\ Len(Tail(ring)) = Len(ring) - 1 /\ Head(ring) = ring[1]
        /\ \A i \in 1 .. Len(Tail(ring)) : Tail(ring)[i] = ring[i + 1]
    BY TypedFacts, TailFacts DEF Inv, Apply
  <2>2. \A i \in 1 .. Len(ring) - 1 : i + 1 \in 1 .. Len(ring)
    BY <2>1
  <2>3. 1 \in 1 .. Len(ring)
    BY <2>1
  <2>4. c \in Command /\ c.order_id \in Ids
    BY <2>3, TypedFacts DEF Inv
  <2>5. QED
    BY <2>1, <2>2, <2>4 DEF Apply
<1>2. /\ UNCHANGED <<next_order_id, desk_orders, conditional_orders, outbox, handler, cpc,
                     active, added, refused, lost, simulated>>
      /\ book' = r.book
      /\ withdrawn' = IF c.type # "Cancel" THEN withdrawn ELSE withdrawn \union {c.order_id}
    BY <1>1 DEF Apply, orders, screen, sent
<1>3. SoundBook(book) /\ PositiveOrders(book)
    BY DEF Inv, Typed
<1>4. /\ SoundBook(book') /\ PositiveOrders(book')
      /\ \A x \in Resting(book') : x \in Resting(book) \/ (c.type = "Add" /\ x = c.order_id)
      /\ c.type = "Cancel" => c.order_id \notin Resting(book')
      /\ c.type \in {"Add", "Modify", "Cancel"}
  <2>1. c.type \in {"Add", "Modify", "Cancel"}
    BY <1>1 DEF Command
  <2> HIDE DEF c
  <2>2. QED
    BY <1>1, <1>2, <1>3, <2>1, ApplyFacts
<1> HIDE DEF r
<1>5. /\ Armed' = Armed /\ Transient' = Transient
      /\ \A type, x : Sends(outbox', type, x) <=> Sends(outbox, type, x)
      /\ \A type, x : Sends(ring', type, x) => Sends(ring, type, x)
      /\ \A type, x : Sends(ring, type, x) =>
            Sends(ring', type, x) \/ (c.type = type /\ c.order_id = x)
      /\ \A x, state : InState(x, state)' <=> InState(x, state)
  <2>1. ASSUME NEW type, NEW x, Sends(ring, type, x), ~ (c.type = type /\ c.order_id = x)
        PROVE  Sends(ring', type, x)
    <3>1. PICK i \in 1 .. Len(ring) : ring[i].type = type /\ ring[i].order_id = x
      BY <2>1 DEF Sends
    <3>2. i - 1 \in 1 .. Len(ring') /\ (i - 1) + 1 = i
      BY <1>1, <2>1, <3>1
    <3>3. ring'[i - 1] = ring[i]
      BY <1>1, <3>2
    <3>4. QED
      BY <3>1, <3>2, <3>3 DEF Sends
  <2>2. \A type, x : Sends(ring', type, x) => Sends(ring, type, x)
    BY <1>1 DEF Sends
  <2>3. /\ Armed' = Armed /\ Transient' = Transient
        /\ \A x, state : InState(x, state)' <=> InState(x, state)
    BY <1>2 DEF Armed, Transient, InState
  <2>4. \A type, x : Sends(outbox', type, x) <=> Sends(outbox, type, x)
    BY <1>2 DEF Sends
  <2>5. QED
    BY <2>1, <2>2, <2>3, <2>4
<1>6. Typed'
  <2>1. Len(ring') <= QueueCapacity
    BY <1>1, DeskAssumption DEF Inv, Typed, TypeOK
  <2>2. withdrawn' \subseteq Ids
    BY <1>1, <1>2 DEF Inv, Typed, TypeOK
  <2>3. book' \in Book
    BY <1>4 DEF SoundBook
  <2>4. QED
    BY <1>1, <1>2, <1>4, <2>1, <2>2, <2>3 DEF Inv, Typed, TypeOK
<1>7. Numbered'
  <2>1. \A i \in 1 .. Len(ring) : ring[i].order_id < next_order_id
    BY DEF Inv, Numbered
  <2>2. c.order_id < next_order_id /\ c.order_id \in Int /\ next_order_id \in Int
    BY <1>1, <2>1, TypedFacts, IdsAreNumbers DEF Inv
  <2>3. \A x \in Ids : x >= next_order_id => x # c.order_id
    BY <2>2
  <2>4. QED
    BY <1>1, <1>2, <2>1, <2>3 DEF Inv, Numbered
<1>8. Sent'
  <2>1. c.type = "Add" => added[c.order_id] = 1
    BY <1>1 DEF Inv, Sent
  <2>2. QED
    BY <1>1, <1>2, <1>4, <2>1 DEF Inv, Sent
<1>9. ArmedWait' /\ PendingSent' /\ Accounted'
  <2>1. ArmedWait' /\ PendingSent'
    BY <1>2, <1>5 DEF Inv, ArmedWait, PendingSent
  <2>2. withdrawn \subseteq withdrawn'
    BY <1>2
  <2>3. QED
    BY <1>2, <1>5, <2>1, <2>2 DEF Inv, Accounted
<1>10. Handlers'
    BY <1>2, <1>5 DEF Inv, Handlers, TicketPushes
<1>11. CancelsLast'
  <2>1. ASSUME NEW i \in 1 .. Len(ring'), ring'[i].type = "Cancel"
        PROVE  /\ ring'[i].order_id \notin Armed
               /\ ~ Sends(outbox, "Add", ring'[i].order_id)
               /\ \A j \in i .. Len(ring') :
                     ~ (ring'[j].type = "Add" /\ ring'[j].order_id = ring'[i].order_id)
    <3>1. ring'[i] = ring[i + 1] /\ i + 1 \in 1 .. Len(ring)
      BY <1>1
    <3>2. \A j \in i .. Len(ring') : ring'[j] = ring[j + 1] /\ j + 1 \in i + 1 .. Len(ring)
      BY <1>1
    <3>3. QED
      BY <2>1, <3>1, <3>2 DEF Inv, CancelsLast
  <2>2. QED
    BY <1>2, <1>5, <2>1 DEF Inv, CancelsLast
<1>12. CancelUnderWay'
    BY <1>2, <1>5 DEF Inv, CancelUnderWay
<1>13. StaysOut'
  <2>1. ASSUME NEW x \in withdrawn
        PROVE  /\ x \notin Resting(book') /\ x \notin Armed
               /\ ~ Sends(ring', "Add", x) /\ ~ Sends(outbox, "Add", x)
    <3>1. /\ x \notin Resting(book) /\ x \notin Armed
          /\ ~ Sends(ring, "Add", x) /\ ~ Sends(outbox, "Add", x)
      BY DEF Inv, StaysOut
    <3>2. ~ (c.type = "Add" /\ c.order_id = x)
      BY <1>1, <3>1 DEF Sends
    <3>3. QED
      BY <1>4, <1>5, <3>1, <3>2
  <2>2. ASSUME c.type = "Cancel"
        PROVE  /\ c.order_id \notin Resting(book') /\ c.order_id \notin Armed
               /\ ~ Sends(ring', "Add", c.order_id) /\ ~ Sends(outbox, "Add", c.order_id)
    <3>1. /\ c.order_id \notin Armed /\ ~ Sends(outbox, "Add", c.order_id)
          /\ \A j \in 1 .. Len(ring) : ~ (ring[j].type = "Add" /\ ring[j].order_id = c.order_id)
      BY <1>1, <2>2 DEF Inv, CancelsLast
    <3>2. ~ Sends(ring, "Add", c.order_id)
      BY <3>1 DEF Sends
    <3>3. QED
      BY <1>4, <1>5, <2>2, <3>1, <3>2
  <2>3. QED
    BY <1>2, <1>5, <2>1, <2>2 DEF StaysOut
<1>14. OnlyTakes'
  <2>1. ASSUME NEW i \in 0 .. Len(ring'), NEW x, CancelFollows(i + 1, x)
        PROVE  CancelFollows(i, x)'
    <3>1. i < Len(ring') => ring'[i + 1] = ring[(i + 1) + 1]
      BY <1>1
    <3>2. i + 1 < Len(ring) <=> i < Len(ring')
      BY <1>1
    <3>3. QED
      BY <1>2, <2>1, <3>1, <3>2 DEF CancelFollows
  <2>2. ASSUME NEW x \in Transient \ refused
        PROVE  /\ x \in Resting(book') => CancelFollows(0, x)'
               /\ \A i \in 1 .. Len(ring') :
                     ring'[i].type = "Add" /\ ring'[i].order_id = x => CancelFollows(i, x)'
    <3>1. /\ x \in Resting(book) => CancelFollows(0, x)
          /\ \A i \in 1 .. Len(ring) :
                ring[i].type = "Add" /\ ring[i].order_id = x => CancelFollows(i, x)
      BY DEF Inv, OnlyTakes
    <3>2. ASSUME x \in Resting(book') PROVE CancelFollows(0, x)'
      <4>1. CASE c.type = "Add" /\ x = c.order_id
        <5>1. CancelFollows(1, x)
          BY <1>1, <3>1, <4>1
        <5>2. 0 \in 0 .. Len(ring') /\ 0 + 1 = 1
          BY <1>1
        <5>3. QED
          BY <2>1, <5>1, <5>2
      <4>2. CASE ~ (c.type = "Add" /\ x = c.order_id)
        <5>1. CancelFollows(0, x)
          BY <1>4, <3>1, <3>2, <4>2
        <5>2. c.type = "Cancel" /\ c.order_id = x
          BY <1>1, <5>1 DEF CancelFollows
        <5>3. QED
          BY <1>4, <3>2, <5>2
      <4>3. QED
        BY <4>1, <4>2
    <3>3. ASSUME NEW i \in 1 .. Len(ring'), ring'[i].type = "Add", ring'[i].order_id = x
          PROVE  CancelFollows(i, x)'
      <4>1. ring'[i] = ring[i + 1] /\ i + 1 \in 1 .. Len(ring) /\ i \in 0 .. Len(ring')
        BY <1>1
      <4>2. CancelFollows(i + 1, x)
        BY <3>1, <3>3, <4>1
      <4>3. QED
        BY <2>1, <4>1, <4>2
    <3>4. QED
      BY <3>2, <3>3
  <2>3. Transient' \ refused' = Transient \ refused
    BY <1>2, <1>5
  <2>4. QED
    BY <2>2, <2>3 DEF OnlyTakes
<1>15. QED
    BY <1>6, <1>7, <1>8, <1>9, <1>10, <1>11, <1>12, <1>13, <1>14 DEF Inv

(* What a push finds. An order that goes out has not been sent before, and *)
(* its entry in the list is none, or that of a stop.                       *)
LEMMA PushFacts ==
    ASSUME Inv, Push, NEW c, c = outbox[1]
    PROVE  /\ c \in Command /\ c.order_id \in Ids /\ Head(outbox) = c
           /\ Len(ring) \in Nat /\ Len(outbox) \in Nat /\ Len(outbox) > 0
           /\ next_order_id \in Int /\ Ids \subseteq Int /\ c.order_id < next_order_id
           /\ c.type = "Add" =>
                 /\ added[c.order_id] = 0 /\ c.order_id \notin Transient
                 /\ c.order_id \in Armed <=> handler = "conditional"
                 /\ handler \in TicketTypes \union {"simulation", "conditional"}
                 /\ c.side \in Side /\ c.price \in Prices /\ c.qty \in Quantities
           /\ handler = "conditional" => c.type = "Add"
           /\ UNCHANGED <<next_order_id, cpc, book, active, view, withdrawn, simulated>>
           /\ outbox' \in Seq(Command) /\ Len(outbox') \in Nat
           /\ Len(outbox') < Len(outbox)
           /\ \A i \in 1 .. Len(outbox') : /\ outbox'[i] = outbox[i + 1]
                                           /\ i + 1 \in 1 .. Len(outbox)
           /\ handler' = IF Len(outbox') = 0 THEN "none" ELSE handler
<1>1. outbox # <<>> /\ outbox \in Seq(Command)
    BY TypedFacts DEF Push, Inv
<1>2. /\ Tail(outbox) \in Seq(Command) /\ Len(outbox) \in Nat /\ Len(outbox) > 0
      /\ Len(Tail(outbox)) = Len(outbox) - 1 /\ Head(outbox) = c /\ c \in Command
      /\ \A i \in 1 .. Len(Tail(outbox)) : Tail(outbox)[i] = outbox[i + 1]
    BY <1>1, TailFacts
<1>3. 1 \in 1 .. Len(outbox)
    BY <1>2
<1>4. /\ c.order_id \in Ids /\ Len(ring) \in Nat /\ next_order_id \in Int /\ Ids \subseteq Int
      /\ c.order_id < next_order_id
    BY <1>3, TypedFacts, IdsAreNumbers DEF Inv, Numbered
<1>5. ASSUME c.type = "Add"
      PROVE  /\ added[c.order_id] = 0 /\ c.order_id \notin Transient
             /\ c.order_id \in Armed <=> handler = "conditional"
             /\ handler \in TicketTypes \union {"simulation", "conditional"}
             /\ c.side \in Side /\ c.price \in Prices /\ c.qty \in Quantities
  <2>1. added[c.order_id] = 0
    BY <1>3, <1>5 DEF Inv, Sent
  <2>2. /\ c.order_id \in Armed <=> handler = "conditional"
        /\ handler \in TicketTypes \union {"simulation", "conditional"}
        /\ handler = "simulation" => desk_orders[c.order_id] = Nothing
    BY <1>3, <1>5 DEF Inv, Handlers
  <2>3. c.side \in Side /\ c.price \in Prices /\ c.qty \in Quantities
    BY <1>2, <1>5 DEF Command
  <2>4. CASE handler = "conditional"
    BY <2>1, <2>2, <2>3, <2>4 DEF Inv, ArmedWait, Transient
  <2>5. CASE handler = "simulation"
    BY <2>1, <2>2, <2>3, <2>5 DEF Transient
  <2>6. CASE handler = "Stop"
    <3>1. InState(c.order_id, "Pending")
      BY <1>2, <1>5, <2>6 DEF Inv, Handlers, TicketPushes, TicketTypes
    <3>2. added[c.order_id] = 1 \/ desk_orders[c.order_id].type = "Stop"
      BY <1>4, <3>1 DEF Inv, PendingSent
    <3>3. desk_orders[c.order_id].type = "Stop"
      BY <2>1, <3>2
    <3>4. QED
      BY <2>1, <2>2, <2>3, <3>3 DEF Transient
  <2>7. CASE handler \in TicketTypes \ {"Stop"}
    <3>1. desk_orders[c.order_id] = Nothing
      BY <1>2, <1>5, <2>7 DEF Inv, Handlers, TicketPushes
    <3>2. QED
      BY <2>1, <2>2, <2>3, <3>1 DEF Transient
  <2>8. QED
    BY <2>2, <2>4, <2>5, <2>6, <2>7
<1>6. handler = "conditional" => c.type = "Add"
    BY <1>3 DEF Inv, Handlers
<1>7. UNCHANGED <<next_order_id, cpc, book, active, view, withdrawn, simulated>>
    BY DEF Push, engine, screen
<1>8. /\ outbox' = <<>> \/ outbox' = Tail(outbox)
      /\ handler' = IF outbox' = <<>> THEN "none" ELSE handler
    BY DEF Push
<1>9. /\ outbox' \in Seq(Command) /\ Len(outbox') \in Nat /\ Len(outbox') < Len(outbox)
      /\ outbox' = <<>> <=> Len(outbox') = 0
      /\ \A i \in 1 .. Len(outbox') : outbox'[i] = outbox[i + 1]
  <2>1. outbox' \in Seq(Command) /\ Len(outbox') \in Nat
    <3>1. outbox' \in Seq(Command)
      <4>1. <<>> \in Seq(Command)
        OBVIOUS
      <4>2. QED
        BY <1>2, <1>8, <4>1
    <3>2. QED
      BY <3>1, LenProperties
  <2>2. outbox' = <<>> <=> Len(outbox') = 0
    BY <2>1, EmptySeq
  <2>3. CASE outbox' = <<>>
    <3>1. Len(outbox') = 0
      BY <2>2, <2>3
    <3>2. QED
      BY <1>2, <2>1, <2>2, <3>1
  <2>4. CASE outbox' = Tail(outbox)
    BY <1>2, <2>1, <2>2, <2>4
  <2>5. QED
    BY <1>8, <2>3, <2>4
<1>10. \A i \in 1 .. Len(outbox') : i + 1 \in 1 .. Len(outbox)
    BY <1>2, <1>9
<1>11. QED
    BY <1>2, <1>4, <1>5, <1>6, <1>7, <1>8, <1>9, <1>10

(* What holds whether or not the ring takes the command.                   *)
LEMMA PushQueues ==
    ASSUME Inv, Push
    PROVE  /\ \A type, x : Sends(outbox', type, x) => Sends(outbox, type, x)
           /\ \A i \in 1 .. Len(outbox') : outbox'[i].type = "Add" =>
                 /\ added[outbox'[i].order_id] = 0
                 /\ outbox[1].type = "Add" => outbox'[i].order_id # outbox[1].order_id
           /\ \A i, j \in 1 .. Len(outbox') :
                 outbox'[i].type = "Add" /\ outbox'[j].type = "Add"
                   /\ outbox'[i].order_id = outbox'[j].order_id => i = j
           /\ \A i \in 1 .. Len(outbox') : outbox'[i].type = "Cancel" =>
                 /\ outbox'[i].order_id \notin Armed
                 /\ \A j \in i .. Len(outbox') :
                       ~ (outbox'[j].type = "Add" /\ outbox'[j].order_id = outbox'[i].order_id)
           /\ handler' \in TicketTypes =>
                 /\ Len(outbox') = 1 /\ outbox'[1].type = "Cancel"
                 /\ outbox'[1].order_id = outbox[1].order_id
                 /\ outbox[1].order_id = next_order_id - 1
<1> DEFINE c == outbox[1]
<1>1. /\ Len(outbox) \in Nat /\ Len(outbox) > 0 /\ Len(outbox') \in Nat
      /\ Len(outbox') < Len(outbox)
      /\ \A i \in 1 .. Len(outbox') : /\ outbox'[i] = outbox[i + 1]
                                      /\ i + 1 \in 1 .. Len(outbox)
      /\ handler' = IF Len(outbox') = 0 THEN "none" ELSE handler
    BY PushFacts
<1>2. \A type, x : Sends(outbox', type, x) => Sends(outbox, type, x)
    BY <1>1 DEF Sends
<1>3. ASSUME NEW i \in 1 .. Len(outbox'), outbox'[i].type = "Add"
      PROVE  /\ added[outbox'[i].order_id] = 0
             /\ c.type = "Add" => outbox'[i].order_id # c.order_id
  <2>1. /\ outbox[i + 1].type = "Add" /\ outbox'[i] = outbox[i + 1]
        /\ i + 1 \in 1 .. Len(outbox) /\ 1 \in 1 .. Len(outbox) /\ i + 1 # 1
    BY <1>1, <1>3
  <2>2. QED
    BY <2>1 DEF Inv, Sent
<1>4. ASSUME NEW i \in 1 .. Len(outbox'), NEW j \in 1 .. Len(outbox'),
             outbox'[i].type = "Add", outbox'[j].type = "Add",
             outbox'[i].order_id = outbox'[j].order_id
      PROVE  i = j
  <2>1. /\ i + 1 \in 1 .. Len(outbox) /\ j + 1 \in 1 .. Len(outbox)
        /\ outbox'[i] = outbox[i + 1] /\ outbox'[j] = outbox[j + 1]
    BY <1>1
  <2>2. i + 1 = j + 1
    BY <1>4, <2>1 DEF Inv, Sent
  <2>3. QED
    BY <2>2
<1>5. ASSUME NEW i \in 1 .. Len(outbox'), outbox'[i].type = "Cancel"
      PROVE  /\ outbox'[i].order_id \notin Armed
             /\ \A j \in i .. Len(outbox') :
                   ~ (outbox'[j].type = "Add" /\ outbox'[j].order_id = outbox'[i].order_id)
  <2>1. outbox'[i] = outbox[i + 1] /\ i + 1 \in 1 .. Len(outbox)
    BY <1>1
  <2>2. \A j \in i .. Len(outbox') : outbox'[j] = outbox[j + 1] /\ j + 1 \in i + 1 .. Len(outbox)
    BY <1>1
  <2>3. QED
    BY <1>5, <2>1, <2>2 DEF Inv, CancelsLast
<1>6. ASSUME handler' \in TicketTypes
      PROVE  /\ Len(outbox') = 1 /\ outbox'[1].type = "Cancel"
             /\ outbox'[1].order_id = c.order_id /\ c.order_id = next_order_id - 1
  <2>1. handler \in TicketTypes /\ Len(outbox') > 0
    BY <1>1, <1>6 DEF TicketTypes
  <2>2. /\ Len(outbox) <= 2
        /\ \A i \in 1 .. Len(outbox) : /\ outbox[i].order_id = next_order_id - 1
                                       /\ i = 2 => outbox[i].type = "Cancel"
    BY <2>1 DEF Inv, Handlers, TicketPushes
  <2>3. /\ Len(outbox') = 1 /\ Len(outbox) = 2 /\ outbox'[1] = outbox[2]
        /\ 1 \in 1 .. Len(outbox) /\ 2 \in 1 .. Len(outbox)
    <3>1. Len(outbox') = 1 /\ Len(outbox) = 2
      <4> DEFINE n == Len(outbox')
                 m == Len(outbox)
      <4>1. n \in Nat /\ m \in Nat /\ n > 0 /\ n < m /\ m <= 2
        BY <1>1, <2>1, <2>2
      <4> HIDE DEF n, m
      <4>2. n = 1 /\ m = 2
        BY <4>1
      <4>3. QED
        BY <4>2 DEF n, m
    <3>2. 1 + 1 = 2 /\ 1 \in 1 .. Len(outbox')
      BY <3>1
    <3>3. QED
      BY <1>1, <3>1, <3>2
  <2>4. QED
    BY <2>2, <2>3
<1>7. QED
    BY <1>2, <1>3, <1>4, <1>5, <1>6

(* An order the full ring refused is a stop that is now known as lost, one *)
(* that still waits for its trigger, or one that was never listed.         *)
LEMMA RefusedIsKnown ==
    ASSUME Inv, Push, ~ (Len(ring) < QueueCapacity),
           NEW x \in Ids, Sends(outbox, "Add", x), ~ Sends(outbox', "Add", x)
    PROVE  x \in lost' \/ (x \in Armed /\ ~ InState(x, "Pending")) \/ desk_orders[x] = Nothing
<1> DEFINE c == outbox[1]
<1>1. /\ Head(outbox) = c /\ Len(outbox) \in Nat /\ Len(outbox) > 0 /\ outbox \in Seq(Command)
      /\ c.type = "Add" =>
            /\ c.order_id \in Armed <=> handler = "conditional"
            /\ handler \in TicketTypes \union {"simulation", "conditional"}
  <2>1. outbox \in Seq(Command)
    BY TypedFacts DEF Inv
  <2>2. QED
    BY <2>1, PushFacts
<1>2. 1 \in 1 .. Len(outbox)
    BY <1>1
<1>3. PICK i \in 1 .. Len(outbox) : outbox[i].type = "Add" /\ outbox[i].order_id = x
    BY DEF Sends
<1>4. i = 1
  <2> SUFFICES ASSUME i # 1 PROVE FALSE
    OBVIOUS
  <2>1. handler \notin TicketTypes
    <3>1. handler \in TicketTypes => Len(outbox) <= 2 /\ (i = 2 => outbox[i].type = "Cancel")
      BY DEF Inv, Handlers, TicketPushes
    <3>2. QED
      BY <1>1, <1>3, <3>1
  <2>2. outbox' = Tail(outbox)
    BY <2>1 DEF Push
  <2>3. /\ Len(outbox') = Len(outbox) - 1
        /\ \A j \in 1 .. Len(outbox') : outbox'[j] = outbox[j + 1]
    BY <1>1, <2>2, TailFacts
  <2>4. i - 1 \in 1 .. Len(outbox') /\ (i - 1) + 1 = i
    BY <1>1, <1>3, <2>3
  <2>5. outbox'[i - 1] = outbox[i]
    BY <2>3, <2>4
  <2>6. QED
    BY <1>3, <2>4, <2>5 DEF Sends
<1>5. c.type = "Add" /\ c.order_id = x
    BY <1>3, <1>4
<1>6. CASE handler = "Stop"
  <2>1. lost' = lost \union {c.order_id}
    BY <1>1, <1>5, <1>6 DEF Push
  <2>2. QED
    BY <1>5, <2>1
<1>7. CASE handler = "conditional"
    BY <1>1, <1>5, <1>7 DEF Inv, ArmedWait, InState
<1>8. CASE handler = "simulation"
    BY <1>2, <1>5, <1>8 DEF Inv, Handlers
<1>9. CASE handler \in TicketTypes \ {"Stop"}
    BY <1>1, <1>5, <1>9 DEF Inv, Handlers, TicketPushes
<1>10. QED
    BY <1>1, <1>5, <1>6, <1>7, <1>8, <1>9

(* The ring is full: a ticket ends, and a cancel is lost.                  *)
LEMMA PushRefusedInv ==
    ASSUME Inv, Push, ~ (Len(ring) < QueueCapacity)
    PROVE  Inv'
<1> DEFINE c == outbox[1]
<1>1. /\ c.order_id \in Ids /\ Len(outbox) \in Nat /\ Len(outbox) > 0
      /\ UNCHANGED <<next_order_id, cpc, book, active, view, withdrawn, simulated>>
      /\ outbox' \in Seq(Command) /\ Len(outbox') \in Nat
      /\ \A i \in 1 .. Len(outbox') : /\ outbox'[i] = outbox[i + 1]
                                      /\ i + 1 \in 1 .. Len(outbox)
      /\ handler' = IF Len(outbox') = 0 THEN "none" ELSE handler
    BY PushFacts
<1>2. /\ UNCHANGED <<ring, desk_orders, conditional_orders, added>>
      /\ outbox' = IF handler \in TicketTypes THEN <<>> ELSE Tail(outbox)
      /\ refused' = IF c.type = "Cancel" THEN refused \union {c.order_id} ELSE refused
      /\ lost' = IF c.type = "Add" /\ handler = "Stop" THEN lost \union {c.order_id} ELSE lost
  <2>1. Head(outbox) = c
    BY PushFacts
  <2>2. ring' = ring /\ added' = added
    BY DEF Push
  <2>3. desk_orders' = desk_orders
    BY DEF Push, ListedAfter
  <2>4. conditional_orders' = conditional_orders
    BY DEF Push, ArmedAfter
  <2>5. outbox' = IF handler \in TicketTypes THEN <<>> ELSE Tail(outbox)
    BY DEF Push
  <2>6. refused' = IF c.type = "Cancel" THEN refused \union {c.order_id} ELSE refused
    BY <2>1 DEF Push
  <2>7. lost' = IF c.type = "Add" /\ handler = "Stop" THEN lost \union {c.order_id} ELSE lost
    BY <2>1 DEF Push
  <2>8. QED
    BY <2>2, <2>3, <2>4, <2>5, <2>6, <2>7
<1>3. /\ Armed' = Armed /\ Transient' = Transient
      /\ \A type, x : Sends(ring', type, x) <=> Sends(ring, type, x)
      /\ \A x, state : InState(x, state)' <=> InState(x, state)
    BY <1>2 DEF Armed, Transient, Sends, InState
<1>4. Typed'
    BY <1>1, <1>2 DEF Inv, Typed, TypeOK
<1>5. Numbered'
    BY <1>1, <1>2 DEF Inv, Numbered
<1>6. Sent'
    BY <1>1, <1>2, PushQueues DEF Inv, Sent
<1>7. ArmedWait' /\ PendingSent' /\ Accounted'
  <2>1. ArmedWait' /\ PendingSent'
    BY <1>2, <1>3 DEF Inv, ArmedWait, PendingSent
  <2>2. ASSUME NEW x \in Ids, Sends(outbox, "Add", x), ~ Sends(outbox', "Add", x)
        PROVE  x \in lost' \/ (x \in Armed /\ ~ InState(x, "Pending")) \/ desk_orders[x] = Nothing
    BY <2>2, RefusedIsKnown
  <2>3. lost \subseteq lost'
    BY <1>2
  <2>4. handler' = "simulation" =>
            \A i \in 1 .. Len(outbox') : outbox'[i].order_id \in simulated
    BY <1>1 DEF Inv, Accounted
  <2>5. ASSUME NEW x \in Ids
        PROVE  /\ added[x] = 1 => desk_orders[x] # Nothing \/ x \in simulated
               /\ InState(x, "Pending") =>
                     added[x] = 1 \/ Sends(outbox', "Add", x) \/ x \in lost'
               /\ desk_orders[x] # Nothing =>
                     \/ added[x] = 1 \/ Sends(outbox', "Add", x) \/ x \in lost'
                     \/ x \in Armed \/ x \in withdrawn
    BY <2>2, <2>3 DEF Inv, Accounted, InState
  <2>6. \A x : Sends(outbox, "Add", x)' <=> Sends(outbox', "Add", x)
    BY DEF Sends
  <2>7. QED
    BY <1>1, <1>2, <1>3, <2>1, <2>4, <2>5, <2>6 DEF Accounted
<1>8. handler' \notin TicketTypes
    BY <1>1, <1>2 DEF TicketTypes
<1>9. Handlers'
  <2>1. ASSUME NEW i \in 1 .. Len(outbox')
        PROVE  /\ outbox'[i].type = "Add" =>
                     /\ handler' \in TicketTypes \union {"simulation", "conditional"}
                     /\ outbox'[i].order_id \in Armed <=> handler' = "conditional"
                     /\ handler' = "simulation" => desk_orders[outbox'[i].order_id] = Nothing
               /\ handler' = "conditional" => outbox'[i].type = "Add"
    <3>1. outbox'[i] = outbox[i + 1] /\ i + 1 \in 1 .. Len(outbox) /\ handler' = handler
      BY <1>1
    <3>2. QED
      BY <3>1 DEF Inv, Handlers
  <2>2. QED
    BY <1>2, <1>3, <1>8, <2>1 DEF Handlers
<1>10. CancelsLast'
    BY <1>2, <1>3, PushQueues DEF Inv, CancelsLast
<1>11. CancelUnderWay'
  <2>1. ASSUME NEW x \in Ids, InState(x, "Cancel pending")
        PROVE  \/ Sends(ring, "Cancel", x) \/ Sends(outbox', "Cancel", x)
               \/ x \in refused' \/ x \in withdrawn
    <3>1. CASE Sends(outbox, "Cancel", x) /\ handler \notin TicketTypes
      <4>1. PICK i \in 1 .. Len(outbox) : outbox[i].type = "Cancel" /\ outbox[i].order_id = x
        BY <3>1 DEF Sends
      <4>2. CASE i = 1
        BY <1>2, <4>1, <4>2
      <4>3. CASE i # 1
        <5>1. Len(outbox') = Len(outbox) - 1
          BY <1>2, <3>1, TypedFacts, TailFacts DEF Inv, Push
        <5>2. i - 1 \in 1 .. Len(outbox') /\ (i - 1) + 1 = i
          BY <1>1, <4>3, <5>1
        <5>3. outbox'[i - 1] = outbox[i]
          BY <1>1, <5>2
        <5>4. QED
          BY <4>1, <5>2, <5>3 DEF Sends
      <4>4. QED
        BY <4>2, <4>3
    <3>2. CASE Sends(outbox, "Cancel", x) /\ handler \in TicketTypes
      <4>1. /\ \A i \in 1 .. Len(outbox) : /\ outbox[i].order_id = next_order_id - 1
                                            /\ outbox[i].type # "Modify"
            /\ c.type = "Add" => IF handler = "Stop" THEN InState(c.order_id, "Pending")
                                 ELSE desk_orders[c.order_id] = Nothing
            /\ Len(outbox) <= 2
        BY <1>1, <3>2 DEF Inv, Handlers, TicketPushes
      <4>2. c.order_id = x /\ c.type # "Add"
        <5>1. c.order_id = x
          BY <1>1, <3>2, <4>1 DEF Sends
        <5>2. QED
          BY <2>1, <4>1, <5>1 DEF InState
      <4>3. c.type = "Cancel"
        <5>1. c.type # "Modify"
          BY <1>1, <4>1
        <5>2. c.type \in {"Add", "Modify", "Cancel"}
          BY PushFacts DEF Command
        <5>3. QED
          BY <4>2, <5>1, <5>2
      <4>4. QED
        BY <1>2, <4>2, <4>3
    <3>3. CASE ~ Sends(outbox, "Cancel", x)
      BY <1>2, <2>1, <3>3 DEF Inv, CancelUnderWay
    <3>4. QED
      BY <3>1, <3>2, <3>3
  <2>2. QED
    BY <1>1, <1>3, <2>1 DEF CancelUnderWay
<1>12. StaysOut'
    BY <1>1, <1>3, PushQueues DEF Inv, StaysOut
<1>13. OnlyTakes'
  <2>1. ASSUME NEW i \in Nat, NEW x, CancelFollows(i, x), x \notin refused'
        PROVE  CancelFollows(i, x)'
    <3>1. i < Len(ring)
      BY <1>2, <2>1 DEF CancelFollows
    <3>2. QED
      BY <1>2, <2>1, <3>1 DEF CancelFollows
  <2>2. Len(ring) \in Nat /\ refused \subseteq refused'
    BY <1>2, PushFacts
  <2>3. ASSUME NEW x \in Transient \ refused'
        PROVE  /\ x \in Resting(book) => CancelFollows(0, x)'
               /\ \A i \in 1 .. Len(ring) :
                     ring[i].type = "Add" /\ ring[i].order_id = x => CancelFollows(i, x)'
    <3>1. /\ x \in Resting(book) => CancelFollows(0, x)
          /\ \A i \in 1 .. Len(ring) :
                ring[i].type = "Add" /\ ring[i].order_id = x => CancelFollows(i, x)
      BY <2>2 DEF Inv, OnlyTakes
    <3> HIDE DEF CancelFollows
    <3>2. QED
      BY <2>1, <2>2, <3>1
  <2>4. QED
    BY <1>1, <1>2, <1>3, <2>3 DEF OnlyTakes
<1>14. QED
    BY <1>4, <1>5, <1>6, <1>7, <1>9, <1>10, <1>11, <1>12, <1>13 DEF Inv

(* The ring has room.                                                      *)
LEMMA PushTakenFacts ==
    ASSUME Inv, Push, Len(ring) < QueueCapacity, NEW c, c = outbox[1]
    PROVE  /\ ring' \in Seq(Command) /\ Len(ring') = Len(ring) + 1 /\ ring'[Len(ring) + 1] = c
           /\ \A i \in 1 .. Len(ring) : ring'[i] = ring[i]
           /\ UNCHANGED <<refused, lost>>
           /\ added' \in [Ids -> {0, 1}]
           /\ \A x \in Ids : x # c.order_id => added'[x] = added[x]
           /\ added'[c.order_id] = IF c.type = "Add" THEN 1 ELSE added[c.order_id]
           /\ desk_orders' \in [Ids -> DeskOrder \union {Nothing}]
           /\ \A x \in Ids : x # c.order_id \/ c.type # "Add" \/ handler = "Stop"
                                \/ handler = "simulation" => desk_orders'[x] = desk_orders[x]
           /\ c.type = "Add" /\ handler \notin {"Stop", "simulation"} =>
                 /\ desk_orders'[c.order_id] # Nothing
                 /\ desk_orders'[c.order_id].state = "Pending"
                 /\ desk_orders'[c.order_id].type =
                       IF handler = "conditional" THEN "Stop" ELSE handler
           /\ conditional_orders' \in [Ids -> ConditionalOrder \union {Nothing}]
           /\ \A x \in Ids : x # c.order_id \/ c.type # "Add" =>
                                conditional_orders'[x] = conditional_orders[x]
           /\ c.type = "Add" => conditional_orders'[c.order_id] = Nothing
<1>1. /\ c \in Command /\ c.order_id \in Ids /\ Head(outbox) = c
      /\ c.type = "Add" =>
            /\ added[c.order_id] = 0
            /\ c.order_id \in Armed <=> handler = "conditional"
            /\ handler \in TicketTypes \union {"simulation", "conditional"}
            /\ c.side \in Side /\ c.price \in Prices /\ c.qty \in Quantities
      /\ handler = "conditional" => c.type = "Add"
    BY PushFacts
<1>2. /\ ring \in Seq(Command) /\ added \in [Ids -> {0, 1}]
      /\ desk_orders \in [Ids -> DeskOrder \union {Nothing}]
      /\ conditional_orders \in [Ids -> ConditionalOrder \union {Nothing}]
    BY DEF Inv, Typed, TypeOK
<1>3. /\ ring' \in Seq(Command) /\ Len(ring') = Len(ring) + 1 /\ ring'[Len(ring) + 1] = c
      /\ \A i \in 1 .. Len(ring) : ring'[i] = ring[i]
  <2>1. ring' = Append(ring, c)
    BY <1>1 DEF Push
  <2>2. QED
    BY <1>1, <1>2, <2>1, AppendProperties
<1>4. UNCHANGED <<refused, lost>>
    BY DEF Push
<1>5. /\ added' \in [Ids -> {0, 1}]
      /\ \A x \in Ids : x # c.order_id => added'[x] = added[x]
      /\ added'[c.order_id] = IF c.type = "Add" THEN 1 ELSE added[c.order_id]
  <2>1. added' = IF c.type = "Add" THEN [added EXCEPT ![c.order_id] = @ + 1] ELSE added
    BY <1>1 DEF Push
  <2>2. CASE c.type = "Add"
    BY <1>1, <1>2, <2>1, <2>2
  <2>3. CASE c.type # "Add"
    BY <1>2, <2>1, <2>3
  <2>4. QED
    BY <2>2, <2>3
<1>6. /\ desk_orders' \in [Ids -> DeskOrder \union {Nothing}]
      /\ \A x \in Ids : x # c.order_id \/ c.type # "Add" \/ handler = "Stop"
                           \/ handler = "simulation" => desk_orders'[x] = desk_orders[x]
      /\ c.type = "Add" /\ handler \notin {"Stop", "simulation"} =>
            /\ desk_orders'[c.order_id] # Nothing
            /\ desk_orders'[c.order_id].state = "Pending"
            /\ desk_orders'[c.order_id].type = IF handler = "conditional" THEN "Stop" ELSE handler
  <2>1. desk_orders' = ListedAfter(c, TRUE)
    BY <1>1 DEF Push
  <2>2. CASE c.type # "Add" \/ handler \in {"Stop", "simulation"}
    BY <1>2, <2>1, <2>2 DEF ListedAfter
  <2>3. CASE c.type = "Add" /\ handler = "conditional"
    <3> DEFINE o == [desk_orders[c.order_id] EXCEPT !.state = "Pending"]
    <3>1. /\ desk_orders[c.order_id] # Nothing /\ desk_orders[c.order_id].type = "Stop"
          /\ desk_orders[c.order_id] \in DeskOrder
      BY <1>1, <1>2, <2>3 DEF Inv, ArmedWait
    <3>2. o \in DeskOrder /\ o.type = "Stop" /\ o.state = "Pending"
      BY <3>1 DEF DeskOrder
    <3>3. desk_orders' = [x \in Ids |-> IF x = c.order_id THEN o ELSE desk_orders[x]]
      BY <2>1, <2>3 DEF ListedAfter, SetState
    <3> HIDE DEF o
    <3>4. QED
      BY <1>1, <1>2, <2>3, <3>2, <3>3, Distinct
  <2>4. CASE c.type = "Add" /\ handler \in TicketTypes \ {"Stop"}
    <3> DEFINE o == Listed(handler, c.side, c.price, c.qty, "Pending")
    <3>1. o \in DeskOrder /\ o.type = handler /\ o.state = "Pending"
      BY <1>1, <2>4 DEF Listed, DeskOrder
    <3>2. desk_orders' = [desk_orders EXCEPT ![c.order_id] = o]
      BY <2>1, <2>4 DEF ListedAfter, TicketTypes
    <3> HIDE DEF o
    <3>3. QED
      BY <1>1, <1>2, <2>4, <3>1, <3>2, Distinct DEF TicketTypes
  <2>5. QED
    BY <1>1, <2>2, <2>3, <2>4
<1>7. /\ conditional_orders' \in [Ids -> ConditionalOrder \union {Nothing}]
      /\ \A x \in Ids : x # c.order_id \/ c.type # "Add" =>
                           conditional_orders'[x] = conditional_orders[x]
      /\ c.type = "Add" => conditional_orders'[c.order_id] = Nothing
  <2>1. conditional_orders' = IF handler = "conditional"
                              THEN [conditional_orders EXCEPT ![c.order_id] = Nothing]
                              ELSE conditional_orders
    BY <1>1 DEF Push, ArmedAfter
  <2>2. c.type = "Add" /\ handler # "conditional" => conditional_orders[c.order_id] = Nothing
    BY <1>1 DEF Armed
  <2>3. QED
    BY <1>1, <1>2, <2>1, <2>2
<1>8. QED
    BY <1>3, <1>4, <1>5, <1>6, <1>7

LEMMA PushTakenInv ==
    ASSUME Inv, Push, Len(ring) < QueueCapacity
    PROVE  Inv'
<1> DEFINE c == outbox[1]
           n == Len(ring)
<1>1. /\ c \in Command /\ c.order_id \in Ids /\ n \in Nat /\ n < QueueCapacity
      /\ Len(outbox) \in Nat /\ Len(outbox) > 0
      /\ next_order_id \in Int /\ Ids \subseteq Int /\ c.order_id < next_order_id
      /\ c.type = "Add" =>
            /\ added[c.order_id] = 0 /\ c.order_id \notin Transient
            /\ c.order_id \in Armed <=> handler = "conditional"
            /\ handler \in TicketTypes \union {"simulation", "conditional"}
      /\ handler = "conditional" => c.type = "Add"
      /\ UNCHANGED <<next_order_id, cpc, book, active, view, withdrawn, simulated>>
      /\ outbox' \in Seq(Command) /\ Len(outbox') \in Nat
      /\ \A i \in 1 .. Len(outbox') : /\ outbox'[i] = outbox[i + 1]
                                      /\ i + 1 \in 1 .. Len(outbox)
      /\ handler' = IF Len(outbox') = 0 THEN "none" ELSE handler
    BY PushFacts
<1>2. /\ ring' \in Seq(Command) /\ Len(ring') = n + 1 /\ ring'[n + 1] = c
      /\ \A i \in 1 .. n : ring'[i] = ring[i]
      /\ UNCHANGED <<refused, lost>>
      /\ added' \in [Ids -> {0, 1}]
      /\ \A x \in Ids : x # c.order_id => added'[x] = added[x]
      /\ added'[c.order_id] = IF c.type = "Add" THEN 1 ELSE added[c.order_id]
      /\ desk_orders' \in [Ids -> DeskOrder \union {Nothing}]
      /\ \A x \in Ids : x # c.order_id \/ c.type # "Add" \/ handler = "Stop"
                           \/ handler = "simulation" => desk_orders'[x] = desk_orders[x]
      /\ c.type = "Add" /\ handler \notin {"Stop", "simulation"} =>
            /\ desk_orders'[c.order_id] # Nothing
            /\ desk_orders'[c.order_id].state = "Pending"
            /\ desk_orders'[c.order_id].type = IF handler = "conditional" THEN "Stop" ELSE handler
      /\ conditional_orders' \in [Ids -> ConditionalOrder \union {Nothing}]
      /\ \A x \in Ids : x # c.order_id \/ c.type # "Add" =>
                           conditional_orders'[x] = conditional_orders[x]
      /\ c.type = "Add" => conditional_orders'[c.order_id] = Nothing
    BY PushTakenFacts
<1>3. /\ Armed' = IF c.type = "Add" THEN Armed \ {c.order_id} ELSE Armed
      /\ Armed \subseteq Ids
  <2>1. CASE c.type = "Add"
    <3>1. \A x \in Ids :
             conditional_orders'[x] # Nothing <=> conditional_orders[x] # Nothing /\ x # c.order_id
      BY <1>1, <1>2, <2>1
    <3>2. QED
      BY <2>1, <3>1 DEF Armed
  <2>2. CASE c.type # "Add"
    <3>1. \A x \in Ids : conditional_orders'[x] = conditional_orders[x]
      BY <1>2, <2>2
    <3>2. QED
      BY <2>2, <3>1 DEF Armed
  <2>3. QED
    BY <2>1, <2>2
<1> HIDE DEF c, n
<1>4. /\ \A type, x : Sends(ring', type, x) <=>
            Sends(ring, type, x) \/ (c.type = type /\ c.order_id = x)
      /\ \A type, x : Sends(outbox, type, x) =>
            Sends(outbox', type, x) \/ (c.type = type /\ c.order_id = x)
      /\ \A type, x : Sends(outbox', type, x) => Sends(outbox, type, x)
      /\ Sends(outbox, c.type, c.order_id)
  <2>1. ASSUME NEW type, NEW x, Sends(outbox, type, x), ~ (c.type = type /\ c.order_id = x)
        PROVE  Sends(outbox', type, x)
    <3>1. PICK i \in 1 .. Len(outbox) : outbox[i].type = type /\ outbox[i].order_id = x
      BY <2>1 DEF Sends
    <3>2. Len(outbox') = Len(outbox) - 1
      BY TypedFacts, TailFacts DEF Inv, Push
    <3>3. i # 1
      BY <2>1, <3>1 DEF c
    <3>4. i - 1 \in 1 .. Len(outbox') /\ (i - 1) + 1 = i
      BY <1>1, <3>2, <3>3
    <3>5. outbox'[i - 1] = outbox[i]
      BY <1>1, <3>4
    <3>6. QED
      BY <3>1, <3>4, <3>5 DEF Sends
  <2>2. Sends(outbox, c.type, c.order_id)
    BY <1>1 DEF Sends, c
  <2>3. ASSUME NEW type, NEW x, Sends(ring', type, x)
        PROVE  Sends(ring, type, x) \/ (c.type = type /\ c.order_id = x)
    <3>1. PICK i \in 1 .. n + 1 : ring'[i].type = type /\ ring'[i].order_id = x
      BY <1>2, <2>3 DEF Sends
    <3>2. CASE i = n + 1
      BY <1>2, <3>1, <3>2
    <3>3. CASE i # n + 1
      <4>1. i \in 1 .. n
        BY <1>1, <3>3
      <4>2. QED
        BY <1>2, <3>1, <4>1 DEF Sends, n
    <3>4. QED
      BY <3>2, <3>3
  <2>4. ASSUME NEW type, NEW x, Sends(ring, type, x) PROVE Sends(ring', type, x)
    <3>1. PICK i \in 1 .. n : ring[i].type = type /\ ring[i].order_id = x
      BY <2>4 DEF Sends, n
    <3>2. i \in 1 .. n + 1
      BY <1>1
    <3>3. QED
      BY <1>2, <3>1, <3>2 DEF Sends
  <2>5. Sends(ring', c.type, c.order_id)
    <3>1. n + 1 \in 1 .. n + 1
      BY <1>1
    <3>2. QED
      BY <1>2, <3>1 DEF Sends
  <2>6. QED
    BY <2>1, <2>2, <2>3, <2>4, <2>5, PushQueues
<1>5. Typed'
  <2>1. Len(ring') <= QueueCapacity
    BY <1>1, <1>2, DeskAssumption
  <2>2. QED
    BY <1>1, <1>2, <2>1 DEF Inv, Typed, TypeOK
<1>6. Numbered'
  <2>1. \A i \in 1 .. n + 1 : ring'[i].order_id < next_order_id
    <3>1. ASSUME NEW i \in 1 .. n + 1 PROVE ring'[i].order_id < next_order_id
      <4>1. CASE i = n + 1
        BY <1>1, <1>2, <4>1
      <4>2. CASE i # n + 1
        <5>1. i \in 1 .. n
          BY <1>1, <4>2
        <5>2. QED
          BY <1>2, <5>1 DEF Inv, Numbered, n
      <4>3. QED
        BY <4>1, <4>2
    <3>2. QED
      BY <3>1
  <2>2. \A i \in 1 .. Len(outbox') : outbox'[i].order_id < next_order_id
    BY <1>1 DEF Inv, Numbered
  <2>3. \A x \in Ids : x >= next_order_id => x # c.order_id
    <3>1. c.order_id \in Int /\ next_order_id \in Int /\ c.order_id < next_order_id
      BY <1>1
    <3>2. QED
      BY <3>1
  <2>4. QED
    BY <1>1, <1>2, <2>1, <2>2, <2>3 DEF Inv, Numbered
<1>7. Sent'
  <2>1. \A x \in Ids : added[x] = 1 => added'[x] = 1
    BY <1>1, <1>2
  <2>2. ASSUME NEW i \in 1 .. n + 1, ring'[i].type = "Add"
        PROVE  added'[ring'[i].order_id] = 1
    <3>1. CASE i = n + 1
      BY <1>2, <2>2, <3>1
    <3>2. CASE i # n + 1
      <4>1. i \in 1 .. n /\ ring[i].order_id \in Ids
        BY <1>1, <3>2, TypedFacts DEF Inv, n
      <4>2. QED
        BY <1>2, <2>1, <2>2, <4>1 DEF Inv, Sent, n
    <3>3. QED
      BY <3>1, <3>2
  <2>3. ASSUME NEW i \in 1 .. Len(outbox'), outbox'[i].type = "Add"
        PROVE  added'[outbox'[i].order_id] = 0
    <3>1. /\ added[outbox'[i].order_id] = 0 /\ outbox'[i].order_id \in Ids
          /\ c.type = "Add" => outbox'[i].order_id # c.order_id
      BY <1>1, <2>3, PushQueues, TypedFacts DEF Inv, c
    <3>2. QED
      BY <1>2, <3>1
  <2>4. \A x \in Resting(book) : x \in Ids
    BY RestingTyped DEF Inv, Typed, TypeOK
  <2>5. QED
    BY <1>1, <1>2, <2>1, <2>2, <2>3, <2>4, PushQueues DEF Inv, Sent
<1>8. ArmedWait'
  <2>1. ASSUME NEW x \in Armed'
        PROVE  x \in Armed /\ x \in Ids /\ added'[x] = added[x] /\ desk_orders'[x] = desk_orders[x]
    BY <1>2, <1>3
  <2>2. QED
    BY <2>1 DEF Inv, ArmedWait
<1>9. PendingSent' /\ Accounted'
  <2>1. ASSUME NEW x \in Ids, InState(x, "Pending")'
        PROVE  added'[x] = 1 \/ desk_orders'[x].type = "Stop"
    <3>1. CASE x = c.order_id /\ c.type = "Add"
      BY <1>2, <3>1
    <3>2. CASE ~ (x = c.order_id /\ c.type = "Add")
      <4>1. desk_orders'[x] = desk_orders[x] /\ added'[x] = added[x]
        BY <1>2, <3>2
      <4>2. QED
        BY <2>1, <4>1 DEF Inv, PendingSent, InState
    <3>3. QED
      BY <3>1, <3>2
  <2>2. PendingSent'
    BY <2>1 DEF PendingSent
  <2>3. c.type = "Add" => desk_orders'[c.order_id] # Nothing \/ c.order_id \in simulated
    <3>1. CASE c.type = "Add" /\ handler = "Stop"
      <4>1. InState(c.order_id, "Pending")
        BY <1>1, <3>1 DEF Inv, Handlers, TicketPushes, TicketTypes, c
      <4>2. QED
        BY <1>1, <1>2, <3>1, <4>1 DEF InState
    <3>2. CASE c.type = "Add" /\ handler = "simulation"
      <4>1. 1 \in 1 .. Len(outbox)
        BY <1>1
      <4>2. QED
        BY <3>2, <4>1 DEF Inv, Accounted, c
    <3>3. CASE c.type = "Add" /\ handler \notin {"Stop", "simulation"}
      BY <1>2, <3>3
    <3>4. QED
      BY <3>1, <3>2, <3>3
  <2>4. ASSUME NEW x \in Ids
        PROVE  /\ added'[x] = 1 => desk_orders'[x] # Nothing \/ x \in simulated
               /\ InState(x, "Pending")' =>
                     added'[x] = 1 \/ Sends(outbox', "Add", x) \/ x \in lost
               /\ desk_orders'[x] # Nothing =>
                     \/ added'[x] = 1 \/ Sends(outbox', "Add", x) \/ x \in lost
                     \/ x \in Armed' \/ x \in withdrawn
    <3>1. CASE x = c.order_id /\ c.type = "Add"
      BY <1>2, <2>3, <3>1
    <3>2. CASE ~ (x = c.order_id /\ c.type = "Add")
      <4>1. /\ desk_orders'[x] = desk_orders[x] /\ added'[x] = added[x]
            /\ Sends(outbox, "Add", x) => Sends(outbox', "Add", x)
            /\ x \in Armed => x \in Armed'
        BY <1>2, <1>3, <1>4, <3>2
      <4>2. QED
        BY <4>1 DEF Inv, Accounted, InState
    <3>3. QED
      BY <3>1, <3>2
  <2>5. handler' = "simulation" =>
            \A i \in 1 .. Len(outbox') : outbox'[i].order_id \in simulated
    BY <1>1 DEF Inv, Accounted
  <2>6. \A x : Sends(outbox, "Add", x)' <=> Sends(outbox', "Add", x)
    BY DEF Sends
  <2>7. QED
    BY <1>1, <1>2, <2>2, <2>4, <2>5, <2>6 DEF Accounted
<1>10. Handlers'
  <2>1. ASSUME NEW i \in 1 .. Len(outbox')
        PROVE  /\ outbox'[i].type = "Add" =>
                     /\ handler' \in TicketTypes \union {"simulation", "conditional"}
                     /\ outbox'[i].order_id \in Armed' <=> handler' = "conditional"
                     /\ handler' = "simulation" => desk_orders'[outbox'[i].order_id] = Nothing
               /\ handler' = "conditional" => outbox'[i].type = "Add"
    <3>1. /\ outbox'[i] = outbox[i + 1] /\ i + 1 \in 1 .. Len(outbox) /\ handler' = handler
          /\ outbox'[i].order_id \in Ids
      BY <1>1, TypedFacts DEF Inv
    <3>2. /\ outbox'[i].type = "Add" =>
                /\ handler \in TicketTypes \union {"simulation", "conditional"}
                /\ outbox'[i].order_id \in Armed <=> handler = "conditional"
                /\ handler = "simulation" => desk_orders[outbox'[i].order_id] = Nothing
          /\ handler = "conditional" => outbox'[i].type = "Add"
      BY <3>1 DEF Inv, Handlers
    <3>3. outbox'[i].type = "Add" =>
             (outbox'[i].order_id \in Armed' <=> outbox'[i].order_id \in Armed)
      BY <1>3, PushQueues DEF c
    <3>4. handler = "simulation" =>
             desk_orders'[outbox'[i].order_id] = desk_orders[outbox'[i].order_id]
      BY <1>2, <3>1
    <3>5. QED
      BY <3>1, <3>2, <3>3, <3>4
  <2>2. ASSUME handler' \in TicketTypes PROVE TicketPushes'
    <3>1. /\ Len(outbox') = 1 /\ outbox'[1].type = "Cancel"
          /\ outbox'[1].order_id = next_order_id - 1
      BY <2>2, PushQueues
    <3>2. QED
      BY <1>1, <3>1 DEF TicketPushes
  <2>3. QED
    BY <2>1, <2>2 DEF Handlers
<1>11. CancelsLast'
  <2>1. ASSUME NEW i \in 1 .. n + 1, ring'[i].type = "Cancel"
        PROVE  /\ ring'[i].order_id \notin Armed'
               /\ ~ Sends(outbox', "Add", ring'[i].order_id)
               /\ \A j \in i .. n + 1 :
                     ~ (ring'[j].type = "Add" /\ ring'[j].order_id = ring'[i].order_id)
    <3>1. CASE i = n + 1
      <4>1. ring'[i] = c
        BY <1>2, <3>1
      <4>2. /\ c.order_id \notin Armed
            /\ \A j \in 1 .. Len(outbox) :
                  ~ (outbox[j].type = "Add" /\ outbox[j].order_id = c.order_id)
        BY <1>1, <2>1, <4>1 DEF Inv, CancelsLast, c
      <4>3. ~ Sends(outbox', "Add", c.order_id)
        <5>1. ~ Sends(outbox, "Add", c.order_id)
          BY <4>2 DEF Sends
        <5>2. QED
          BY <1>4, <5>1
      <4>4. \A j \in i .. n + 1 : j = n + 1
        BY <1>1, <3>1
      <4>5. QED
        BY <1>2, <1>3, <2>1, <4>1, <4>2, <4>3, <4>4
    <3>2. CASE i # n + 1
      <4>1. i \in 1 .. n /\ ring'[i] = ring[i]
        BY <1>1, <1>2, <3>2
      <4>2. /\ ring[i].order_id \notin Armed /\ ~ Sends(outbox, "Add", ring[i].order_id)
            /\ \A j \in i .. n : ~ (ring[j].type = "Add" /\ ring[j].order_id = ring[i].order_id)
        BY <2>1, <4>1 DEF Inv, CancelsLast, n
      <4>3. ~ (c.type = "Add" /\ c.order_id = ring[i].order_id)
        BY <1>4, <4>2
      <4>4. \A j \in i .. n + 1 : j = n + 1 \/ (j \in i .. n /\ j \in 1 .. n)
        BY <1>1, <4>1
      <4>5. QED
        BY <1>2, <1>3, <1>4, <4>1, <4>2, <4>3, <4>4
    <3>3. QED
      BY <3>1, <3>2
  <2>2. ASSUME NEW i \in 1 .. Len(outbox'), outbox'[i].type = "Cancel"
        PROVE  /\ outbox'[i].order_id \notin Armed'
               /\ \A j \in i .. Len(outbox') :
                     ~ (outbox'[j].type = "Add" /\ outbox'[j].order_id = outbox'[i].order_id)
    BY <1>3, <2>2, PushQueues
  <2>3. QED
    BY <1>2, <2>1, <2>2 DEF CancelsLast
<1>12. CancelUnderWay'
  <2>1. ASSUME NEW x \in Ids, InState(x, "Cancel pending")'
        PROVE  \/ Sends(ring', "Cancel", x) \/ Sends(outbox', "Cancel", x)
               \/ x \in refused' \/ x \in withdrawn'
    <3>1. desk_orders'[x] # Nothing /\ desk_orders'[x].state = "Cancel pending"
      BY <2>1 DEF InState
    <3>2. desk_orders'[x] = desk_orders[x]
      BY <1>2, <3>1
    <3>3. InState(x, "Cancel pending")
      BY <3>1, <3>2 DEF InState
    <3>4. \/ Sends(ring, "Cancel", x) \/ Sends(outbox, "Cancel", x)
          \/ x \in refused \/ x \in withdrawn
      BY <3>3 DEF Inv, CancelUnderWay
    <3>5. QED
      BY <1>1, <1>2, <1>4, <3>4
  <2>2. QED
    BY <2>1 DEF CancelUnderWay
<1>13. StaysOut'
  <2>1. ASSUME NEW x \in withdrawn
        PROVE  /\ x \notin Resting(book) /\ x \notin Armed'
               /\ ~ Sends(ring', "Add", x) /\ ~ Sends(outbox', "Add", x)
    <3>1. /\ x \notin Resting(book) /\ x \notin Armed
          /\ ~ Sends(ring, "Add", x) /\ ~ Sends(outbox, "Add", x)
      BY DEF Inv, StaysOut
    <3>2. QED
      BY <1>3, <1>4, <3>1
  <2>2. QED
    BY <1>1, <2>1 DEF StaysOut
<1>14. OnlyTakes'
  <2>1. ASSUME NEW x \in Transient' \ refused', x = c.order_id, c.type = "Add"
        PROVE  /\ x \in Resting(book) => CancelFollows(0, x)'
               /\ \A i \in 1 .. n + 1 :
                     ring'[i].type = "Add" /\ ring'[i].order_id = x => CancelFollows(i, x)'
    <3>1. desk_orders'[x] # Nothing /\ desk_orders'[x].type \in {"IOC", "FOK", "Market"}
      BY <2>1 DEF Transient
    <3>2. handler \in {"IOC", "FOK", "Market"}
      <4>1. handler \notin {"Stop", "simulation"}
        <5>1. ASSUME handler \in {"Stop", "simulation"} PROVE FALSE
          <6>1. desk_orders'[x] = desk_orders[x]
            BY <1>1, <1>2, <2>1, <5>1
          <6>2. QED
            BY <1>1, <2>1, <3>1, <6>1 DEF Transient
        <5>2. QED
          BY <5>1
      <4>2. desk_orders'[x].type = IF handler = "conditional" THEN "Stop" ELSE handler
        BY <1>2, <2>1, <4>1
      <4>3. QED
        BY <3>1, <4>2
    <3>3. Len(outbox) = 2 /\ handler \in TicketTypes
      BY <1>1, <2>1, <3>2 DEF Inv, Handlers, TicketPushes, TicketTypes, c
    <3>4. handler' = handler
      <4>1. Len(outbox') = Len(outbox) - 1
        BY TypedFacts, TailFacts DEF Inv, Push
      <4>2. QED
        BY <1>1, <3>3, <4>1
    <3>5. Len(outbox') = 1 /\ outbox'[1].type = "Cancel" /\ outbox'[1].order_id = x
      BY <2>1, <3>3, <3>4, PushQueues DEF c
    <3>6. ASSUME NEW i \in 1 .. n + 1, i = n + 1 PROVE CancelFollows(i, x)'
      <4>1. ~ (i < Len(ring'))
        BY <1>1, <1>2, <3>6
      <4>2. QED
        BY <3>3, <3>4, <3>5, <4>1 DEF CancelFollows
    <3>7. x \notin Resting(book)
      BY <1>1, <2>1 DEF Inv, Sent
    <3>8. ASSUME NEW i \in 1 .. n PROVE ~ (ring'[i].type = "Add" /\ ring'[i].order_id = x)
      <4>1. ring'[i] = ring[i] /\ (ring[i].type = "Add" => added[ring[i].order_id] = 1)
        BY <1>2 DEF Inv, Sent, n
      <4>2. added[x] = 0
        BY <1>1, <2>1
      <4>3. QED
        BY <4>1, <4>2
    <3>9. \A i \in 1 .. n + 1 : i = n + 1 \/ i \in 1 .. n
      BY <1>1
    <3> HIDE DEF CancelFollows
    <3>10. QED
      BY <3>6, <3>7, <3>8, <3>9
  <2>2. ASSUME NEW i \in 0 .. n, NEW x, CancelFollows(i, x) PROVE CancelFollows(i, x)'
    <3>1. CASE i < n
      <4>1. i + 1 \in 1 .. n /\ i < n + 1
        BY <1>1, <3>1
      <4>2. QED
        BY <1>2, <2>2, <3>1, <4>1 DEF CancelFollows, n
    <3>2. CASE ~ (i < n)
      <4>1. i = n /\ i < n + 1
        BY <1>1, <3>2
      <4>2. QED
        BY <1>2, <2>2, <3>2, <4>1 DEF CancelFollows, n, c
    <3>3. QED
      BY <3>1, <3>2
  <2>3. ASSUME NEW x \in Transient' \ refused', ~ (x = c.order_id /\ c.type = "Add")
        PROVE  /\ x \in Resting(book) => CancelFollows(0, x)'
               /\ \A i \in 1 .. n + 1 :
                     ring'[i].type = "Add" /\ ring'[i].order_id = x => CancelFollows(i, x)'
    <3>1. x \in Transient \ refused
      <4>1. x \in Ids
        BY DEF Transient
      <4>2. desk_orders'[x] = desk_orders[x]
        BY <1>2, <2>3, <4>1
      <4>3. QED
        BY <1>2, <4>1, <4>2 DEF Transient
    <3>2. /\ x \in Resting(book) => CancelFollows(0, x)
          /\ \A i \in 1 .. n :
                ring[i].type = "Add" /\ ring[i].order_id = x => CancelFollows(i, x)
      BY <3>1 DEF Inv, OnlyTakes, n
    <3>3. ASSUME NEW i \in 1 .. n + 1, ring'[i].type = "Add", ring'[i].order_id = x
          PROVE  CancelFollows(i, x)'
      <4>1. i # n + 1
        BY <1>2, <2>3, <3>3
      <4>2. i \in 1 .. n /\ i \in 0 .. n
        BY <1>1, <4>1
      <4>3. CancelFollows(i, x)
        BY <1>2, <3>2, <3>3, <4>2
      <4>4. QED
        BY <2>2, <4>2, <4>3
    <3>4. 0 \in 0 .. n
      BY <1>1
    <3>5. QED
      BY <2>2, <3>2, <3>3, <3>4
  <2>4. QED
    BY <1>1, <1>2, <2>1, <2>3 DEF OnlyTakes
<1>15. QED
    BY <1>5, <1>6, <1>7, <1>8, <1>9, <1>10, <1>11, <1>12, <1>13, <1>14 DEF Inv

-----------------------------------------------------------------------------
(* Init and Next.                                                          *)

LEMMA InitInv == Init => Inv
<1> SUFFICES ASSUME Init PROVE Inv
    OBVIOUS
<1>1. /\ next_order_id = 1 /\ handler = "none" /\ active = "live" /\ cpc = "drain"
      /\ desk_orders = [id \in Ids |-> Nothing]
      /\ conditional_orders = [id \in Ids |-> Nothing]
      /\ outbox = <<>> /\ ring = <<>>
      /\ book = EmptyBook /\ added = [id \in Ids |-> 0]
      /\ refused = {} /\ withdrawn = {} /\ simulated = {} /\ lost = {}
    BY DEF Init
<1>2. /\ SoundBook(book) /\ PositiveOrders(book) /\ Resting(book) = {}
    BY <1>1, EmptyBookSound DEF EmptyBook, Resting
<1>3. Len(ring) = 0 /\ Len(outbox) = 0 /\ ring \in Seq(Command) /\ outbox \in Seq(Command)
    BY <1>1
<1>4. Armed = {} /\ Transient = {} /\ \A x \in Ids : \A state : ~ InState(x, state)
    BY <1>1 DEF Armed, Transient, InState
<1>5. Typed
    BY <1>1, <1>2, <1>3, IdsAreNumbers, DeskAssumption DEF Typed, TypeOK, SoundBook
<1>6. Numbered /\ Sent
    BY <1>1, <1>2, <1>3 DEF Numbered, Sent
<1>7. ArmedWait /\ PendingSent /\ Accounted /\ CancelUnderWay /\ StaysOut /\ OnlyTakes
  <2>1. \A id \in Ids : added[id] = 0 /\ desk_orders[id] = Nothing
    BY <1>1
  <2>2. Accounted
    BY <1>1, <1>4, <2>1 DEF Accounted
  <2>3. QED
    BY <1>1, <1>4, <2>2 DEF ArmedWait, PendingSent, CancelUnderWay, StaysOut, OnlyTakes
<1>8. Handlers /\ CancelsLast
    BY <1>1, <1>3 DEF Handlers, CancelsLast, TicketTypes
<1>9. QED
    BY <1>5, <1>6, <1>7, <1>8 DEF Inv

LEMMA NextInv == Inv /\ [Next]_vars => Inv'
<1> SUFFICES ASSUME Inv, [Next]_vars PROVE Inv'
    OBVIOUS
<1>1. ASSUME NEW t \in Tickets, NEW snap \in Snapshots, SubmitTicket(t, snap) PROVE Inv'
    BY <1>1, SubmitTicketInv
<1>2. ASSUME NEW q \in Quotes, SubmitSimulatedOrder(q) PROVE Inv'
    BY <1>2, SubmitSimulatedOrderInv
<1>3. ASSUME NEW snap \in Snapshots, ProcessConditionalOrders(snap) PROVE Inv'
    BY <1>3, ProcessConditionalOrdersInv
<1>4. ASSUME NEW id \in Ids, CancelOrderClicked(id) PROVE Inv'
    BY <1>4, CancelOrderClickedInv
<1>5. CASE CancelAll
    BY <1>5, CancelAllInv
<1>6. ASSUME NEW id \in Ids, NEW c \in Changes, ModifyOrderApplied(id, c[1], c[2]) PROVE Inv'
  <2>1. c[1] \in Prices /\ c[2] \in Quantities
    BY DeskAssumption
  <2>2. QED
    BY <1>6, <2>1, ModifyOrderAppliedInv
<1>7. active \in {"live", "other"} /\ cpc \in {"drain", "publish"}
    BY DEF Inv, Typed, TypeOK
<1>8. CASE SelectSymbol
    BY <1>7, <1>8, QuietInv DEF SelectSymbol
<1>9. ASSUME NEW snap \in Replays, ReplayPublished(snap) PROVE Inv'
    BY <1>7, <1>9, QuietInv DEF ReplayPublished
<1>10. CASE Push
    BY <1>10, PushTakenInv, PushRefusedInv
<1>11. CASE Apply
    BY <1>11, ApplyInv
<1>12. CASE Drained
    BY <1>7, <1>12, QuietInv DEF Drained, screen
<1>13. CASE Publish
    BY <1>7, <1>13, QuietInv DEF Publish
<1>14. CASE UNCHANGED vars
    BY <1>7, <1>14, QuietInv DEF vars, engine, screen
<1>15. QED
    BY <1>1, <1>2, <1>3, <1>4, <1>5, <1>6, <1>8, <1>9, <1>10, <1>11, <1>12, <1>13, <1>14
    DEF Next

(* Inv holds in every state of the desk.                                   *)
LEMMA InvHolds == Spec => []Inv
<1>1. QED
    BY InitInv, NextInv, PTL DEF Spec

-----------------------------------------------------------------------------
(* What the invariant says of the desk.                                    *)

(* The list of active orders, which is all cancel_all goes by, and the     *)
(* orders sent agree: every order of the desk that went out is listed,     *)
(* every listed one is accounted for, and none is lost or sent twice,      *)
(* however often the ring was full when submit_ticket or                   *)
(* process_conditional_orders pushed it, but for the stops that fired at   *)
(* once into a full ring.                                                  *)
THEOREM TheListAgrees == Spec => []ListAgreesWithSubmissions
<1>1. Inv => ListAgreesWithSubmissions
  <2> SUFFICES ASSUME Inv PROVE ListAgreesWithSubmissions
    OBVIOUS
  <2>1. \A id \in Ids : added[id] <= 1
    BY DEF Inv, Typed
  <2>2. \A id \in Armed : added[id] = 0 /\ desk_orders[id] # Nothing
    BY DEF Inv, ArmedWait
  <2>3. \A id : Sends(outbox, "Add", id) => ToGo("Add", id)
    BY TypedFacts, ToGoFacts DEF Inv
  <2>4. \A id \in Cancellable : InState(id, "Pending")
    BY DEF Cancellable, InState
  <2>5. ASSUME NEW id \in Ids
        PROVE  /\ added[id] = 1 => desk_orders[id] # Nothing \/ id \in simulated
               /\ id \in Cancellable => added[id] = 1 \/ ToGo("Add", id) \/ id \in lost
               /\ desk_orders[id] # Nothing =>
                     \/ added[id] = 1 \/ ToGo("Add", id) \/ id \in lost
                     \/ id \in Armed \/ id \in withdrawn
    BY <2>3, <2>4 DEF Inv, Accounted
  <2>6. QED
    BY <2>1, <2>2, <2>5 DEF Inv, Typed, ListAgreesWithSubmissions
<1>2. QED
    BY <1>1, InvHolds, PTL

(* What was cancelled stays out of the market: an order whose cancel the   *)
(* engine has handled, or which cancel_all took off the desk, is neither   *)
(* in the book nor on its way there, and never will be.                    *)
THEOREM WhatIsWithdrawnStaysOut == Spec => []WithdrawnStaysOut
<1>1. Inv => WithdrawnStaysOut
  <2> SUFFICES ASSUME Inv PROVE WithdrawnStaysOut
    OBVIOUS
  <2>1. \A type, id : ToGo(type, id) <=> Sends(ring, type, id) \/ Sends(outbox, type, id)
    BY TypedFacts, ToGoFacts DEF Inv
  <2>2. QED
    BY <2>1 DEF Inv, StaysOut, WithdrawnStaysOut
<1>2. QED
    BY <1>1, InvHolds, PTL

(* "Cancel pending" is true of an order in the book: its cancel is on the  *)
(* way, or the full ring refused it.                                       *)
THEOREM PendingCancelsAreTrue == Spec => []CancelPendingIsTrue
<1>1. Inv => CancelPendingIsTrue
  <2> SUFFICES ASSUME Inv, NEW id \in Resting(book), InState(id, "Cancel pending")
               PROVE  ToGo("Cancel", id) \/ id \in refused
    BY DEF CancelPendingIsTrue, InState
  <2>1. ToGo("Cancel", id) <=> Sends(ring, "Cancel", id) \/ Sends(outbox, "Cancel", id)
    BY TypedFacts, ToGoFacts DEF Inv
  <2>2. id \in Ids
    BY RestingTyped DEF Inv, Typed, TypeOK
  <2>3. id \notin withdrawn
    BY DEF Inv, StaysOut
  <2>4. QED
    BY <2>1, <2>2, <2>3 DEF Inv, CancelUnderWay
<1>2. QED
    BY <1>1, InvHolds, PTL

(* An immediate order only takes: no command finds it in the book, except  *)
(* its own cancel, unless the full ring refused the cancel.                *)
THEOREM ImmediateOrdersOnlyTake == Spec => []TransientOnlyTakes
<1>1. Inv => TransientOnlyTakes
  <2> SUFFICES ASSUME Inv, ring # <<>>
               PROVE  LET trades == ApplyCommand(book, Head(ring)).trades
                      IN  \A i \in DOMAIN trades : trades[i].maker_id \notin Transient \ refused
    BY DEF TransientOnlyTakes
  <2> DEFINE c == ring[1]
             r == ApplyCommand(book, c)
  <2>1. Head(ring) = c /\ c \in Command /\ Len(ring) \in Nat /\ Len(ring) > 0
    BY TypedFacts, TailFacts DEF Inv
  <2>2. SoundBook(book) /\ PositiveOrders(book)
    BY DEF Inv, Typed
  <2> HIDE DEF c, r
  <2>3. /\ r.trades \in Seq(Trade)
        /\ \A i \in 1 .. Len(r.trades) : r.trades[i].maker_id \in Resting(book)
        /\ c.type = "Cancel" => Len(r.trades) = 0
    BY <2>1, <2>2, ApplyFacts DEF r
  <2>4. ASSUME NEW i \in 1 .. Len(r.trades), r.trades[i].maker_id \in Transient \ refused
        PROVE  FALSE
    <3>1. CancelFollows(0, r.trades[i].maker_id)
      BY <2>3, <2>4 DEF Inv, OnlyTakes
    <3>2. c.type = "Cancel"
      BY <2>1, <3>1 DEF CancelFollows, c
    <3>3. QED
      BY <2>3, <2>4, <3>2
  <2>5. DOMAIN r.trades = 1 .. Len(r.trades)
    BY <2>3, LenProperties
  <2>6. QED
    BY <2>1, <2>4, <2>5 DEF r
<1>2. QED
    BY <1>1, InvHolds, PTL

-----------------------------------------------------------------------------
(* The rows of a snapshot and what rests behind them.                      *)

(* The prices of a side have an order of rank.                             *)
LEMMA RankedExists ==
    ASSUME NEW s \in Side, NEW P \in SUBSET Prices, IsFiniteSet(P)
    PROVE  \E w : Ranked(s, w, P)
<1> DEFINE N == Cardinality(P)
           All(n) == \A Q \in SUBSET P : Cardinality(Q) = n => \E w : Ranked(s, w, Q)
           T == {n \in 0 .. N : All(n)}
<1>1. N \in Nat
    BY FS_CardinalityType
<1>2. All(0)
  <2> SUFFICES ASSUME NEW Q \in SUBSET P, Cardinality(Q) = 0 PROVE \E w : Ranked(s, w, Q)
    OBVIOUS
  <2>1. Q = {}
    BY FS_Subset, FS_EmptySet
  <2>2. PICK w : w = <<>>
    OBVIOUS
  <2>3. w \in Seq(Prices) /\ Len(w) = 0
    BY <2>2
  <2>4. Ranked(s, w, Q)
    BY <2>1, <2>3 DEF Ranked
  <2>5. QED
    BY <2>4
<1>3. ASSUME NEW n \in 1 .. N, All(n - 1) PROVE All(n)
  <2> SUFFICES ASSUME NEW Q \in SUBSET P, Cardinality(Q) = n PROVE \E w : Ranked(s, w, Q)
    OBVIOUS
  <2>1. IsFiniteSet(Q) /\ Q # {} /\ Q \in SUBSET Int
    <3>1. IsFiniteSet(Q)
      BY FS_Subset
    <3>2. Q # {}
      BY FS_EmptySet
    <3>3. Q \in SUBSET Int
      BY BookAssumption
    <3>4. QED
      BY <3>1, <3>2, <3>3
  <2>2. Opposite(s) \in Side
    BY DEF Opposite, Side
  <2>3. PICK x \in Q : \A q \in Q : ~ Better(Opposite(s), q, x)
    BY <2>1, <2>2, BestExists
  <2>4. PICK R : R = Q \ {x}
    OBVIOUS
  <2>5. Cardinality(R) = n - 1 /\ R \in SUBSET P
    BY <2>1, <2>4, FS_RemoveElement
  <2>6. PICK v : Ranked(s, v, R)
    BY <1>3, <2>5
  <2>7. /\ v \in Seq(Prices) /\ R = {v[i] : i \in 1 .. Len(v)}
        /\ \A i, j \in 1 .. Len(v) : i < j => Better(s, v[i], v[j])
    BY <2>6 DEF Ranked
  <2>8. PICK w : w = Append(v, x)
    OBVIOUS
  <2>9. x \in Prices
    OBVIOUS
  <2>10. /\ w \in Seq(Prices) /\ Len(v) \in Nat /\ Len(w) = Len(v) + 1
         /\ \A j \in 1 .. Len(v) + 1 : w[j] = IF j = Len(v) + 1 THEN x ELSE v[j]
    BY <2>7, <2>8, <2>9, AppendFacts
  <2>11. Q = {w[i] : i \in 1 .. Len(w)}
    <3>1. \A q \in R : \E i \in 1 .. Len(w) : w[i] = q
      BY <2>7, <2>10
    <3>2. \E i \in 1 .. Len(w) : w[i] = x
      BY <2>10
    <3>3. \A i \in 1 .. Len(w) : w[i] \in R \/ w[i] = x
      BY <2>7, <2>10
    <3>4. QED
      BY <2>4, <3>1, <3>2, <3>3
  <2>12. ASSUME NEW i \in 1 .. Len(w), NEW j \in 1 .. Len(w), i < j PROVE Better(s, w[i], w[j])
    <3>1. i \in 1 .. Len(v) /\ w[i] = v[i]
      BY <2>10, <2>12
    <3>2. CASE j \in 1 .. Len(v)
      <4>1. w[j] = v[j]
        BY <2>10, <3>2
      <4>2. QED
        BY <2>7, <2>12, <3>1, <3>2, <4>1
    <3>3. CASE j = Len(v) + 1
      <4>1. w[j] = x
        BY <2>10, <3>3
      <4>2. v[i] \in Q /\ v[i] # x
        BY <2>4, <2>7, <3>1
      <4>3. PICK p \in Int, q \in Int : p = v[i] /\ q = x
        BY <2>1, <4>2
      <4>4. ~ Better(Opposite(s), p, q) /\ p # q
        BY <2>3, <4>2, <4>3
      <4>5. Better(s, p, q)
        BY <4>4 DEF Better, Opposite, Side
      <4>6. QED
        BY <3>1, <4>1, <4>3, <4>5
    <3>4. QED
      BY <2>10, <3>2, <3>3
  <2>13. Ranked(s, w, Q)
    BY <2>10, <2>11, <2>12 DEF Ranked
  <2>14. QED
    BY <2>13
<1> HIDE DEF All
<1>4. 0 \in T /\ \A n \in 1 .. N : n - 1 \in T => n \in T
    BY <1>1, <1>2, <1>3
<1> HIDE DEF T
<1>5. N \in T
    BY <1>1, <1>4, InductionTo
<1>6. All(N)
    BY <1>5 DEF T
<1>7. QED
    BY <1>6 DEF All

(* The displayed rows are of different prices of the side, each with the   *)
(* quantity that rests there.                                              *)
Rows(b, s, w, rows) ==
    /\ w \in Seq(Prices) /\ \A i, j \in 1 .. Len(w) : w[i] = w[j] => i = j
    /\ rows \in Seq([price : Prices, qty : Int, count : Nat]) /\ Len(rows) <= Len(w)
    /\ \A i \in 1 .. Len(rows) :
          rows[i].price = w[i] /\ rows[i].qty = LevelQty(b, <<s, w[i]>>)

LEMMA RowsShown ==
    ASSUME NEW b, SoundBook(b), NEW s \in Side, NEW depth \in Nat
    PROVE  \E w : Rows(b, s, w, L2Side(b, s, depth))
<1>1. b \in Book /\ QueuesHold(b, Resting(b)) /\ IsFiniteSet(Levels(b))
    BY DEF SoundBook, FitsPools
<1>2. PICK P : P = SidePrices(b, s)
    OBVIOUS
<1>3. P \in SUBSET Prices /\ IsFiniteSet(P)
    BY <1>1, <1>2, SidePricesFinite DEF SidePrices
<1>4. PICK w : Ranked(s, w, P)
    BY <1>3, RankedExists
<1>5. /\ w \in Seq(Prices) /\ Len(w) \in Nat
      /\ \A i, j \in 1 .. Len(w) : w[i] = w[j] => i = j
    BY <1>4, RankedDistinct
<1>6. Cardinality(P) = Len(w)
    BY <1>4, RankOf
<1>7. PICK n \in Nat : n = IF depth < Len(w) THEN depth ELSE Len(w)
    BY <1>5
<1>8. n <= Len(w)
    BY <1>5, <1>7
<1>9. \A i \in 1 .. n : RowPrice(b, s, i) = w[i]
  <2>1. \A i : RowPrice(b, s, i) = RowAt(P, s, i)
    BY <1>2 DEF RowPrice, RowAt
  <2>2. QED
    BY <1>4, <1>5, <1>8, <2>1, RankedRow
<1>10. PICK rows : rows = L2Side(b, s, depth)
    OBVIOUS
<1>11. rows = [i \in 1 .. n |-> [price |-> RowPrice(b, s, i),
                                 qty |-> LevelQty(b, <<s, RowPrice(b, s, i)>>),
                                 count |-> Len(b.queue[<<s, RowPrice(b, s, i)>>])]]
    BY <1>2, <1>6, <1>7, <1>10 DEF L2Side
<1>12. ASSUME NEW i \in 1 .. n
       PROVE  /\ rows[i].price = w[i] /\ rows[i].qty = LevelQty(b, <<s, w[i]>>)
              /\ rows[i] \in [price : Prices, qty : Int, count : Nat]
  <2>1. w[i] \in Prices /\ <<s, w[i]>> \in LevelKeys
    BY <1>5, <1>8 DEF LevelKeys
  <2>2. LevelQty(b, <<s, w[i]>>) \in Int /\ Len(b.queue[<<s, w[i]>>]) \in Nat
    BY <1>1, <2>1, QtysAtTyped
  <2>3. rows[i] = [price |-> w[i], qty |-> LevelQty(b, <<s, w[i]>>),
                   count |-> Len(b.queue[<<s, w[i]>>])]
    BY <1>9, <1>11
  <2>4. QED
    BY <2>1, <2>2, <2>3
<1>13. rows \in Seq([price : Prices, qty : Int, count : Nat]) /\ Len(rows) = n
  <2>1. PICK S : S = [price : Prices, qty : Int, count : Nat]
    OBVIOUS
  <2>2. \A i \in 1 .. n : rows[i] \in S
    BY <1>12, <2>1
  <2>3. rows = [i \in 1 .. n |-> rows[i]]
    BY <1>11
  <2>4. rows \in Seq(S) /\ Len(rows) = n
    BY <2>2, <2>3
  <2>5. QED
    BY <2>1, <2>4
<1>14. QED
    BY <1>5, <1>8, <1>10, <1>12, <1>13 DEF Rows

-----------------------------------------------------------------------------
(* What the orders of a set have left, those of it that rest.              *)
Stock(b, D) == [x \in Ids |-> IF x \in D /\ x \in Resting(b) THEN b.orders[x].qty ELSE 0]

StockIs(b, D, total) == Summed(Stock(b, D), Ids, total)

LEMMA StockTyped ==
    ASSUME NEW b \in Book, NEW D
    PROVE  Stock(b, D) \in [Ids -> Int]
<1>1. ASSUME NEW x \in Ids
      PROVE  (IF x \in D /\ x \in Resting(b) THEN b.orders[x].qty ELSE 0) \in Int
    BY RestingTyped DEF Order
<1>2. QED
    BY <1>1 DEF Stock

LEMMA StockOfNone ==
    ASSUME NEW b, NEW D, \A x \in D : x \notin Resting(b)
    PROVE  StockIs(b, D, 0)
<1>1. Stock(b, D) = [x \in Ids |-> 0]
    BY DEF Stock
<1>2. QED
    BY <1>1, SummedOfNothing DEF StockIs

(* One more order of the set.                                              *)
LEMMA StockJoined ==
    ASSUME NEW b \in Book, NEW D, NEW t, StockIs(b, D, t), NEW x \in Resting(b), x \notin D
    PROVE  StockIs(b, D \union {x}, t + b.orders[x].qty)
<1>1. x \in Ids /\ b.orders[x].qty \in Int
    BY RestingTyped DEF Order
<1>2. PICK f, g, v : f = Stock(b, D) /\ g = Stock(b, D \union {x}) /\ v = b.orders[x].qty
    OBVIOUS
<1>3. f \in [Ids -> Int] /\ f[x] = 0
    BY <1>1, <1>2, StockTyped DEF Stock
<1>4. g = [f EXCEPT ![x] = v]
  <2>1. \A y \in Ids : g[y] = IF y = x THEN v ELSE f[y]
    BY <1>2 DEF Stock
  <2>2. g = [y \in Ids |-> g[y]]
    BY <1>2 DEF Stock
  <2>3. QED
    BY <1>3, <2>1, <2>2
<1>5. Summed(f, Ids, t)
    BY <1>2 DEF StockIs
<1>6. Summed(g, Ids, t + (v - f[x]))
  <2>1. v \in Int
    BY <1>1, <1>2
  <2>2. Summed([f EXCEPT ![x] = v], Ids, t + (v - f[x]))
    BY <1>1, <1>3, <1>5, <2>1, SummedChanged
  <2>3. QED
    BY <1>4, <2>2
<1>7. v - f[x] = v
    BY <1>1, <1>2, <1>3
<1>8. QED
    BY <1>2, <1>6, <1>7 DEF StockIs

(* The orders of a level join: by its quantity.                            *)
LEMMA StockOfLevel ==
    ASSUME NEW b \in Book, QueuesHold(b, Resting(b)), NEW k \in LevelKeys, NEW D,
           NEW t \in Int, StockIs(b, D, t),
           \A i \in 1 .. Len(b.queue[k]) : b.queue[k][i] \notin D
    PROVE  StockIs(b, D \union {b.queue[k][i] : i \in 1 .. Len(b.queue[k])}, t + LevelQty(b, k))
<1>1. PICK q : q = b.queue[k]
    OBVIOUS
<1>2. PICK n \in Nat : n = Len(q)
    BY <1>1, QtysAtTyped
<1>3. PICK f : RunningTotal(f, QtysAt(b, k)) /\ f[n] = LevelQty(b, k)
    BY <1>1, <1>2, QtysAtTyped, TotalRuns
<1>4. /\ \A i \in 0 .. n : f[i] \in Int
      /\ f[0] = 0 /\ \A i \in 1 .. n : f[i] = f[i - 1] + b.orders[q[i]].qty
  <2>1. PICK qs : qs = QtysAt(b, k)
    OBVIOUS
  <2>2. Len(qs) = n /\ \A i \in 1 .. n : qs[i] = b.orders[q[i]].qty
    BY <1>1, <1>2, <2>1, QtysAtTyped
  <2>3. f \in [0 .. n -> Int] /\ f[0] = 0 /\ \A i \in 1 .. n : f[i] = f[i - 1] + qs[i]
    BY <1>3, <2>1, <2>2 DEF RunningTotal
  <2>4. QED
    BY <2>2, <2>3
<1>5. \A i \in 1 .. n : q[i] \in Resting(b) /\ q[i] \notin D
    BY <1>1, <1>2, QtysAtTyped
<1>6. \A i, j \in 1 .. n : q[j] = q[i] => j = i
    BY <1>1, <1>2 DEF QueuesHold
<1> DEFINE first(i) == D \union {q[j] : j \in 1 .. i}
           T == {i \in 0 .. n : StockIs(b, first(i), t + f[i])}
<1>7. 0 \in T
  <2>1. first(0) = D /\ t + f[0] = t
    BY <1>4
  <2>2. StockIs(b, first(0), t + f[0])
    BY <2>1
  <2>3. QED
    BY <2>2
<1>8. ASSUME NEW i \in 1 .. n, i - 1 \in T PROVE i \in T
  <2>1. StockIs(b, first(i - 1), t + f[i - 1])
    BY <1>8
  <2>2. first(i) = first(i - 1) \union {q[i]}
    <3>1. {q[j] : j \in 1 .. i} = {q[j] : j \in 1 .. i - 1} \union {q[i]}
      <4>1. 1 .. i = (1 .. i - 1) \union {i}
        OBVIOUS
      <4>2. QED
        BY <4>1
    <3>2. QED
      BY <3>1
  <2>3. q[i] \in Resting(b) /\ q[i] \notin first(i - 1)
    BY <1>2, <1>5, <1>6
  <2>4. PICK before, after : before = first(i - 1) /\ after = first(i)
    OBVIOUS
  <2>5. StockIs(b, after, t + f[i - 1] + b.orders[q[i]].qty)
    BY <2>1, <2>2, <2>3, <2>4, StockJoined
  <2>6. t + f[i - 1] + b.orders[q[i]].qty = t + f[i]
    <3>1. b.orders[q[i]].qty \in Int
      BY <2>3, RestingTyped DEF Order
    <3>2. f[i] = f[i - 1] + b.orders[q[i]].qty /\ f[i - 1] \in Int
      BY <1>2, <1>4
    <3>3. QED
      BY <3>1, <3>2
  <2>7. StockIs(b, first(i), t + f[i])
    BY <2>4, <2>5, <2>6
  <2> HIDE DEF first
  <2>8. QED
    BY <1>2, <2>7
<1> HIDE DEF T
<1>9. n \in T
  <2>1. \A i \in 1 .. n : i - 1 \in T => i \in T
    BY <1>8
  <2>2. \A i \in 0 .. n : i \in T
    BY <1>2, <1>7, <2>1, InductionTo
  <2>3. QED
    BY <1>2, <2>2
<1>10. StockIs(b, first(n), t + f[n])
    BY <1>9 DEF T
<1>11. QED
    BY <1>1, <1>2, <1>3, <1>10

(* An order of the book gives some of what it has, or all of it.           *)
LEMMA StockGiven ==
    ASSUME NEW b \in Book, QueuesHold(b, Resting(b)), NEW x \in Resting(b), NEW q \in Int, NEW c,
           \/ c = Dropped(b, x) /\ q = b.orders[x].qty
           \/ c = Resized(b, x, b.orders[x].qty - q),
           NEW D, NEW t \in Int, StockIs(b, D, t)
    PROVE  StockIs(c, D, IF x \in D THEN t - q ELSE t)
<1>1. x \in Ids /\ b.orders[x].qty \in Int
    BY RestingTyped DEF Order
<1>2. PICK v \in Int : v = b.orders[x].qty
    BY <1>1
<1>3. PICK f, g : f = Stock(b, D) /\ g = Stock(c, D)
    OBVIOUS
<1>4. f \in [Ids -> Int] /\ f[x] = (IF x \in D THEN v ELSE 0)
    BY <1>1, <1>2, <1>3, StockTyped DEF Stock
<1>5. /\ \A y \in Ids : y # x => (y \in Resting(c) <=> y \in Resting(b))
      /\ \A y \in Resting(c) : y # x => c.orders[y].qty = b.orders[y].qty
      /\ x \in Resting(c) => c.orders[x].qty = v - q
      /\ x \notin Resting(c) => v - q = 0
  <2>1. CASE c = Dropped(b, x) /\ q = b.orders[x].qty
    <3>1. c.orders = [b.orders EXCEPT ![x] = NoOrder] /\ Resting(c) = Resting(b) \ {x}
      BY <2>1, DroppedFacts
    <3>2. b.orders \in [Ids -> Order \union {NoOrder}] /\ Resting(b) \subseteq Ids
      BY DEF Book, Resting
    <3>3. QED
      BY <1>1, <1>2, <2>1, <3>1, <3>2
  <2>2. CASE c = Resized(b, x, b.orders[x].qty - q)
    <3>1. Resting(c) = Resting(b)
      BY <1>1, <2>2, ResizedFacts
    <3>2. \A y \in Ids : y # x => c.orders[y] = b.orders[y]
      BY <2>2 DEF Resized, Book
    <3>3. c.orders[x].qty = b.orders[x].qty - q
      BY <1>1, <2>2, RestingTyped DEF Resized, Book, Order
    <3>4. Resting(b) \subseteq Ids
      BY DEF Resting
    <3>5. QED
      BY <1>2, <3>1, <3>2, <3>3, <3>4
  <2>3. QED
    BY <2>1, <2>2
<1>6. PICK w \in Int : w = IF x \in D THEN v - q ELSE 0
    BY <1>2
<1>7. g = [f EXCEPT ![x] = w]
  <2>1. \A y \in Ids : g[y] = IF y = x THEN w ELSE f[y]
    <3> SUFFICES ASSUME NEW y \in Ids PROVE g[y] = IF y = x THEN w ELSE f[y]
      OBVIOUS
    <3>1. g[y] = (IF y \in D /\ y \in Resting(c) THEN c.orders[y].qty ELSE 0)
      BY <1>3 DEF Stock
    <3>2. f[y] = (IF y \in D /\ y \in Resting(b) THEN b.orders[y].qty ELSE 0)
      BY <1>3 DEF Stock
    <3>3. CASE y # x
      BY <1>5, <3>1, <3>2, <3>3
    <3>4. CASE y = x
      BY <1>5, <1>6, <3>1, <3>4
    <3>5. QED
      BY <3>3, <3>4
  <2>2. g = [y \in Ids |-> g[y]]
    BY <1>3 DEF Stock
  <2>3. QED
    BY <1>4, <2>1, <2>2
<1>8. Summed(f, Ids, t)
    BY <1>3 DEF StockIs
<1>9. Summed(g, Ids, t + (w - f[x]))
    BY <1>1, <1>4, <1>7, <1>8, SummedChanged
<1>10. t + (w - f[x]) = IF x \in D THEN t - q ELSE t
    BY <1>4, <1>6
<1>11. QED
    BY <1>3, <1>9, <1>10 DEF StockIs

(* Orders of the side within the limit of who trades against them.         *)
Tradable(b, D, s, limit) ==
    \A x \in D \intersect Resting(b) :
        b.orders[x].side = Opposite(s) /\ ~ Better(s, b.orders[x].price, limit)

(* The quantities of the rows within the limit.                            *)
WithinLimit(rows, s, limit) ==
    [i \in 1 .. Len(rows) |-> IF Better(s, rows[i].price, limit) THEN 0 ELSE rows[i].qty]

(* What is displayed within the limit is what some of the orders there     *)
(* have.                                                                   *)
LEMMA StockOfRows ==
    ASSUME NEW b, SoundBook(b), NEW s \in Side, NEW limit, NEW w, NEW rows,
           Rows(b, Opposite(s), w, rows), NEW h, h = WithinLimit(rows, s, limit)
    PROVE  \E D : Tradable(b, D, s, limit) /\ StockIs(b, D, Total(h)) /\ Total(h) \in Int
<1>1. b \in Book /\ QueuesHold(b, Resting(b))
    BY DEF SoundBook
<1>2. PICK o \in Side : o = Opposite(s)
    BY DEF Opposite, Side
<1>3. /\ w \in Seq(Prices) /\ \A i, j \in 1 .. Len(w) : w[i] = w[j] => i = j
      /\ rows \in Seq([price : Prices, qty : Int, count : Nat]) /\ Len(rows) <= Len(w)
      /\ \A i \in 1 .. Len(rows) :
            rows[i].price = w[i] /\ rows[i].qty = LevelQty(b, <<o, w[i]>>)
    BY <1>2 DEF Rows
<1>4. PICK n \in Nat : n = Len(rows)
    BY <1>3
<1>5. \A i \in 1 .. n : i \in 1 .. Len(w) /\ w[i] \in Prices
    BY <1>3, <1>4
<1>6. \A i \in 1 .. n : LevelQty(b, <<o, w[i]>>) \in Int /\ <<o, w[i]>> \in LevelKeys
  <2>1. \A i \in 1 .. n : <<o, w[i]>> \in LevelKeys
    BY <1>5 DEF LevelKeys
  <2>2. QED
    BY <1>1, <2>1, QtysAtTyped
<1>7. \A i \in 1 .. n : h[i] = IF Better(s, w[i], limit) THEN 0 ELSE LevelQty(b, <<o, w[i]>>)
    BY <1>3, <1>4 DEF WithinLimit
<1>8. h \in Seq(Int) /\ Len(h) = n
  <2>1. ASSUME NEW i \in 1 .. n PROVE h[i] \in Int
    <3>1. PICK v \in Int : v = LevelQty(b, <<o, w[i]>>)
      BY <1>6
    <3>2. h[i] = IF Better(s, w[i], limit) THEN 0 ELSE v
      BY <1>7, <3>1
    <3>3. CASE Better(s, w[i], limit)
      BY <3>2, <3>3
    <3>4. CASE ~ Better(s, w[i], limit)
      BY <3>2, <3>4
    <3>5. QED
      BY <3>3, <3>4
  <2>2. h = [i \in 1 .. n |-> h[i]]
    BY <1>4 DEF WithinLimit
  <2>3. QED
    BY <2>1, <2>2
<1>9. PICK f : RunningTotal(f, h) /\ f[n] = Total(h)
    BY <1>8, TotalRuns
<1>10. /\ \A i \in 0 .. n : f[i] \in Int
       /\ f[0] = 0 /\ \A i \in 1 .. n : f[i] = f[i - 1] + h[i]
  <2>1. f \in [0 .. n -> Int] /\ f[0] = 0 /\ \A i \in 1 .. n : f[i] = f[i - 1] + h[i]
    BY <1>8, <1>9 DEF RunningTotal
  <2>2. QED
    BY <2>1
<1> DEFINE In(D, i) == \A x \in D : /\ x \in Resting(b) /\ b.orders[x].side = o
                                    /\ ~ Better(s, b.orders[x].price, limit)
                                    /\ \E j \in 1 .. i : b.orders[x].price = w[j]
           Got(i) == \E D : In(D, i) /\ StockIs(b, D, f[i])
           T == {i \in 0 .. n : Got(i)}
<1>11. Got(0)
  <2>1. StockIs(b, {}, 0)
    BY StockOfNone
  <2>2. In({}, 0)
    OBVIOUS
  <2>3. QED
    BY <1>10, <2>1, <2>2
<1>12. ASSUME NEW i \in 1 .. n, Got(i - 1) PROVE Got(i)
  <2>1. PICK D : In(D, i - 1) /\ StockIs(b, D, f[i - 1])
    BY <1>12
  <2>2. f[i] = f[i - 1] + h[i] /\ f[i - 1] \in Int
    <3>1. i - 1 \in 0 .. n
      OBVIOUS
    <3>2. QED
      BY <1>10, <3>1
  <2>3. CASE Better(s, w[i], limit)
    <3>1. f[i] = f[i - 1]
      <4>1. h[i] = 0
        BY <1>7, <2>3
      <4>2. QED
        BY <2>2, <4>1
    <3>2. In(D, i)
      BY <2>1
    <3>3. QED
      BY <2>1, <3>1, <3>2
  <2>4. CASE ~ Better(s, w[i], limit)
    <3>1. PICK k \in LevelKeys : k = <<o, w[i]>>
      BY <1>6
    <3>2. PICK E : E = D \union {b.queue[k][j] : j \in 1 .. Len(b.queue[k])}
      OBVIOUS
    <3>3. \A j \in 1 .. Len(b.queue[k]) :
             /\ b.queue[k][j] \in Resting(b) /\ b.orders[b.queue[k][j]].side = o
             /\ b.orders[b.queue[k][j]].price = w[i]
      BY <1>1, <3>1 DEF QueuesHold, LevelOf
    <3>4. \A j \in 1 .. Len(b.queue[k]) : b.queue[k][j] \notin D
      <4>1. ASSUME NEW j \in 1 .. Len(b.queue[k]), b.queue[k][j] \in D PROVE FALSE
        <5>1. PICK m \in 1 .. i - 1 : b.orders[b.queue[k][j]].price = w[m]
          BY <2>1, <4>1
        <5>2. m \in 1 .. n /\ w[m] = w[i]
          BY <3>3, <5>1
        <5>3. QED
          BY <1>3, <1>5, <5>1, <5>2
      <4>2. QED
        BY <4>1
    <3>5. StockIs(b, E, f[i - 1] + LevelQty(b, k))
      BY <1>1, <2>1, <2>2, <3>2, <3>4, StockOfLevel
    <3>6. f[i - 1] + LevelQty(b, k) = f[i]
      BY <1>7, <2>2, <2>4, <3>1
    <3>7. In(E, i)
      <4>1. ASSUME NEW x \in E, x \in D
            PROVE  /\ x \in Resting(b) /\ b.orders[x].side = o
                   /\ ~ Better(s, b.orders[x].price, limit)
                   /\ \E j \in 1 .. i : b.orders[x].price = w[j]
        BY <2>1, <4>1
      <4>2. ASSUME NEW x \in E, x \notin D
            PROVE  /\ x \in Resting(b) /\ b.orders[x].side = o
                   /\ ~ Better(s, b.orders[x].price, limit)
                   /\ \E j \in 1 .. i : b.orders[x].price = w[j]
        <5>1. PICK j \in 1 .. Len(b.queue[k]) : x = b.queue[k][j]
          BY <3>2, <4>2
        <5>2. QED
          BY <2>4, <3>3, <5>1
      <4>3. QED
        BY <4>1, <4>2
    <3>8. QED
      BY <3>5, <3>6, <3>7
  <2>5. QED
    BY <2>3, <2>4
<1> HIDE DEF Got
<1>13. 0 \in T /\ \A i \in 1 .. n : i - 1 \in T => i \in T
    BY <1>11, <1>12
<1> HIDE DEF T
<1>14. \A i \in 0 .. n : i \in T
    BY <1>13, InductionTo
<1>15. Got(n)
    BY <1>14 DEF T
<1>16. PICK D : In(D, n) /\ StockIs(b, D, f[n])
    BY <1>15 DEF Got
<1>17. Tradable(b, D, s, limit)
    BY <1>2, <1>16 DEF Tradable
<1>18. QED
    BY <1>9, <1>10, <1>16, <1>17

(* During a call these orders have at least what the taker has left.       *)
Covers(r, D, s, limit) ==
    /\ Tradable(r.book, D, s, limit)
    /\ \E t \in Int : StockIs(r.book, D, t) /\ t >= r.left

LEMMA CoversKept ==
    ASSUME NEW r, Reached(r), NEW s \in Side, NEW limit, NEW D, Covers(r, D, s, limit)
    PROVE  Covers(NextFill(s, limit, r), D, s, limit)
<1>1. CASE ~ KeepsTrading(r.book, s, limit, r.left, r.trades)
    BY <1>1 DEF NextFill
<1>2. CASE KeepsTrading(r.book, s, limit, r.left, r.trades)
  <2>1. PICK b, left, t : b = r.book /\ left = r.left /\ t = NextTrade(b, s, left)
    OBVIOUS
  <2>2. PICK c : c = ExecuteOrder(b, t.maker_id, t.qty).book
    OBVIOUS
  <2>3. PICK u : u = NextFill(s, limit, r)
    OBVIOUS
  <2>4. u.book = c /\ u.left = left - t.qty
    BY <1>2, <2>1, <2>2, <2>3 DEF NextFill
  <2>5. SoundBook(b) /\ PositiveOrders(b) /\ left \in Nat /\ left > 0 /\ WouldCross(b, s, limit)
    BY <1>2, <2>1 DEF Reached, KeepsTrading
  <2>6. /\ t.maker_id \in Resting(b) /\ t \in Trade /\ Shrinks(b, c)
        /\ t.qty > 0 /\ left - t.qty \in Nat
        /\ \/ c = Dropped(b, t.maker_id) /\ t.qty = b.orders[t.maker_id].qty
           \/ c = Resized(b, t.maker_id, b.orders[t.maker_id].qty - t.qty)
    BY <2>1, <2>2, <2>5, FillFacts
  <2>7. PICK x, q : x = t.maker_id /\ q = t.qty
    OBVIOUS
  <2>8. q \in Int /\ q > 0
    BY <2>6, <2>7 DEF Trade
  <2>9. PICK all \in Int : StockIs(b, D, all) /\ all >= left
    BY <2>1 DEF Covers
  <2>10. StockIs(c, D, IF x \in D THEN all - q ELSE all)
    BY <2>5, <2>6, <2>7, <2>8, <2>9, StockGiven DEF SoundBook
  <2>11. PICK now \in Int : now = IF x \in D THEN all - q ELSE all
    <3>1. CASE x \in D
      BY <2>8, <2>9, <3>1
    <3>2. CASE x \notin D
      BY <2>8, <2>9, <3>2
    <3>3. QED
      BY <3>1, <3>2
  <2>12. now >= left - q
    BY <2>5, <2>8, <2>9, <2>11
  <2>13. Tradable(c, D, s, limit)
    <3>1. Tradable(b, D, s, limit)
      BY <2>1 DEF Covers
    <3>2. QED
      BY <2>6, <3>1 DEF Tradable, Shrinks
  <2>14. Covers(u, D, s, limit)
    BY <2>4, <2>7, <2>10, <2>11, <2>12, <2>13 DEF Covers
  <2>15. QED
    BY <2>3, <2>14
<1>3. QED
    BY <1>1, <1>2

(* So the loop does not end for want of an order to trade with.            *)
LEMMA CoveredTrades ==
    ASSUME NEW r, Reached(r), NEW s \in Side, NEW limit \in Int, NEW D, Covers(r, D, s, limit),
           r.left > 0
    PROVE  WouldCross(r.book, s, limit)
<1> SUFFICES ASSUME ~ WouldCross(r.book, s, limit) PROVE FALSE
    OBVIOUS
<1>1. PICK b : b = r.book
    OBVIOUS
<1>2. SoundBook(b) /\ r.left \in Nat /\ b \in Book /\ QueuesHold(b, Resting(b))
    BY <1>1 DEF Reached, SoundBook
<1>3. PICK o \in Side : o = Opposite(s)
    BY DEF Opposite, Side
<1>4. ASSUME NEW x \in D \intersect Resting(b) PROVE FALSE
  <2>1. b.orders[x].side = o /\ ~ Better(s, b.orders[x].price, limit)
    BY <1>1, <1>3, <1>4 DEF Covers, Tradable
  <2>2. PICK p : p = b.orders[x].price
    OBVIOUS
  <2>3. p \in Prices /\ LevelOf(b.orders[x]) = <<o, p>>
    BY <1>2, <2>1, <2>2, RestingTyped DEF Order, LevelOf
  <2>4. \E i \in 1 .. Len(b.queue[<<o, p>>]) : b.queue[<<o, p>>][i] = x
    BY <1>2, <2>3 DEF QueuesHold
  <2>5. p \in SidePrices(b, o)
    BY <2>3, <2>4, EmptySeq DEF SidePrices
  <2>6. PICK best : best = BestPrice(b, o)
    OBVIOUS
  <2>7. best \in SidePrices(b, o) /\ ~ Better(o, p, best)
    BY <1>2, <2>5, <2>6, BestIsBest
  <2>8. best \in Int /\ p \in Int
    BY <2>3, <2>7, BookAssumption DEF SidePrices
  <2>9. ~ Better(s, best, limit)
    <3>1. ~ Better(s, p, limit)
      BY <2>1, <2>2
    <3>2. CASE s = "Bid"
      BY <1>3, <2>7, <2>8, <3>1, <3>2 DEF Better, Opposite
    <3>3. CASE s = "Ask"
      BY <1>3, <2>7, <2>8, <3>1, <3>3 DEF Better, Opposite
    <3>4. QED
      BY <3>2, <3>3 DEF Side
  <2>10. QED
    BY <1>1, <1>3, <2>5, <2>6, <2>9 DEF WouldCross
<1>5. StockIs(b, D, 0)
    BY <1>4, StockOfNone
<1>6. PICK t \in Int : StockIs(b, D, t) /\ t >= r.left
    BY <1>1 DEF Covers
<1>7. t = 0
  <2>1. PICK f : f = Stock(b, D)
    OBVIOUS
  <2>2. Summed(f, Ids, t) /\ Summed(f, Ids, 0)
    BY <1>5, <1>6, <2>1 DEF StockIs
  <2>3. PICK g : Adds(g, f, Ids) /\ g[Ids] = t
    BY <2>2 DEF Summed
  <2>4. PICK h : Adds(h, f, Ids) /\ h[Ids] = 0
    BY <2>2 DEF Summed
  <2>5. QED
    BY <2>3, <2>4, AddsAlike, DeskAssumption
<1>8. QED
    BY <1>2, <1>6, <1>7

(* The loop ends with nothing left, or with MaxTrades trades.              *)
LEMMA CoveredFills ==
    ASSUME NEW b, SoundBook(b), PositiveOrders(b), NEW s \in Side, NEW limit \in Int,
           NEW qty \in Nat, NEW D, NEW t \in Int, Tradable(b, D, s, limit), StockIs(b, D, t),
           t >= qty, NEW r, r = Fills(b, s, limit, qty)
    PROVE  r.left = 0 \/ Len(r.trades) = MaxTrades
<1>1. PICK run : /\ Fills(b, s, limit, qty) = run[MaxTrades]
                 /\ run[0] = [book |-> b, trades |-> <<>>, left |-> qty]
                 /\ IsRun(run, s, limit)
    BY FillsRun
<1> DEFINE T == {k \in 0 .. MaxTrades : /\ Reached(run[k]) /\ Covers(run[k], D, s, limit)
                                        /\ run[k].left = 0 \/ Len(run[k].trades) = k}
<1>2. 0 \in T
  <2>1. PICK first : first = [book |-> b, trades |-> <<>>, left |-> qty]
    OBVIOUS
  <2>2. first.book = b /\ first.left = qty /\ first.trades = <<>>
    BY <2>1
  <2>3. Reached(first)
    <3>1. <<>> \in Seq(Trade)
      OBVIOUS
    <3>2. QED
      BY <2>2, <3>1 DEF Reached
  <2>4. Covers(first, D, s, limit)
    BY <2>2 DEF Covers
  <2>5. Len(first.trades) = 0
    BY <2>2
  <2>6. run[0] = first
    BY <1>1, <2>1
  <2>7. QED
    BY <2>3, <2>4, <2>5, <2>6, MaxTradesAssumption
<1>3. ASSUME NEW k \in 1 .. MaxTrades, k - 1 \in T PROVE k \in T
  <2>1. PICK u : u = run[k - 1]
    OBVIOUS
  <2>2. run[k] = NextFill(s, limit, u)
    BY <1>1, <2>1 DEF IsRun
  <2>3. Reached(u) /\ Covers(u, D, s, limit) /\ (u.left = 0 \/ Len(u.trades) = k - 1)
    BY <1>3, <2>1
  <2>4. Reached(run[k]) /\ Covers(run[k], D, s, limit)
    BY <2>2, <2>3, NextFillFacts, CoversKept
  <2>5. CASE u.left = 0
    <3>1. ~ KeepsTrading(u.book, s, limit, u.left, u.trades)
      BY <2>5 DEF KeepsTrading
    <3>2. run[k] = u
      BY <2>2, <3>1 DEF NextFill
    <3>3. QED
      BY <2>4, <2>5, <3>2
  <2>6. CASE u.left # 0
    <3>1. Len(u.trades) = k - 1 /\ u.left > 0
      BY <2>3, <2>6 DEF Reached
    <3>2. WouldCross(u.book, s, limit)
      BY <2>3, <3>1, CoveredTrades
    <3>3. KeepsTrading(u.book, s, limit, u.left, u.trades)
      BY <3>1, <3>2, MaxTradesAssumption DEF KeepsTrading
    <3>4. PICK trade : run[k].trades = Append(u.trades, trade)
      BY <2>2, <3>3 DEF NextFill
    <3>5. u.trades \in Seq(Trade)
      BY <2>3 DEF Reached
    <3>6. Len(run[k].trades) = k
      <4>1. run[k].trades \in Seq(Trade)
        BY <2>4 DEF Reached
      <4>2. Len(Append(u.trades, trade)) = Len(u.trades) + 1
        BY <3>5
      <4>3. QED
        BY <3>1, <3>4, <4>2
    <3>7. QED
      BY <2>4, <3>6
  <2>7. QED
    BY <2>5, <2>6
<1> HIDE DEF T
<1>4. MaxTrades \in T
    BY <1>2, <1>3, InductionTo, MaxTradesAssumption
<1>5. QED
    BY <1>1, <1>4 DEF T

(* An order that does not cross takes nothing.                             *)
LEMMA UncrossedFills ==
    ASSUME NEW b, NEW s, NEW limit, NEW qty, ~ WouldCross(b, s, limit)
    PROVE  Fills(b, s, limit, qty).trades = <<>>
<1>1. PICK run : /\ Fills(b, s, limit, qty) = run[MaxTrades]
                 /\ run[0] = [book |-> b, trades |-> <<>>, left |-> qty]
                 /\ IsRun(run, s, limit)
    BY FillsRun
<1>2. PICK first : first = [book |-> b, trades |-> <<>>, left |-> qty]
    OBVIOUS
<1>3. NextFill(s, limit, first) = first
  <2>1. ~ KeepsTrading(first.book, s, limit, first.left, first.trades)
    BY <1>2 DEF KeepsTrading
  <2>2. QED
    BY <2>1 DEF NextFill
<1> DEFINE T == {k \in 0 .. MaxTrades : run[k] = first}
<1>4. 0 \in T
    BY <1>1, <1>2, MaxTradesAssumption
<1>5. ASSUME NEW k \in 1 .. MaxTrades, k - 1 \in T PROVE k \in T
    BY <1>1, <1>3, <1>5 DEF IsRun
<1> HIDE DEF T
<1>6. MaxTrades \in T
    BY <1>4, <1>5, InductionTo, MaxTradesAssumption
<1>7. QED
    BY <1>1, <1>2, <1>6 DEF T

(* The desk sees the best price the engine would trade at.                 *)
LEMMA CrossesAsTheEngine ==
    ASSUME NEW b, SoundBook(b), NEW s \in Side, NEW limit, WouldCross(b, s, limit)
    PROVE  Crosses(s, limit, L2Snapshot(b, Depth))
<1>1. PICK best : best = BestPrice(b, Opposite(s))
    OBVIOUS
<1>2. best \in SidePrices(b, Opposite(s))
  <2>1. Opposite(s) \in Side
    BY DEF Opposite, Side
  <2>2. b \in Book /\ IsFiniteSet(Levels(b))
    BY DEF SoundBook, FitsPools
  <2>3. PICK p : p \in SidePrices(b, Opposite(s))
    BY DEF WouldCross
  <2>4. QED
    BY <1>1, <2>1, <2>2, <2>3, BestIsBest
<1>3. best # InvalidPrice
    BY <1>2, BookAssumption DEF SidePrices
<1>4. BestAgainst(s, L2Snapshot(b, Depth)) = best
    BY <1>1 DEF BestAgainst, L2Snapshot, Opposite, Side
<1>5. ~ Better(s, best, limit)
    BY <1>1 DEF WouldCross
<1>6. QED
    BY <1>3, <1>4, <1>5 DEF Crosses

(* What the desk adds up rests in the book within the limit.               *)
LEMMA AvailableIsStock ==
    ASSUME NEW b, SoundBook(b), NEW s \in Side, NEW limit, NEW a,
           a = Available(s, limit, L2Snapshot(b, Depth))
    PROVE  \E D : Tradable(b, D, s, limit) /\ StockIs(b, D, a) /\ a \in Int
<1>1. PICK rows : rows = L2Side(b, Opposite(s), Depth)
    OBVIOUS
<1>2. Opposite(s) \in Side /\ Depth \in Nat
    BY DeskAssumption DEF Opposite, Side
<1>3. PICK w : Rows(b, Opposite(s), w, rows)
    BY <1>1, <1>2, RowsShown
<1>4. LevelsAgainst(s, L2Snapshot(b, Depth)) = rows
    BY <1>1 DEF LevelsAgainst, L2Snapshot, Opposite, Side
<1>5. a = Total(WithinLimit(rows, s, limit))
    BY <1>4 DEF Available, WithinLimit
<1>6. QED
    BY <1>3, <1>5, StockOfRows

(* The checks of submit_ticket are those of the engine: judged on a        *)
(* snapshot of the book as it is, an accepted post-only ticket takes       *)
(* nothing, and an accepted fill-or-kill ticket is filled unless the       *)
(* matcher stops at MAX_TRADES, whatever the depth of the snapshot.        *)
THEOREM CurrentJudgementIsRight == Spec => []JudgedRightIfCurrent
<1>1. Inv => JudgedRightIfCurrent
  <2> SUFFICES ASSUME Inv, view = L2Snapshot(book, Depth), NEW t \in Tickets,
                      Acceptable(t, t.price, view),
                      NEW r, r = Fills(book, t.side, t.price, t.qty)
               PROVE  /\ t.type = "PostOnly" => r.trades = <<>>
                      /\ t.type = "FOK" => r.left = 0 \/ Len(r.trades) = MaxTrades
    BY DEF JudgedRightIfCurrent
  <2>1. SoundBook(book) /\ PositiveOrders(book)
    BY DEF Inv, Typed
  <2>2. t.side \in Side /\ t.price \in Int /\ t.qty \in Nat /\ t.qty > 0
    <3>1. t.side \in Side /\ t.price \in Int /\ t.qty \in Int
      BY DeskAssumption, BookAssumption DEF Ticket
    <3>2. t.qty > 0
      BY DEF Acceptable
    <3>3. QED
      BY <3>1, <3>2
  <2>3. ASSUME t.type = "PostOnly" PROVE r.trades = <<>>
    <3>1. ~ Crosses(t.side, t.price, L2Snapshot(book, Depth))
      BY <2>3 DEF Acceptable
    <3>2. ~ WouldCross(book, t.side, t.price)
      BY <2>1, <2>2, <3>1, CrossesAsTheEngine
    <3>3. QED
      BY <3>2, UncrossedFills
  <2>4. ASSUME t.type = "FOK" PROVE r.left = 0 \/ Len(r.trades) = MaxTrades
    <3>1. PICK a : a = Available(t.side, t.price, L2Snapshot(book, Depth))
      OBVIOUS
    <3>2. a >= t.qty
      BY <2>4, <3>1 DEF Acceptable
    <3>3. PICK D : Tradable(book, D, t.side, t.price) /\ StockIs(book, D, a) /\ a \in Int
      BY <2>1, <2>2, <3>1, AvailableIsStock
    <3>4. QED
      BY <2>1, <2>2, <3>2, <3>3, CoveredFills
  <2>5. QED
    BY <2>3, <2>4
<1>2. QED
    BY <1>1, InvHolds, PTL

-----------------------------------------------------------------------------
(***************************************************************************)
(* The background tasks, for any number of starts. TasksInv says of each   *)
(* task what it has still to write; of each result, that it is of one run  *)
(* unless its task is writing it; of the report, that it is the one made   *)
(* last unless a session has still to write it; of the UI thread, what it  *)
(* has read so far and which tasks it has already seen end.                *)
(***************************************************************************)

Writers == {"replay", "showcase"}
Pieces == {"result", "report"} \X Words

(* What a task may have still to write once it has its result.             *)
Left(k) ==
    CASE k = "replay" ->
             { <<<<"result", 1>>, <<"result", 2>>, <<"report", 1>>, <<"report", 2>>>>,
               <<<<"result", 2>>, <<"report", 1>>, <<"report", 2>>>>,
               <<<<"report", 1>>, <<"report", 2>>>>, <<<<"report", 2>>>>,
               <<<<"result", 1>>, <<"result", 2>>>>, <<<<"result", 2>>>>, <<>> }
      [] k = "showcase" -> { <<<<"report", 1>>, <<"report", 2>>>>, <<<<"report", 2>>>>, <<>> }
      [] OTHER -> { <<<<"result", 1>>, <<"result", 2>>>>, <<<<"result", 2>>>>, <<>> }

(* What such a list says of the report.                                    *)
Reports(t) == \E i \in DOMAIN t : t[i][1] = "report"
HasReport(t, w) == \E i \in DOMAIN t : t[i] = <<"report", w>>

Places == [at : {"frame"}, kind : {"none"}] \union [at : {"start"}, kind : Kinds]
          \union [at : {"stop"}, kind : {"replay"}] \union [at : {"lock", "read"}, kind : Panels]
          \union [at : {"close"}, kind : Flagged]
          \union [at : {"destroyed"}, kind : {"tape"}] \union [at : {"over"}, kind : {"none"}]

TasksTyped == /\ running \in [Flagged -> BOOLEAN]
         /\ task \in [Kinds -> {"none", "working", "lock", "write", "unlock", "flag", "over"}]
         /\ owner \in [Kinds -> {"nobody", "ui", "task"}]
         /\ todo \in [Kinds -> Seq(Pieces)]
         /\ ui \in Places /\ got \in Seq(Nat) /\ Len(got) <= 2
         /\ result \in [Panels -> [Words -> Nat]]
         /\ report \in [Words -> Nat]
         /\ starts \in Nat /\ number \in [Kinds -> Nat]
         /\ made \in Nat /\ clash \in BOOLEAN

(* A mutex is locked by who is inside (as in TasksTypeOK), and whom the UI *)
(* thread reads is not writing.                                            *)
Owned ==
    \A k \in Kinds : owner[k] = IF With("read", k) THEN "ui"
                                ELSE IF task[k] \in {"write", "unlock"} THEN "task"
                                ELSE "nobody"

ReadingExcludes == \A k \in Kinds : With("read", k) => task[k] \notin {"write", "unlock"}

(* The second word of its result is what k writes next.                    *)
Halfway(k) == todo[k] # <<>> /\ Head(todo[k]) = <<"result", 2>>

(* Only a task that has its result and not yet the flag has any to write.  *)
TodoFits == \A k \in Kinds : /\ todo[k] \in Left(k)
                             /\ todo[k] # <<>> => task[k] \in {"lock", "write"}
                             /\ task[k] = "lock" => ~ Halfway(k)

(* A result is half of a run only while its task has the other half left.  *)
ResultsWhole ==
    \A k \in Panels : IF Halfway(k) THEN result[k][1] = number[k]
                                    ELSE result[k][1] = result[k][2]

ReadSoFar == IF At("read") THEN \A i \in 1 .. Len(got) : got[i] = result[ui.kind][i]
             ELSE got = <<>>

(* Of two sessions at most one has the report to write, and then it is the *)
(* one made last and what it has written is there; or they have clashed,   *)
(* or the next to write will.                                              *)
ReportFits ==
    \/ clash
    \/ \A k \in Writers : Reports(todo[k])
    \/ /\ \A k \in Writers : ~ Reports(todo[k])
       /\ \A w \in Words : report[w] = made
    \/ \E k \in Writers :
           /\ Reports(todo[k]) /\ \A j \in Writers \ {k} : ~ Reports(todo[j])
           /\ made = number[k]
           /\ \A w \in Words : HasReport(todo[k], w) \/ report[w] = made

(* The waits of the destructor come one after the other, and no task is    *)
(* started in between.                                                     *)
SeenToEnd ==
    /\ At("close") /\ ui.kind # "replay" => Ended("replay")
    /\ At("close") /\ ui.kind = "showcase" => Ended("benchmark")
    /\ At("destroyed") \/ At("over") => \A k \in Flagged : Ended(k)

TasksInv == /\ TasksTyped /\ Owned /\ ReadingExcludes /\ TodoFits
       /\ ResultsWhole /\ ReadSoFar /\ ReportFits
       /\ NotRunningIsDone /\ SeenToEnd

-----------------------------------------------------------------------------
(* What the lists of words are, one after the other.                       *)

LEMMA PieceFacts ==
    ASSUME NEW a \in {"result", "report"}, NEW w \in Words
    PROVE  /\ <<a, w>> \in Pieces /\ <<a, w>>[1] = a /\ <<a, w>>[2] = w
           /\ \A b, v : <<a, w>> = <<b, v>> <=> a = b /\ w = v
    BY DEF Pieces

(* Heads and tails of short lists; the same for a list with an unknown end.*)
LEMMA ListsOfPieces ==
    ASSUME NEW S, NEW a \in S, NEW b \in S, NEW c \in S, NEW d \in S
    PROVE  /\ <<>> \in Seq(S)
           /\ <<a>> \in Seq(S) /\ <<a>> # <<>> /\ Head(<<a>>) = a /\ Tail(<<a>>) = <<>>
           /\ <<a, b>> \in Seq(S) /\ <<a, b>> # <<>> /\ Head(<<a, b>>) = a /\ Tail(<<a, b>>) = <<b>>
           /\ <<a, b, c>> \in Seq(S) /\ <<a, b, c>> # <<>> /\ Head(<<a, b, c>>) = a
           /\ Tail(<<a, b, c>>) = <<b, c>>
           /\ <<a, b, c, d>> \in Seq(S) /\ <<a, b, c, d>> # <<>> /\ Head(<<a, b, c, d>>) = a
           /\ Tail(<<a, b, c, d>>) = <<b, c, d>>
    OBVIOUS

LEMMA HeadAndTail ==
    ASSUME NEW S, NEW t \in Seq(S), t # <<>>
    PROVE  /\ Head(t) \in S /\ Tail(t) \in Seq(S)
           /\ \A i \in DOMAIN t : t[i] = Head(t) \/ (i - 1 \in DOMAIN Tail(t) /\ Tail(t)[i - 1] = t[i])
           /\ 1 \in DOMAIN t /\ t[1] = Head(t)
           /\ \A i \in DOMAIN Tail(t) : i + 1 \in DOMAIN t /\ t[i + 1] = Tail(t)[i]
    OBVIOUS

(* The first word is of the report, or the others say what the list says.  *)
LEMMA ReportsInTail ==
    ASSUME NEW t \in Seq(Pieces), t # <<>>
    PROVE  /\ Head(t) \in Pieces /\ Tail(t) \in Seq(Pieces)
           /\ Reports(t) <=> Head(t)[1] = "report" \/ Reports(Tail(t))
           /\ \A w \in Words :
                 HasReport(t, w) <=> Head(t) = <<"report", w>> \/ HasReport(Tail(t), w)
<1>1. Reports(t) <=> Head(t)[1] = "report" \/ Reports(Tail(t))
  <2>1. Reports(t) => Head(t)[1] = "report" \/ Reports(Tail(t))
    <3> SUFFICES ASSUME NEW i \in DOMAIN t, t[i][1] = "report", Head(t)[1] # "report"
                 PROVE  Reports(Tail(t))
      BY DEF Reports
    <3>1. t[i] # Head(t)
      OBVIOUS
    <3>2. i - 1 \in DOMAIN Tail(t) /\ Tail(t)[i - 1] = t[i]
      BY <3>1, HeadAndTail
    <3>3. QED
      BY <3>2, Zenon DEF Reports
  <2>2. Head(t)[1] = "report" => Reports(t)
    <3>1. 1 \in DOMAIN t /\ t[1] = Head(t)
      BY HeadAndTail
    <3>2. QED
      BY <3>1, Zenon DEF Reports
  <2>3. Reports(Tail(t)) => Reports(t)
    <3> SUFFICES ASSUME NEW i \in DOMAIN Tail(t), Tail(t)[i][1] = "report"
                 PROVE  Reports(t)
      BY DEF Reports
    <3>1. i + 1 \in DOMAIN t /\ t[i + 1] = Tail(t)[i]
      BY HeadAndTail
    <3>2. QED
      BY <3>1, Zenon DEF Reports
  <2>4. QED
    BY <2>1, <2>2, <2>3
<1>2. ASSUME NEW w \in Words
      PROVE  HasReport(t, w) <=> Head(t) = <<"report", w>> \/ HasReport(Tail(t), w)
  <2> DEFINE piece == <<"report", w>>
  <2> HIDE DEF piece
  <2>1. (\E i \in DOMAIN t : t[i] = piece)
        <=> Head(t) = piece \/ \E i \in DOMAIN Tail(t) : Tail(t)[i] = piece
    <3>1. ASSUME NEW i \in DOMAIN t, t[i] = piece
          PROVE  Head(t) = piece \/ \E j \in DOMAIN Tail(t) : Tail(t)[j] = piece
      <4>1. t[i] = Head(t) \/ (i - 1 \in DOMAIN Tail(t) /\ Tail(t)[i - 1] = t[i])
        BY HeadAndTail
      <4>2. QED
        BY <3>1, <4>1, Zenon
    <3>2. ASSUME NEW i \in DOMAIN Tail(t), Tail(t)[i] = piece
          PROVE  \E j \in DOMAIN t : t[j] = piece
      <4>1. i + 1 \in DOMAIN t /\ t[i + 1] = Tail(t)[i]
        BY HeadAndTail
      <4>2. QED
        BY <3>2, <4>1, Zenon
    <3>3. 1 \in DOMAIN t /\ t[1] = Head(t)
      BY HeadAndTail
    <3>4. QED
      BY <3>1, <3>2, <3>3, Zenon
  <2>2. QED
    BY <2>1 DEF HasReport, piece
<1>3. QED
    BY <1>1, <1>2, HeadAndTail

LEMMA NothingReports ==
    /\ ~ Reports(<<>>)
    /\ \A t, w : ~ Reports(t) => ~ HasReport(t, w)
    BY DEF Reports, HasReport

(* The words of a result in order, then those of the report.               *)
LEMMA LeftFacts ==
    ASSUME NEW k \in Kinds, NEW t \in Left(k)
    PROVE  /\ t \in Seq(Pieces)
           /\ t # <<>> =>
                 /\ Tail(t) \in Left(k)
                 /\ Head(t)[1] = "result" =>
                       /\ k \in Panels
                       /\ \/ /\ Head(t) = <<"result", 1>>
                             /\ Tail(t) # <<>> /\ Head(Tail(t)) = <<"result", 2>>
                          \/ /\ Head(t) = <<"result", 2>>
                             /\ Tail(t) = <<>> \/ Head(Tail(t)) # <<"result", 2>>
                 /\ Head(t)[1] = "report" =>
                       /\ k \in Writers
                       /\ Tail(t) = <<>> \/ Head(Tail(t))[1] = "report"
<1> DEFINE r1 == <<"result", 1>>
           r2 == <<"result", 2>>
           p1 == <<"report", 1>>
           p2 == <<"report", 2>>
           none == <<>>
<1>1. /\ r1 \in Pieces /\ r2 \in Pieces /\ p1 \in Pieces /\ p2 \in Pieces
      /\ r1[1] = "result" /\ r2[1] = "result" /\ p1[1] = "report" /\ p2[1] = "report"
      /\ r1 # r2
    BY DEF Pieces, Words
<1>2. none = <<>>
    OBVIOUS
<1>3. t \in CASE k = "replay" ->
                   {<<r1, r2, p1, p2>>, <<r2, p1, p2>>, <<p1, p2>>, <<p2>>, <<r1, r2>>, <<r2>>, none}
              [] k = "showcase" -> {<<p1, p2>>, <<p2>>, none}
              [] OTHER -> {<<r1, r2>>, <<r2>>, none}
    BY DEF Left
<1>4. Left(k) = CASE k = "replay" ->
                   {<<r1, r2, p1, p2>>, <<r2, p1, p2>>, <<p1, p2>>, <<p2>>, <<r1, r2>>, <<r2>>, none}
              [] k = "showcase" -> {<<p1, p2>>, <<p2>>, none}
              [] OTHER -> {<<r1, r2>>, <<r2>>, none}
    BY DEF Left
<1> HIDE DEF r1, r2, p1, p2, none
<1>5. k = "replay" => k \in Panels /\ k \in Writers
    BY DEF Kinds, Panels, Writers
<1>6. k = "showcase" => k \in Writers
    BY DEF Writers
<1>7. k # "showcase" => k \in Panels
    BY DEF Panels
<1>8. /\ none \in Seq(Pieces)
      /\ \A a \in Pieces : Tail(<<a>>) = none
      /\ \A a \in Pieces, b \in Pieces : <<a, b>> \in Seq(Pieces)
    BY <1>2, ListsOfPieces
<1>9. /\ t \in Seq(Pieces)
      /\ t # <<>> =>
            /\ Tail(t) \in Left(k)
            /\ Head(t)[1] = "result" =>
                  /\ k \in Panels
                  /\ \/ Head(t) = r1 /\ Tail(t) # <<>> /\ Head(Tail(t)) = r2
                     \/ Head(t) = r2 /\ (Tail(t) = <<>> \/ Head(Tail(t)) # r2)
            /\ Head(t)[1] = "report" =>
                  /\ k \in Writers
                  /\ Tail(t) = <<>> \/ Head(Tail(t))[1] = "report"
  <2>1. CASE t = <<r1, r2, p1, p2>> /\ k = "replay"
    BY <1>1, <1>4, <1>5, <2>1, ListsOfPieces
  <2>2. CASE t = <<r2, p1, p2>> /\ k = "replay"
    BY <1>1, <1>4, <1>5, <2>2, ListsOfPieces
  <2>3. CASE t = <<p1, p2>> /\ k \in Writers
    BY <1>1, <1>4, <2>3, ListsOfPieces DEF Writers
  <2>4. CASE t = <<p2>> /\ k \in Writers
    BY <1>1, <1>2, <1>4, <2>4, ListsOfPieces DEF Writers
  <2>5. CASE t = <<r1, r2>> /\ k # "showcase"
    BY <1>1, <1>4, <1>7, <2>5, ListsOfPieces
  <2>6. CASE t = <<r2>> /\ k # "showcase"
    BY <1>1, <1>2, <1>4, <1>7, <2>6, ListsOfPieces
  <2>7. CASE t = none
    BY <1>2, <1>8, <2>7
  <2>8. QED
    BY <1>3, <1>5, <1>6, <2>1, <2>2, <2>3, <2>4, <2>5, <2>6, <2>7
<1>10. QED
    BY <1>9 DEF r1, r2

(* What a task is given to write when its work is done.                    *)
LEMMA JoinedPairs ==
    ASSUME NEW S, NEW a \in S, NEW b \in S, NEW c \in S, NEW d \in S
    PROVE  <<a, b>> \o <<c, d>> = <<a, b, c, d>> /\ <<a, b>> \o <<>> = <<a, b>>
<1> DEFINE two == <<a, b>>
           last == <<c, d>>
           four == <<a, b, c, d>>
<1>1. /\ two \in Seq(S) /\ Len(two) = 2 /\ two[1] = a /\ two[2] = b
      /\ last \in Seq(S) /\ Len(last) = 2 /\ last[1] = c /\ last[2] = d
      /\ four \in Seq(S) /\ Len(four) = 4
      /\ four[1] = a /\ four[2] = b /\ four[3] = c /\ four[4] = d
    OBVIOUS
<1> HIDE DEF two, last, four
<1>2. /\ two \o last \in Seq(S) /\ Len(two \o last) = Len(two) + Len(last)
      /\ \A i \in 1 .. Len(two) + Len(last) :
            (two \o last)[i] = IF i <= Len(two) THEN two[i] ELSE last[i - Len(two)]
    BY <1>1, ConcatProperties
<1>3. /\ (two \o last)[1] = a /\ (two \o last)[2] = b
      /\ (two \o last)[3] = c /\ (two \o last)[4] = d
    BY <1>1, <1>2
<1>4. \A i \in 1 .. 4 : (two \o last)[i] = four[i]
  <2>1. \A i \in 1 .. 4 : i = 1 \/ i = 2 \/ i = 3 \/ i = 4
    OBVIOUS
  <2>2. QED
    BY <1>1, <1>3, <2>1
<1>5. two \o last = four
    BY <1>1, <1>2, <1>4, SeqEqual
<1>6. two \o <<>> = two
    BY <1>1, ConcatEmptySeq
<1>7. QED
    BY <1>5, <1>6 DEF two, last, four

LEMMA ReportsInPairs ==
    ASSUME NEW a \in Pieces, NEW b \in Pieces, NEW c \in Pieces, NEW d \in Pieces
    PROVE  /\ Reports(<<a, b>>) <=> a[1] = "report" \/ b[1] = "report"
           /\ Reports(<<a, b, c, d>>) <=> \E p \in {a, b, c, d} : p[1] = "report"
           /\ \A w : HasReport(<<a, b>>, w) <=> <<"report", w>> \in {a, b}
           /\ \A w : HasReport(<<a, b, c, d>>, w) <=> <<"report", w>> \in {a, b, c, d}
<1>1. /\ DOMAIN <<a, b>> = {1, 2} /\ <<a, b>>[1] = a /\ <<a, b>>[2] = b
      /\ DOMAIN <<a, b, c, d>> = {1, 2, 3, 4}
      /\ <<a, b, c, d>>[1] = a /\ <<a, b, c, d>>[2] = b
      /\ <<a, b, c, d>>[3] = c /\ <<a, b, c, d>>[4] = d
    OBVIOUS
<1> DEFINE two == <<a, b>>
           four == <<a, b, c, d>>
<1>2. /\ DOMAIN two = {1, 2} /\ two[1] = a /\ two[2] = b
      /\ DOMAIN four = {1, 2, 3, 4} /\ four[1] = a /\ four[2] = b /\ four[3] = c /\ four[4] = d
    BY <1>1
<1> HIDE DEF two, four
<1>3. /\ Reports(two) <=> a[1] = "report" \/ b[1] = "report"
      /\ Reports(four) <=> \E p \in {a, b, c, d} : p[1] = "report"
    BY <1>2 DEF Reports
<1>4. ASSUME NEW w
      PROVE  /\ HasReport(two, w) <=> <<"report", w>> \in {a, b}
             /\ HasReport(four, w) <=> <<"report", w>> \in {a, b, c, d}
  <2> DEFINE piece == <<"report", w>>
  <2> HIDE DEF piece
  <2>1. /\ (\E i \in DOMAIN two : two[i] = piece) <=> piece \in {a, b}
        /\ (\E i \in DOMAIN four : four[i] = piece) <=> piece \in {a, b, c, d}
    BY <1>2
  <2>2. QED
    BY <2>1 DEF HasReport, piece
<1>5. QED
    BY <1>3, <1>4 DEF two, four

LEMMA WritesFacts ==
    ASSUME NEW k \in Kinds, NEW ok \in BOOLEAN, k = "showcase" => ok
    PROVE  /\ WritesOf(k, ok) \in Left(k) /\ WritesOf(k, ok) # <<>>
           /\ Head(WritesOf(k, ok)) # <<"result", 2>>
           /\ Reports(WritesOf(k, ok)) <=> ok /\ k \in Writers
           /\ Reports(WritesOf(k, ok)) => \A w \in Words : HasReport(WritesOf(k, ok), w)
<1> DEFINE R == Both("result")
           S == Both("report")
           none == <<>>
           r1 == <<"result", 1>>
           r2 == <<"result", 2>>
           p1 == <<"report", 1>>
           p2 == <<"report", 2>>
<1>1. WritesOf(k, ok) = IF k = "replay" THEN (R \o IF ok THEN S ELSE none)
                        ELSE IF k = "showcase" THEN S ELSE R
  <2> HIDE DEF R, S, none
  <2>1. WritesOf(k, ok) = CASE k = "replay" -> R \o (IF ok THEN S ELSE none)
                            [] k = "showcase" -> S
                            [] OTHER -> R
    BY DEF WritesOf, R, S, none
  <2>2. QED
    BY <2>1
<1>2. /\ r1 \in Pieces /\ r2 \in Pieces /\ p1 \in Pieces /\ p2 \in Pieces
      /\ r1[1] = "result" /\ r2[1] = "result" /\ p1[1] = "report" /\ p2[1] = "report"
      /\ r1 # r2 /\ p1 # r2
    BY DEF Pieces, Words
<1>3. R = <<r1, r2>> /\ S = <<p1, p2>>
    BY DEF Both
<1>4. /\ k = "replay" => <<r1, r2, p1, p2>> \in Left(k) /\ <<r1, r2>> \in Left(k)
      /\ k = "showcase" => <<p1, p2>> \in Left(k)
      /\ k \notin Writers => <<r1, r2>> \in Left(k)
    BY DEF Left, Writers
<1>5. R \o none = R
  <2> HIDE DEF r1, r2
  <2>1. QED
    BY <1>2, <1>3, JoinedPairs DEF none
<1>6. \A w \in Words : <<"report", w>> \in {p1, p2}
    BY DEF Words
<1> HIDE DEF R, S, none, r1, r2, p1, p2
<1>7. /\ R # <<>> /\ Head(R) # r2 /\ ~ Reports(R)
      /\ S # <<>> /\ Head(S) # r2 /\ Reports(S)
  <2>1. /\ Head(<<r1, r2>>) = r1 /\ <<r1, r2>> # <<>>
        /\ Head(<<p1, p2>>) = p1 /\ <<p1, p2>> # <<>>
    BY <1>2, ListsOfPieces
  <2>2. ~ Reports(<<r1, r2>>) /\ Reports(<<p1, p2>>)
    BY <1>2, ReportsInPairs
  <2>3. QED
    BY <1>2, <1>3, <2>1, <2>2
<1>8. \A w \in Words : HasReport(S, w) /\ HasReport(<<r1, r2, p1, p2>>, w)
    BY <1>2, <1>3, <1>6, ReportsInPairs
<1>9. Head(WritesOf(k, ok)) # <<"result", 2>> <=> Head(WritesOf(k, ok)) # r2
    BY DEF r2
<1>10. CASE k = "replay" /\ ok
  <2>1. WritesOf(k, ok) = <<r1, r2, p1, p2>>
    BY <1>1, <1>2, <1>3, <1>10, JoinedPairs
  <2>2. QED
    <3>1. Head(WritesOf(k, ok)) = r1 /\ WritesOf(k, ok) # <<>>
      BY <1>2, <2>1, ListsOfPieces
    <3>2. Reports(WritesOf(k, ok))
      <4>1. Reports(<<r1, r2, p1, p2>>) <=> \E p \in {r1, r2, p1, p2} : p[1] = "report"
        BY <1>2, ReportsInPairs
      <4>2. QED
        BY <1>2, <2>1, <4>1
    <3>3. QED
      BY <1>2, <1>4, <1>8, <1>9, <1>10, <2>1, <3>1, <3>2 DEF Writers
<1>11. CASE k = "showcase"
  <2>1. WritesOf(k, ok) = S
    BY <1>1, <1>11
  <2>2. QED
    BY <1>3, <1>4, <1>7, <1>8, <1>9, <1>11, <2>1 DEF Writers
<1>12. CASE k # "showcase" /\ ~ (k = "replay" /\ ok)
  <2>1. WritesOf(k, ok) = R
    BY <1>1, <1>5, <1>12
  <2>2. QED
    BY <1>3, <1>4, <1>7, <1>9, <1>12, <2>1 DEF Writers
<1>13. QED
    BY <1>10, <1>11, <1>12

LEMMA EmptyLeft == \A k \in Kinds : <<>> \in Left(k)
    BY DEF Left

-----------------------------------------------------------------------------
(* Every step keeps TasksInv, one conjunct after the other.                *)

LEMMA AfterFacts == \A k \in Kinds : After(k) # "none" => After(k) \in Flagged
    BY DEF After, Kinds, Flagged

LEMMA AfterIs == /\ After("replay") = "benchmark"
                 /\ After("benchmark") = "showcase"
                 /\ After("showcase") = "none"
    BY DEF After

(* The types.                                                              *)
LEMMA TypedKept == ASSUME TasksInv, TasksNext PROVE TasksTyped'
<1> USE DEF TasksTyped, Flagged, Panels, With, At
<1>1. ASSUME NEW k \in Kinds, Click(k) PROVE TasksTyped'
    BY <1>1 DEF TasksInv, Click, Goto, tasks, Places
<1>2. ASSUME NEW k \in Kinds, DrawPanel(k) PROVE TasksTyped'
    BY <1>2 DEF TasksInv, DrawPanel, Goto, tasks, Places
<1>3. ASSUME NEW k \in Kinds, NEW ok \in BOOLEAN, Worked(k, ok) PROVE TasksTyped'
  <2>1. (k = "showcase" /\ ~ ok) \/ WritesOf(k, ok) \in Seq(Pieces)
    BY WritesFacts, LeftFacts
  <2>2. todo' \in [Kinds -> Seq(Pieces)]
    BY <1>3, <2>1 DEF TasksInv, Worked
  <2>3. QED
    BY <1>3, <2>2 DEF TasksInv, Worked, Moved
<1>4. ASSUME NEW k \in Kinds, Lock(k) PROVE TasksTyped'
    BY <1>4 DEF TasksInv, Lock, Moved
<1>5. ASSUME NEW k \in Kinds, Write(k) PROVE TasksTyped'
  <2> DEFINE what == Head(todo[k])[1]
             word == Head(todo[k])[2]
  <2>1. /\ todo[k] \in Seq(Pieces) /\ todo[k] \in Left(k) /\ todo[k] # <<>>
        /\ number[k] \in Nat
    BY <1>5 DEF TasksInv, Write, TodoFits
  <2>2. /\ Tail(todo[k]) \in Seq(Pieces)
        /\ word \in Words /\ what \in {"result", "report"}
        /\ what = "result" => k \in Panels
    BY <2>1, ReportsInTail, LeftFacts DEF Pieces
  <2> HIDE DEF what, word
  <2>3. \/ what = "result" /\ result' = [result EXCEPT ![k][word] = number[k]] /\ UNCHANGED report
        \/ what # "result" /\ report' = [report EXCEPT ![word] = number[k]] /\ UNCHANGED result
    BY <1>5 DEF Write, what, word
  <2>4. result' \in [Panels -> [Words -> Nat]] /\ report' \in [Words -> Nat]
    <3>1. CASE what = "result"
      <4>1. result[k] \in [Words -> Nat]
        BY <2>2, <3>1 DEF TasksInv
      <4> DEFINE new == [result[k] EXCEPT ![word] = number[k]]
      <4>2. new \in [Words -> Nat]
        BY <2>1, <4>1
      <4>3. result' = [result EXCEPT ![k] = new]
        BY <2>3, <3>1
      <4> HIDE DEF new
      <4>4. QED
        BY <2>2, <2>3, <3>1, <4>2, <4>3 DEF TasksInv
    <3>2. CASE what # "result"
      BY <2>1, <2>2, <2>3, <3>2 DEF TasksInv
    <3>3. QED
      BY <3>1, <3>2
  <2>5. todo' \in [Kinds -> Seq(Pieces)] /\ clash' \in BOOLEAN
    BY <1>5, <2>2 DEF TasksInv, Write
  <2>6. QED
    BY <1>5, <2>4, <2>5 DEF TasksInv, Write
<1>6. ASSUME NEW k \in Kinds, Unlock(k) PROVE TasksTyped'
    BY <1>6 DEF TasksInv, Unlock, Unlocked, Written, Moved
<1>7. ASSUME NEW k \in Kinds, FlagOff(k) PROVE TasksTyped'
    BY <1>7 DEF TasksInv, FlagOff, Written, Moved
<1>8. CASE StopClicked
    BY <1>8 DEF TasksInv, StopClicked, Goto, tasks, Places
<1>9. CASE Close
    BY <1>9 DEF TasksInv, Close, Goto, tasks, Places, Kinds
<1>10. ASSUME NEW k \in Kinds, Launch(k) PROVE TasksTyped'
    BY <1>10 DEF TasksInv, Launch, Ended, Frame, Places
<1>11. ASSUME NEW k \in Kinds, LockPanel(k) PROVE TasksTyped'
    BY <1>11 DEF TasksInv, LockPanel, Goto, Places
<1>12. ASSUME NEW k \in Kinds, ReadWord(k) PROVE TasksTyped'
  <2>1. Len(got) + 1 \in Words /\ result[k] \in [Words -> Nat]
    BY <1>12 DEF TasksInv, ReadWord, Words, Places
  <2>2. result[k][Len(got) + 1] \in Nat
    BY <2>1
  <2>3. got' \in Seq(Nat) /\ Len(got') <= 2
    BY <1>12, <2>2 DEF TasksInv, ReadWord
  <2>4. QED
    BY <1>12, <2>3 DEF TasksInv, ReadWord, tasks
<1>13. ASSUME NEW k \in Kinds, UnlockPanel(k) PROVE TasksTyped'
    BY <1>13 DEF TasksInv, UnlockPanel, Frame, Places
<1>14. ASSUME NEW k \in Kinds, Waited(k) PROVE TasksTyped'
  <2>1. ui' \in Places
    BY <1>14, AfterFacts DEF Waited, Goto, Places
  <2>2. QED
    BY <1>14, <2>1 DEF TasksInv, Waited, tasks
<1>15. CASE StopReplay
    BY <1>15 DEF TasksInv, StopReplay, Frame, tasks, Places
<1>16. CASE Destroyed
    BY <1>16 DEF TasksInv, Destroyed, Goto, tasks, Ended, Places
<1>17. QED
    BY <1>1, <1>2, <1>3, <1>4, <1>5, <1>6, <1>7, <1>8, <1>9, <1>10, <1>11, <1>12, <1>13,
       <1>14, <1>15, <1>16
       DEF TasksNext, UiStep, TaskStep

(* A mutex is taken from nobody and given back by who has it.              *)
LEMMA OwnedKept == ASSUME TasksInv, TasksNext PROVE (Owned /\ ReadingExcludes)'
<1> USE DEF TasksTyped, Owned, ReadingExcludes, With, At
<1>1. ASSUME NEW k \in Kinds, Click(k) PROVE (Owned /\ ReadingExcludes)'
    BY <1>1 DEF TasksInv, Click, Goto, tasks
<1>2. ASSUME NEW k \in Kinds, DrawPanel(k) PROVE (Owned /\ ReadingExcludes)'
    BY <1>2 DEF TasksInv, DrawPanel, Goto, tasks
<1>3. ASSUME NEW k \in Kinds, NEW ok \in BOOLEAN, Worked(k, ok) PROVE (Owned /\ ReadingExcludes)'
  <2>1. /\ UNCHANGED <<owner, ui>> /\ task[k] = "working"
        /\ \E place \in {"lock", "flag"} : task' = [task EXCEPT ![k] = place]
    BY <1>3 DEF Worked, Moved
  <2>2. QED
    BY <2>1 DEF TasksInv
<1>4. ASSUME NEW k \in Kinds, Lock(k) PROVE (Owned /\ ReadingExcludes)'
    BY <1>4 DEF TasksInv, Lock, Moved
<1>5. ASSUME NEW k \in Kinds, Write(k) PROVE (Owned /\ ReadingExcludes)'
    BY <1>5 DEF TasksInv, Write
<1>6. ASSUME NEW k \in Kinds, Unlock(k) PROVE (Owned /\ ReadingExcludes)'
  <2>1. /\ task[k] \in {"write", "unlock"}
        /\ owner' = [owner EXCEPT ![k] = "nobody"] /\ UNCHANGED ui
        /\ \E place \in {"over", "flag"} : task' = [task EXCEPT ![k] = place]
    BY <1>6 DEF Unlock, Unlocked, Written, Moved
  <2>2. QED
    BY <2>1 DEF TasksInv
<1>7. ASSUME NEW k \in Kinds, FlagOff(k) PROVE (Owned /\ ReadingExcludes)'
    BY <1>7 DEF TasksInv, FlagOff, Written, Moved
<1>8. CASE StopClicked
    BY <1>8 DEF TasksInv, StopClicked, Goto, tasks
<1>9. CASE Close
    BY <1>9 DEF TasksInv, Close, Goto, tasks
<1>10. ASSUME NEW k \in Kinds, Launch(k) PROVE (Owned /\ ReadingExcludes)'
    BY <1>10 DEF TasksInv, Launch, Ended, Frame
<1>11. ASSUME NEW k \in Kinds, LockPanel(k) PROVE (Owned /\ ReadingExcludes)'
    BY <1>11 DEF TasksInv, LockPanel, Goto
<1>12. ASSUME NEW k \in Kinds, ReadWord(k) PROVE (Owned /\ ReadingExcludes)'
    BY <1>12 DEF TasksInv, ReadWord, tasks
<1>13. ASSUME NEW k \in Kinds, UnlockPanel(k) PROVE (Owned /\ ReadingExcludes)'
    BY <1>13 DEF TasksInv, UnlockPanel, Frame
<1>14. ASSUME NEW k \in Kinds, Waited(k) PROVE (Owned /\ ReadingExcludes)'
  <2>1. UNCHANGED <<owner, task>> /\ \A j : ~ With("read", j) /\ ~ With("read", j)'
    BY <1>14 DEF Waited, Goto, tasks
  <2>2. QED
    BY <2>1 DEF TasksInv
<1>15. CASE StopReplay
    BY <1>15 DEF TasksInv, StopReplay, Frame, tasks
<1>16. CASE Destroyed
    BY <1>16 DEF TasksInv, Destroyed, Goto, tasks, Ended
<1>17. QED
    BY <1>1, <1>2, <1>3, <1>4, <1>5, <1>6, <1>7, <1>8, <1>9, <1>10, <1>11, <1>12, <1>13,
       <1>14, <1>15, <1>16
       DEF TasksNext, UiStep, TaskStep

(* A task that has ended has nothing left to write, and no step of a panel *)
(* touches what the tasks write.                                           *)
LEMMA TodoKept == ASSUME TasksInv, TasksNext PROVE TodoFits'
<1> USE DEF TasksTyped, TodoFits, Halfway
<1>1. ASSUME NEW k \in Kinds, Click(k) PROVE TodoFits'
    BY <1>1 DEF TasksInv, Click, Goto, tasks
<1>2. ASSUME NEW k \in Kinds, DrawPanel(k) PROVE TodoFits'
    BY <1>2 DEF TasksInv, DrawPanel, Goto, tasks
<1>3. ASSUME NEW k \in Kinds, NEW ok \in BOOLEAN, Worked(k, ok) PROVE TodoFits'
  <2>1. task[k] = "working" /\ todo[k] = <<>>
    BY <1>3 DEF TasksInv, Worked
  <2>2. CASE k = "showcase" /\ ~ ok
    BY <1>3, <2>1, <2>2 DEF TasksInv, Worked, Moved
  <2>3. CASE ~ (k = "showcase" /\ ~ ok)
    <3>1. /\ task' = [task EXCEPT ![k] = "lock"]
          /\ todo' = [todo EXCEPT ![k] = WritesOf(k, ok)]
      BY <1>3, <2>3 DEF Worked, Moved
    <3>2. /\ WritesOf(k, ok) \in Left(k)
          /\ WritesOf(k, ok) # <<>> /\ Head(WritesOf(k, ok)) # <<"result", 2>>
      BY <2>3, WritesFacts
    <3>3. QED
      BY <3>1, <3>2 DEF TasksInv
  <2>4. QED
    BY <2>2, <2>3
<1>4. ASSUME NEW k \in Kinds, Lock(k) PROVE TodoFits'
    BY <1>4 DEF TasksInv, Lock, Moved
<1>5. ASSUME NEW k \in Kinds, Write(k) PROVE TodoFits'
  <2>1. Tail(todo[k]) \in Left(k)
    BY <1>5, LeftFacts DEF TasksInv, Write
  <2>2. QED
    BY <1>5, <2>1 DEF TasksInv, Write
<1>6. ASSUME NEW k \in Kinds, Unlock(k) PROVE TodoFits'
    BY <1>6 DEF TasksInv, Unlock, Unlocked, Written, Moved
<1>7. ASSUME NEW k \in Kinds, FlagOff(k) PROVE TodoFits'
    BY <1>7 DEF TasksInv, FlagOff, Written, Moved
<1>8. CASE StopClicked
    BY <1>8 DEF TasksInv, StopClicked, Goto, tasks
<1>9. CASE Close
    BY <1>9 DEF TasksInv, Close, Goto, tasks
<1>10. ASSUME NEW k \in Kinds, Launch(k) PROVE TodoFits'
    BY <1>10 DEF TasksInv, Launch, Ended, Frame
<1>11. ASSUME NEW k \in Kinds, LockPanel(k) PROVE TodoFits'
    BY <1>11 DEF TasksInv, LockPanel, Goto
<1>12. ASSUME NEW k \in Kinds, ReadWord(k) PROVE TodoFits'
    BY <1>12 DEF TasksInv, ReadWord, tasks
<1>13. ASSUME NEW k \in Kinds, UnlockPanel(k) PROVE TodoFits'
    BY <1>13 DEF TasksInv, UnlockPanel, Frame
<1>14. ASSUME NEW k \in Kinds, Waited(k) PROVE TodoFits'
    BY <1>14 DEF TasksInv, Waited, Goto, After, tasks, Ended
<1>15. CASE StopReplay
    BY <1>15 DEF TasksInv, StopReplay, Frame, tasks
<1>16. CASE Destroyed
    BY <1>16 DEF TasksInv, Destroyed, Goto, tasks, Ended
<1>17. QED
    BY <1>1, <1>2, <1>3, <1>4, <1>5, <1>6, <1>7, <1>8, <1>9, <1>10, <1>11, <1>12, <1>13,
       <1>14, <1>15, <1>16
       DEF TasksNext, UiStep, TaskStep

(* A result is half written while its second word is still to come, and    *)
(* then the first is of this run.                                          *)
LEMMA ResultsKept == ASSUME TasksInv, TasksNext PROVE ResultsWhole'
<1> USE DEF TasksTyped, TodoFits, Halfway, ResultsWhole, Panels
<1>1. ASSUME NEW k \in Kinds, Click(k) PROVE ResultsWhole'
    BY <1>1 DEF TasksInv, Click, Goto, tasks
<1>2. ASSUME NEW k \in Kinds, DrawPanel(k) PROVE ResultsWhole'
    BY <1>2 DEF TasksInv, DrawPanel, Goto, tasks
<1>3. ASSUME NEW k \in Kinds, NEW ok \in BOOLEAN, Worked(k, ok) PROVE ResultsWhole'
  <2>1. task[k] = "working" /\ todo[k] = <<>>
    BY <1>3 DEF TasksInv, Worked
  <2>2. UNCHANGED <<result, number>> /\ \A j \in Kinds \ {k} : todo'[j] = todo[j]
    BY <1>3 DEF TasksInv, Worked
  <2>3. ~ Halfway(k)'
    <3>1. CASE k = "showcase" /\ ~ ok
      BY <1>3, <2>1, <3>1 DEF TasksInv, Worked
    <3>2. CASE ~ (k = "showcase" /\ ~ ok)
      <4>1. todo'[k] = WritesOf(k, ok)
        BY <1>3, <3>2 DEF TasksInv, Worked
      <4>2. Head(WritesOf(k, ok)) # <<"result", 2>>
        BY <3>2, WritesFacts
      <4>3. QED
        BY <4>1, <4>2
    <3>3. QED
      BY <3>1, <3>2
  <2>4. QED
    BY <2>1, <2>2, <2>3 DEF TasksInv
<1>4. ASSUME NEW k \in Kinds, Lock(k) PROVE ResultsWhole'
    BY <1>4 DEF TasksInv, Lock, Moved
<1>5. ASSUME NEW k \in Kinds, Write(k) PROVE ResultsWhole'
  <2> DEFINE t == todo[k]
             half == <<"result", 2>>
  <2>1. t # <<>> /\ t \in Left(k) /\ t \in Seq(Pieces) /\ Head(t) \in Pieces
    BY <1>5, HeadAndTail DEF TasksInv, Write
  <2>2. todo'[k] = Tail(t) /\ UNCHANGED number /\ \A j \in Kinds \ {k} : todo'[j] = todo[j]
    BY <1>5 DEF TasksInv, Write
  <2>3. ASSUME NEW j \in Panels, j # k
        PROVE  IF Halfway(j)' THEN result'[j][1] = number'[j] ELSE result'[j][1] = result'[j][2]
    <3>1. result'[j] = result[j]
      BY <1>5, <2>3 DEF TasksInv, Write
    <3>2. QED
      BY <2>2, <2>3, <3>1 DEF TasksInv
  <2>4. ASSUME k \in Panels
        PROVE  IF Halfway(k)' THEN result'[k][1] = number'[k] ELSE result'[k][1] = result'[k][2]
    <3>1. CASE Head(t)[1] = "result"
      <4>1. result' = [result EXCEPT ![k][Head(t)[2]] = number[k]]
        BY <1>5, <3>1 DEF Write
      <4>2. result'[k] = [result[k] EXCEPT ![Head(t)[2]] = number[k]]
        BY <2>4, <4>1 DEF TasksInv
      <4>3. result[k] \in [Words -> Nat]
        BY <2>4 DEF TasksInv
      <4>4. CASE Head(t) = <<"result", 1>> /\ Tail(t) # <<>> /\ Head(Tail(t)) = half
        BY <2>2, <4>2, <4>3, <4>4 DEF Words
      <4>5. CASE Head(t) = half /\ (Tail(t) = <<>> \/ Head(Tail(t)) # half)
        <5>1. result[k][1] = number[k]
          BY <2>1, <2>4, <4>5 DEF TasksInv
        <5>2. result'[k][1] = number[k] /\ result'[k][2] = number[k]
          BY <4>2, <4>3, <4>5, <5>1 DEF Words
        <5>3. ~ Halfway(k)'
          BY <2>2, <4>5
        <5>4. QED
          BY <5>2, <5>3
      <4>6. QED
        BY <2>1, <3>1, <4>4, <4>5, LeftFacts
    <3>2. CASE Head(t)[1] = "report"
      <4>1. UNCHANGED result
        BY <1>5, <3>2 DEF Write
      <4>2. ~ Halfway(k)
        BY <3>2
      <4>3. ~ Halfway(k)'
        <5>1. Tail(t) = <<>> \/ Head(Tail(t))[1] = "report"
          BY <2>1, <3>2, LeftFacts
        <5>2. QED
          BY <2>2, <5>1
      <4>4. QED
        BY <2>4, <4>1, <4>2, <4>3 DEF TasksInv
    <3>3. QED
      BY <2>1, <3>1, <3>2 DEF Pieces
  <2>5. QED
    BY <2>3, <2>4
<1>6. ASSUME NEW k \in Kinds, Unlock(k) PROVE ResultsWhole'
    BY <1>6 DEF TasksInv, Unlock, Unlocked, Written, Moved
<1>7. ASSUME NEW k \in Kinds, FlagOff(k) PROVE ResultsWhole'
    BY <1>7 DEF TasksInv, FlagOff, Written, Moved
<1>8. CASE StopClicked
    BY <1>8 DEF TasksInv, StopClicked, Goto, tasks
<1>9. CASE Close
    BY <1>9 DEF TasksInv, Close, Goto, tasks
<1>10. ASSUME NEW k \in Kinds, Launch(k) PROVE ResultsWhole'
    BY <1>10 DEF TasksInv, Launch, Ended, Frame
<1>11. ASSUME NEW k \in Kinds, LockPanel(k) PROVE ResultsWhole'
    BY <1>11 DEF TasksInv, LockPanel, Goto
<1>12. ASSUME NEW k \in Kinds, ReadWord(k) PROVE ResultsWhole'
    BY <1>12 DEF TasksInv, ReadWord, tasks
<1>13. ASSUME NEW k \in Kinds, UnlockPanel(k) PROVE ResultsWhole'
    BY <1>13 DEF TasksInv, UnlockPanel, Frame
<1>14. ASSUME NEW k \in Kinds, Waited(k) PROVE ResultsWhole'
    BY <1>14 DEF TasksInv, Waited, Goto, After, tasks, Ended
<1>15. CASE StopReplay
    BY <1>15 DEF TasksInv, StopReplay, Frame, tasks
<1>16. CASE Destroyed
    BY <1>16 DEF TasksInv, Destroyed, Goto, tasks, Ended
<1>17. QED
    BY <1>1, <1>2, <1>3, <1>4, <1>5, <1>6, <1>7, <1>8, <1>9, <1>10, <1>11, <1>12, <1>13,
       <1>14, <1>15, <1>16
       DEF TasksNext, UiStep, TaskStep

(* Only what a session makes and writes changes where the report stands. *)
LEMMA ReportKept == ASSUME TasksInv, TasksNext PROVE ReportFits'
<1> USE DEF TasksTyped, ReportFits, Writers
<1>1. ASSUME NEW k \in Kinds, Click(k) PROVE ReportFits'
  <2>1. UNCHANGED <<todo, report, made, clash, number>>
    BY <1>1 DEF Click, Goto, tasks
  <2>2. QED
    BY <2>1 DEF TasksInv
<1>2. ASSUME NEW k \in Kinds, DrawPanel(k) PROVE ReportFits'
  <2>1. UNCHANGED <<todo, report, made, clash, number>>
    BY <1>2 DEF DrawPanel, Goto, tasks
  <2>2. QED
    BY <2>1 DEF TasksInv
<1>3. ASSUME NEW k \in Kinds, NEW ok \in BOOLEAN, Worked(k, ok) PROVE ReportFits'
  <2>1. /\ UNCHANGED <<report, clash, number>> /\ \A j \in Kinds \ {k} : todo'[j] = todo[j]
        /\ made' = IF ok /\ k \in Writers THEN number[k] ELSE made
    BY <1>3 DEF TasksInv, Worked
  <2>2. ~ Reports(todo[k])
    <3>1. todo[k] = <<>>
      BY <1>3 DEF TasksInv, TodoFits, Worked
    <3>2. QED
      BY <3>1, NothingReports
  <2>3. CASE k = "showcase" /\ ~ ok
    <3>1. todo'[k] = todo[k]
      BY <1>3, <2>3 DEF Worked
    <3>2. QED
      BY <2>1, <2>2, <2>3, <3>1 DEF TasksInv, Kinds
  <2>4. CASE ~ (k = "showcase" /\ ~ ok)
    <3>1. todo'[k] = WritesOf(k, ok)
      BY <1>3, <2>4 DEF TasksInv, Worked
    <3>2. /\ Reports(todo'[k]) <=> ok /\ k \in Writers
          /\ Reports(todo'[k]) => \A w \in Words : HasReport(todo'[k], w)
      BY <2>4, <3>1, WritesFacts
    <3>3. CASE ok /\ k \in Writers
      BY <2>1, <2>2, <3>2, <3>3 DEF TasksInv, Kinds
    <3>4. CASE ~ (ok /\ k \in Writers)
      BY <2>1, <2>2, <3>2, <3>4 DEF TasksInv, Kinds
    <3>5. QED
      BY <3>3, <3>4
  <2>5. QED
    BY <2>3, <2>4
<1>4. ASSUME NEW k \in Kinds, Lock(k) PROVE ReportFits'
  <2>1. UNCHANGED <<todo, report, made, clash, number>>
    BY <1>4 DEF Lock, Moved
  <2>2. QED
    BY <2>1 DEF TasksInv
<1>5. ASSUME NEW k \in Kinds, Write(k) PROVE ReportFits'
  <2> DEFINE t == todo[k]
  <2>1. /\ t # <<>> /\ t \in Left(k) /\ t \in Seq(Pieces) /\ Head(t) \in Pieces
        /\ number[k] \in Nat
    BY <1>5, HeadAndTail DEF TasksInv, TodoFits, Write
  <2>2. /\ todo'[k] = Tail(t) /\ \A j \in Kinds \ {k} : todo'[j] = todo[j]
        /\ UNCHANGED <<made, number>>
    BY <1>5 DEF TasksInv, Write
  <2>3. clash' = (clash \/ (Reports(todo["replay"]) /\ Reports(todo["showcase"])))
    BY <1>5 DEF Write, Reporting, Reports
  <2>4. /\ Reports(t) <=> Head(t)[1] = "report" \/ Reports(Tail(t))
        /\ \A w \in Words : HasReport(t, w) <=> Head(t) = <<"report", w>> \/ HasReport(Tail(t), w)
    BY <2>1, ReportsInTail
  <2>5. CASE clash \/ \A j \in Writers : Reports(todo[j])
    BY <2>3, <2>5 DEF TasksInv
  <2>6. CASE Head(t)[1] = "result"
    <3>1. UNCHANGED report
      BY <1>5, <2>6 DEF Write
    <3>2. Reports(Tail(t)) <=> Reports(t)
      BY <2>4, <2>6
    <3>3. \A w \in Words : HasReport(Tail(t), w) <=> HasReport(t, w)
      BY <2>4, <2>6
    <3>4. \A j \in Writers : /\ Reports(todo'[j]) <=> Reports(todo[j])
                            /\ \A w \in Words : HasReport(todo'[j], w) <=> HasReport(todo[j], w)
      BY <2>2, <3>2, <3>3 DEF Kinds
    <3>5. QED
      BY <2>2, <2>3, <3>1, <3>4 DEF TasksInv
  <2>7. CASE Head(t)[1] = "report" /\ ~ clash /\ ~ \A j \in Writers : Reports(todo[j])
    <3> DEFINE word == Head(t)[2]
    <3>1. k \in Writers /\ Reports(t)
      BY <2>1, <2>4, <2>7, LeftFacts
    <3>2. /\ \A j \in Writers \ {k} : ~ Reports(todo[j])
          /\ made = number[k]
          /\ \A w \in Words : HasReport(t, w) \/ report[w] = made
      BY <2>7, <3>1 DEF TasksInv
    <3>3. word \in Words /\ Head(t) = <<"report", word>>
      BY <2>1, <2>7 DEF Pieces
    <3>4. report' = [report EXCEPT ![word] = number[k]]
      BY <1>5, <2>7 DEF Write
    <3> HIDE DEF word
    <3>5. \A w \in Words : HasReport(Tail(t), w) \/ report'[w] = made
      <4> SUFFICES ASSUME NEW w \in Words, ~ HasReport(Tail(t), w) PROVE report'[w] = made
        OBVIOUS
      <4>1. CASE w = word
        BY <3>2, <3>4, <4>1 DEF TasksInv
      <4>2. CASE w # word
        <5>1. Head(t) # <<"report", w>>
          BY <3>3, <4>2
        <5>2. report[w] = made
          BY <2>4, <3>2, <5>1
        <5>3. QED
          BY <3>4, <4>2, <5>2 DEF TasksInv
      <4>3. QED
        BY <4>1, <4>2
    <3>6. \A j \in Writers \ {k} : ~ Reports(todo'[j])
      BY <2>2, <3>2 DEF Kinds
    <3>7. CASE Reports(Tail(t))
      BY <2>2, <3>1, <3>2, <3>5, <3>6, <3>7
    <3>8. CASE ~ Reports(Tail(t))
      BY <2>2, <3>5, <3>6, <3>8, NothingReports
    <3>9. QED
      BY <3>7, <3>8
  <2>8. QED
    BY <2>1, <2>5, <2>6, <2>7 DEF Pieces
<1>6. ASSUME NEW k \in Kinds, Unlock(k) PROVE ReportFits'
  <2>1. UNCHANGED <<todo, report, made, clash, number>>
    BY <1>6 DEF Unlock, Unlocked, Written, Moved
  <2>2. QED
    BY <2>1 DEF TasksInv
<1>7. ASSUME NEW k \in Kinds, FlagOff(k) PROVE ReportFits'
  <2>1. UNCHANGED <<todo, report, made, clash, number>>
    BY <1>7 DEF FlagOff, Written, Moved
  <2>2. QED
    BY <2>1 DEF TasksInv
<1>8. CASE StopClicked
  <2>1. UNCHANGED <<todo, report, made, clash, number>>
    BY <1>8 DEF StopClicked, Goto, tasks
  <2>2. QED
    BY <2>1 DEF TasksInv
<1>9. CASE Close
  <2>1. UNCHANGED <<todo, report, made, clash, number>>
    BY <1>9 DEF Close, Goto, tasks
  <2>2. QED
    BY <2>1 DEF TasksInv
<1>10. ASSUME NEW k \in Kinds, Launch(k) PROVE ReportFits'
  <2>1. UNCHANGED <<todo, report, made, clash>> /\ \A j \in Kinds \ {k} : number'[j] = number[j]
    BY <1>10 DEF TasksInv, Launch
  <2>2. k \in Writers => ~ Reports(todo[k])
    <3>1. todo[k] = <<>>
      BY <1>10 DEF TasksInv, TodoFits, Launch, Ended
    <3>2. QED
      BY <3>1, NothingReports
  <2>3. QED
    BY <2>1, <2>2 DEF TasksInv, Kinds
<1>11. ASSUME NEW k \in Kinds, LockPanel(k) PROVE ReportFits'
  <2>1. UNCHANGED <<todo, report, made, clash, number>>
    BY <1>11 DEF LockPanel, Goto
  <2>2. QED
    BY <2>1 DEF TasksInv
<1>12. ASSUME NEW k \in Kinds, ReadWord(k) PROVE ReportFits'
  <2>1. UNCHANGED <<todo, report, made, clash, number>>
    BY <1>12 DEF ReadWord, tasks
  <2>2. QED
    BY <2>1 DEF TasksInv
<1>13. ASSUME NEW k \in Kinds, UnlockPanel(k) PROVE ReportFits'
  <2>1. UNCHANGED <<todo, report, made, clash, number>>
    BY <1>13 DEF UnlockPanel, Frame
  <2>2. QED
    BY <2>1 DEF TasksInv
<1>14. ASSUME NEW k \in Kinds, Waited(k) PROVE ReportFits'
  <2>1. UNCHANGED <<todo, report, made, clash, number>>
    BY <1>14 DEF Waited, Goto, After, tasks, Ended
  <2>2. QED
    BY <2>1 DEF TasksInv
<1>15. CASE StopReplay
  <2>1. UNCHANGED <<todo, report, made, clash, number>>
    BY <1>15 DEF StopReplay, Frame, tasks
  <2>2. QED
    BY <2>1 DEF TasksInv
<1>16. CASE Destroyed
  <2>1. UNCHANGED <<todo, report, made, clash, number>>
    BY <1>16 DEF Destroyed, Goto, tasks, Ended
  <2>2. QED
    BY <2>1 DEF TasksInv
<1>17. QED
    BY <1>1, <1>2, <1>3, <1>4, <1>5, <1>6, <1>7, <1>8, <1>9, <1>10, <1>11, <1>12, <1>13,
       <1>14, <1>15, <1>16
       DEF TasksNext, UiStep, TaskStep

(* What is being read is not being written: the reader has the mutex.      *)
LEMMA ReadKept == ASSUME TasksInv, TasksNext PROVE ReadSoFar'
<1> USE DEF TasksTyped, TodoFits, ReadSoFar, With, At, Places
<1>1. ASSUME NEW k \in Kinds, Click(k) PROVE ReadSoFar'
    BY <1>1 DEF TasksInv, Click, Goto, tasks
<1>2. ASSUME NEW k \in Kinds, DrawPanel(k) PROVE ReadSoFar'
    BY <1>2 DEF TasksInv, DrawPanel, Goto, tasks
<1>3. ASSUME NEW k \in Kinds, NEW ok \in BOOLEAN, Worked(k, ok) PROVE ReadSoFar'
    BY <1>3 DEF TasksInv, Worked, Moved
<1>4. ASSUME NEW k \in Kinds, Lock(k) PROVE ReadSoFar'
    BY <1>4 DEF TasksInv, Lock, Moved
<1>5. ASSUME NEW k \in Kinds, Write(k) PROVE ReadSoFar'
  <2>1. UNCHANGED <<ui, got>>
    BY <1>5 DEF Write
  <2>2. \A j \in Panels : j # k => result'[j] = result[j]
    BY <1>5 DEF TasksInv, Write
  <2>3. At("read") => ui.kind # k
    <3>1. At("read") => With("read", ui.kind) /\ ui.kind \in Kinds
      BY DEF TasksInv, Panels
    <3>2. QED
      BY <1>5, <3>1 DEF TasksInv, ReadingExcludes, Write
  <2>4. QED
    BY <2>1, <2>2, <2>3 DEF TasksInv
<1>6. ASSUME NEW k \in Kinds, Unlock(k) PROVE ReadSoFar'
    BY <1>6 DEF TasksInv, Unlock, Unlocked, Written, Moved
<1>7. ASSUME NEW k \in Kinds, FlagOff(k) PROVE ReadSoFar'
    BY <1>7 DEF TasksInv, FlagOff, Written, Moved
<1>8. CASE StopClicked
    BY <1>8 DEF TasksInv, StopClicked, Goto, tasks
<1>9. CASE Close
    BY <1>9 DEF TasksInv, Close, Goto, tasks
<1>10. ASSUME NEW k \in Kinds, Launch(k) PROVE ReadSoFar'
    BY <1>10 DEF TasksInv, Launch, Ended, Frame
<1>11. ASSUME NEW k \in Kinds, LockPanel(k) PROVE ReadSoFar'
    BY <1>11 DEF TasksInv, LockPanel, Goto
<1>12. ASSUME NEW k \in Kinds, ReadWord(k) PROVE ReadSoFar'
  <2>1. /\ ui.kind = k /\ UNCHANGED <<ui, result>>
        /\ got' = Append(got, result[k][Len(got) + 1]) /\ At("read")
        /\ \A i \in 1 .. Len(got) : got[i] = result[k][i]
    BY <1>12 DEF TasksInv, ReadWord, tasks
  <2>2. got \in Seq(Nat)
    BY DEF TasksInv
  <2>3. Len(got') = Len(got) + 1 /\ \A i \in 1 .. Len(got) + 1 : got'[i] = result[k][i]
    BY <2>1, <2>2
  <2>4. QED
    BY <2>1, <2>3
<1>13. ASSUME NEW k \in Kinds, UnlockPanel(k) PROVE ReadSoFar'
    BY <1>13 DEF TasksInv, UnlockPanel, Frame
<1>14. ASSUME NEW k \in Kinds, Waited(k) PROVE ReadSoFar'
    BY <1>14 DEF TasksInv, Waited, Goto, After, tasks, Ended
<1>15. CASE StopReplay
    BY <1>15 DEF TasksInv, StopReplay, Frame, tasks
<1>16. CASE Destroyed
    BY <1>16 DEF TasksInv, Destroyed, Goto, tasks, Ended
<1>17. QED
    BY <1>1, <1>2, <1>3, <1>4, <1>5, <1>6, <1>7, <1>8, <1>9, <1>10, <1>11, <1>12, <1>13,
       <1>14, <1>15, <1>16
       DEF TasksNext, UiStep, TaskStep

(* A flag goes off when its task has nothing left to write.                *)
LEMMA FlagsKept == ASSUME TasksInv, TasksNext PROVE NotRunningIsDone'
<1> USE DEF TasksTyped, TodoFits, NotRunningIsDone, Flagged, Ended, With, At
<1>1. ASSUME NEW k \in Kinds, Click(k) PROVE NotRunningIsDone'
    BY <1>1 DEF TasksInv, Click, Goto, tasks
<1>2. ASSUME NEW k \in Kinds, DrawPanel(k) PROVE NotRunningIsDone'
    BY <1>2 DEF TasksInv, DrawPanel, Goto, tasks
<1>3. ASSUME NEW k \in Kinds, NEW ok \in BOOLEAN, Worked(k, ok) PROVE NotRunningIsDone'
  <2>1. /\ UNCHANGED running /\ task[k] = "working"
        /\ \A j \in Kinds \ {k} : task'[j] = task[j] /\ todo'[j] = todo[j]
    BY <1>3 DEF TasksInv, Worked, Moved
  <2>2. k \in Flagged => running[k]
    BY <2>1 DEF TasksInv
  <2>3. QED
    BY <2>1, <2>2 DEF TasksInv
<1>4. ASSUME NEW k \in Kinds, Lock(k) PROVE NotRunningIsDone'
    BY <1>4 DEF TasksInv, Lock, Moved
<1>5. ASSUME NEW k \in Kinds, Write(k) PROVE NotRunningIsDone'
    BY <1>5 DEF TasksInv, Write
<1>6. ASSUME NEW k \in Kinds, Unlock(k) PROVE NotRunningIsDone'
    BY <1>6 DEF TasksInv, Unlock, Unlocked, Written, Moved
<1>7. ASSUME NEW k \in Kinds, FlagOff(k) PROVE NotRunningIsDone'
    BY <1>7 DEF TasksInv, FlagOff, Written, Moved
<1>8. CASE StopClicked
    BY <1>8 DEF TasksInv, StopClicked, Goto, tasks
<1>9. CASE Close
    BY <1>9 DEF TasksInv, Close, Goto, tasks
<1>10. ASSUME NEW k \in Kinds, Launch(k) PROVE NotRunningIsDone'
    BY <1>10 DEF TasksInv, Launch, Ended, Frame
<1>11. ASSUME NEW k \in Kinds, LockPanel(k) PROVE NotRunningIsDone'
    BY <1>11 DEF TasksInv, LockPanel, Goto
<1>12. ASSUME NEW k \in Kinds, ReadWord(k) PROVE NotRunningIsDone'
    BY <1>12 DEF TasksInv, ReadWord, tasks
<1>13. ASSUME NEW k \in Kinds, UnlockPanel(k) PROVE NotRunningIsDone'
    BY <1>13 DEF TasksInv, UnlockPanel, Frame
<1>14. ASSUME NEW k \in Kinds, Waited(k) PROVE NotRunningIsDone'
    BY <1>14 DEF TasksInv, Waited, Goto, After, tasks, Ended
<1>15. CASE StopReplay
    BY <1>15 DEF TasksInv, StopReplay, Frame, tasks
<1>16. CASE Destroyed
    BY <1>16 DEF TasksInv, Destroyed, Goto, tasks, Ended
<1>17. QED
    BY <1>1, <1>2, <1>3, <1>4, <1>5, <1>6, <1>7, <1>8, <1>9, <1>10, <1>11, <1>12, <1>13,
       <1>14, <1>15, <1>16
       DEF TasksNext, UiStep, TaskStep

(* A task that has ended stays ended: only a frame starts one.             *)
LEMMA SeenKept == ASSUME TasksInv, TasksNext PROVE SeenToEnd'
<1> USE DEF TasksTyped, SeenToEnd, Places, Flagged, Ended, With, At
<1>1. ASSUME NEW k \in Kinds, Click(k) PROVE SeenToEnd'
    BY <1>1 DEF TasksInv, Click, Goto, tasks
<1>2. ASSUME NEW k \in Kinds, DrawPanel(k) PROVE SeenToEnd'
    BY <1>2 DEF TasksInv, DrawPanel, Goto, tasks
<1>3. ASSUME NEW k \in Kinds, NEW ok \in BOOLEAN, Worked(k, ok) PROVE SeenToEnd'
  <2>1. /\ UNCHANGED ui /\ task[k] \notin {"none", "over"}
        /\ \A j \in Kinds \ {k} : task'[j] = task[j]
    BY <1>3 DEF TasksInv, Worked, Moved
  <2>2. \A j \in Kinds : Ended(j) => Ended(j)'
    BY <2>1
  <2>3. QED
    BY <2>1, <2>2 DEF TasksInv, Kinds
<1>4. ASSUME NEW k \in Kinds, Lock(k) PROVE SeenToEnd'
    BY <1>4 DEF TasksInv, Lock, Moved
<1>5. ASSUME NEW k \in Kinds, Write(k) PROVE SeenToEnd'
    BY <1>5 DEF TasksInv, Write
<1>6. ASSUME NEW k \in Kinds, Unlock(k) PROVE SeenToEnd'
  <2>1. /\ UNCHANGED ui /\ task[k] \notin {"none", "over"}
        /\ \A j \in Kinds \ {k} : task'[j] = task[j]
    BY <1>6 DEF TasksInv, Unlock, Unlocked, Written, Moved
  <2>2. \A j \in Kinds : Ended(j) => Ended(j)'
    BY <2>1
  <2>3. QED
    BY <2>1, <2>2 DEF TasksInv, Kinds
<1>7. ASSUME NEW k \in Kinds, FlagOff(k) PROVE SeenToEnd'
  <2>1. /\ UNCHANGED ui /\ task[k] \notin {"none", "over"}
        /\ \A j \in Kinds \ {k} : task'[j] = task[j]
    BY <1>7 DEF TasksInv, FlagOff, Written, Moved
  <2>2. \A j \in Kinds : Ended(j) => Ended(j)'
    BY <2>1
  <2>3. QED
    BY <2>1, <2>2 DEF TasksInv, Kinds
<1>8. CASE StopClicked
    BY <1>8 DEF TasksInv, StopClicked, Goto, tasks
<1>9. CASE Close
    BY <1>9 DEF TasksInv, Close, Goto, tasks
<1>10. ASSUME NEW k \in Kinds, Launch(k) PROVE SeenToEnd'
    BY <1>10 DEF TasksInv, Launch, Ended, Frame
<1>11. ASSUME NEW k \in Kinds, LockPanel(k) PROVE SeenToEnd'
    BY <1>11 DEF TasksInv, LockPanel, Goto
<1>12. ASSUME NEW k \in Kinds, ReadWord(k) PROVE SeenToEnd'
    BY <1>12 DEF TasksInv, ReadWord, tasks
<1>13. ASSUME NEW k \in Kinds, UnlockPanel(k) PROVE SeenToEnd'
    BY <1>13 DEF TasksInv, UnlockPanel, Frame
<1>14. ASSUME NEW k \in Kinds, Waited(k) PROVE SeenToEnd'
  <2>1. /\ ui.at = "close" /\ ui.kind = k /\ Ended(k) /\ UNCHANGED task
        /\ ui' = [at |-> IF After(k) = "none" THEN "destroyed" ELSE "close",
                   kind |-> IF After(k) = "none" THEN "tape" ELSE After(k)]
    BY <1>14 DEF TasksInv, Waited, Goto, tasks
  <2>2. k \in {"replay", "benchmark", "showcase"}
    BY <2>1 DEF TasksInv, Kinds
  <2>3. CASE k = "replay"
    BY <2>1, <2>3, AfterIs DEF TasksInv
  <2>4. CASE k = "benchmark"
    BY <2>1, <2>4, AfterIs DEF TasksInv
  <2>5. CASE k = "showcase"
    BY <2>1, <2>5, AfterIs DEF TasksInv, Kinds
  <2>6. QED
    BY <2>2, <2>3, <2>4, <2>5
<1>15. CASE StopReplay
    BY <1>15 DEF TasksInv, StopReplay, Frame, tasks
<1>16. CASE Destroyed
    BY <1>16 DEF TasksInv, Destroyed, Goto, tasks, Ended
<1>17. QED
    BY <1>1, <1>2, <1>3, <1>4, <1>5, <1>6, <1>7, <1>8, <1>9, <1>10, <1>11, <1>12, <1>13,
       <1>14, <1>15, <1>16
       DEF TasksNext, UiStep, TaskStep

-----------------------------------------------------------------------------
(* The theorems.                                                           *)

LEMMA TasksInvHolds == TasksSpec => []TasksInv
<1>1. TasksInit => TasksInv
  <2> SUFFICES ASSUME TasksInit PROVE TasksInv
    OBVIOUS
  <2> USE DEF TasksInit, Frame
  <2>1. TasksTyped
    <3>1. /\ <<>> \in Seq(Pieces) /\ <<>> \in Seq(Nat) /\ Len(<<>>) = 0
      OBVIOUS
    <3>2. todo \in [Kinds -> Seq(Pieces)] /\ got \in Seq(Nat) /\ Len(got) <= 2
      BY <3>1
    <3>3. QED
      BY <3>2 DEF TasksTyped, Places
  <2>2. Owned /\ ReadingExcludes
    BY DEF Owned, ReadingExcludes, With
  <2>3. TodoFits /\ ResultsWhole
    BY EmptyLeft DEF TodoFits, ResultsWhole, Halfway, Panels, Words
  <2>4. ReadSoFar /\ SeenToEnd
    BY DEF ReadSoFar, SeenToEnd, At
  <2>5. ReportFits
    BY NothingReports DEF ReportFits, Writers, Kinds
  <2>6. NotRunningIsDone
    BY DEF NotRunningIsDone, Ended, Flagged
  <2>7. QED
    BY <2>1, <2>2, <2>3, <2>4, <2>5, <2>6 DEF TasksInv
<1>2. TasksInv /\ [TasksNext]_tasksVars => TasksInv'
  <2>1. ASSUME TasksInv, TasksNext PROVE TasksInv'
    BY <2>1, TypedKept, OwnedKept, TodoKept, ResultsKept, ReportKept, ReadKept, FlagsKept,
       SeenKept DEF TasksInv
  <2>2. ASSUME TasksInv, UNCHANGED tasksVars PROVE TasksInv'
    BY <2>2 DEF TasksInv, TasksTyped, Owned, ReadingExcludes, TodoFits, Halfway, ResultsWhole, ReadSoFar,
       ReportFits, NotRunningIsDone, SeenToEnd, Ended, At, With, tasksVars, tasks
  <2>3. QED
    BY <2>1, <2>2
<1>3. QED
    BY <1>1, <1>2, PTL DEF TasksSpec

(* A mutex is locked by who is inside; a panel shows the result of one run,*)
(* never half of one and half of the next; and the report kept is the      *)
(* whole of the last session's, unless a replay and a showcase had it to   *)
(* write at the same time: for any number of starts                        *)
(* (workstation.cpp:567, 605, 970).                                        *)
THEOREM ResultsAreWhole == TasksSpec => []ResultsAreOfOneRun
<1>1. TasksInv => ResultsAreOfOneRun
  <2> SUFFICES ASSUME TasksInv PROVE ResultsAreOfOneRun
    OBVIOUS
  <2>1. TasksTypeOK
    <3>1. ui.at \in {"frame", "start", "stop", "lock", "read", "close", "destroyed", "over"}
      BY DEF TasksInv, TasksTyped, Places
    <3>2. QED
      BY <3>1 DEF TasksInv, TasksTyped, Owned, TasksTypeOK
  <2>2. PanelsShowOneRun
    <3> SUFFICES ASSUME At("read"), Len(got) = 2 PROVE got[1] = got[2]
      BY DEF PanelsShowOneRun
    <3>1. ui.kind \in Panels /\ With("read", ui.kind)
      BY DEF TasksInv, TasksTyped, Places, At, With
    <3>2. task[ui.kind] # "write"
      BY <3>1 DEF TasksInv, ReadingExcludes, Panels
    <3>3. ~ Halfway(ui.kind)
      BY <3>1, <3>2 DEF TasksInv, TodoFits, Halfway, Panels
    <3>4. result[ui.kind][1] = result[ui.kind][2]
      BY <3>1, <3>3 DEF TasksInv, ResultsWhole
    <3>5. got[1] = result[ui.kind][1] /\ got[2] = result[ui.kind][2]
      BY DEF TasksInv, ReadSoFar
    <3>6. QED
      BY <3>4, <3>5
  <2>3. ReportIsOfOneSession
    <3> SUFFICES ASSUME \A k \in Writers : task[k] \notin {"lock", "write"}, ~ clash
                 PROVE  report[1] = report[2] /\ report[1] = made
      BY DEF ReportIsOfOneSession, Writers
    <3>1. \A k \in Writers : todo[k] = <<>>
      BY DEF TasksInv, TodoFits, Writers, Kinds
    <3>2. \A k \in Writers : ~ Reports(todo[k])
      BY <3>1, NothingReports
    <3>3. QED
      BY <3>2 DEF TasksInv, ReportFits, Writers, Words
  <2>4. QED
    BY <2>1, <2>2, <2>3 DEF ResultsAreOfOneRun
<1>2. QED
    BY <1>1, TasksInvHolds, PTL

(* Who takes a task to have ended, by its flag or because the desk is gone,*)
(* is right, for any number of starts (workstation.cpp:269, 1013).         *)
THEOREM EndedIsTrue == TasksSpec => []SaidToBeOverIsOver
<1>1. TasksInv => SaidToBeOverIsOver
    BY DEF TasksInv, SaidToBeOverIsOver, SeenToEnd, NoneOutlivesTheDesk, Flagged
<1>2. QED
    BY <1>1, TasksInvHolds, PTL
=============================================================================
