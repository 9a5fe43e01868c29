------------------------------ MODULE BookProofs ------------------------------
(***************************************************************************)
(* Theorems about the order book, for any set of ids, prices and           *)
(* quantities and any size of the two pools.                               *)
(*                                                                         *)
(* The price-time book first: it is sound after every sequence of calls.   *)
(* BookLemmas has the argument for each operation; here it becomes the     *)
(* inductive invariant Inv and what follows from it.                       *)
(*                                                                         *)
(* Then the linked book. Its inductive invariant is Agrees(m, b, Null,     *)
(* Null): there are sequences of cells, one for each level and one for     *)
(* each side, that the links, heads, tails, counts and totals of the       *)
(* memory spell out; the indexes and the pools share out the cells; and    *)
(* the orders of the index and the ids of the lists are those of the       *)
(* book b. In the middle of an operation the memory agrees with a book     *)
(* but for the order in hand, and but for one level that may be empty:     *)
(* each helper of order_book.hpp is shown to lead from one such memory to  *)
(* another, and each operation of the class is put together from them.     *)
(***************************************************************************)
EXTENDS Books, BookLemmas

Inv == SoundBook(book) /\ ok \in BOOLEAN

LEMMA InitInv == Init => Inv
<1> SUFFICES ASSUME Init PROVE Inv
    OBVIOUS
<1>1. book.orders = [id \in Ids |-> NoOrder] /\ book.queue = [k \in LevelKeys |-> <<>>]
    BY DEF Init, EmptyBook
<1>2. book \in Book
    BY DEF Init, EmptyBook, Book
<1>3. Resting(book) = {} /\ Levels(book) = {}
    BY <1>1 DEF Resting, Levels
<1>4. \A k \in LevelKeys : Len(book.queue[k]) = 0
    BY <1>1
<1>5. QueuesHold(book, Resting(book))
    BY <1>3, <1>4 DEF QueuesHold
<1>6. FitsPools(book)
    BY <1>3, FS_EmptySet, BookAssumption DEF FitsPools
<1>7. QED
    BY <1>2, <1>5, <1>6 DEF Inv, SoundBook, Init

(* What one call does to a sound book.                                     *)
LEMMA StepFacts ==
    ASSUME Inv, Next
    PROVE  /\ Inv'
           /\ ok' => NoOvertaking(book, book')
           /\ ~ ok' => book'.orders = book.orders
<1>1. ASSUME NEW id \in Ids, NEW s \in Side, NEW p \in Prices, NEW qty \in Quantities,
             Add(id, s, p, qty)
      PROVE  /\ Inv'
             /\ ok' => NoOvertaking(book, book')
             /\ ~ ok' => book'.orders = book.orders
  <2> DEFINE r == AddOrder(book, id, s, p, qty)
  <2>1. qty \in Int /\ SoundBook(book) /\ book' = r.book /\ ok' = r.ok
    BY <1>1, BookAssumption DEF Inv, Add, Returns
  <2>2. /\ SoundBook(r.book)
        /\ r.ok \in BOOLEAN
        /\ NoOvertaking(book, r.book)
        /\ ~ r.ok => r.book = book
    BY <2>1, AddOrderFacts
  <2>3. QED
    BY <2>1, <2>2 DEF Inv
<1>2. ASSUME NEW id \in Ids, NEW p \in Prices, NEW qty \in Quantities, Modify(id, p, qty)
      PROVE  /\ Inv'
             /\ ok' => NoOvertaking(book, book')
             /\ ~ ok' => book'.orders = book.orders
  <2> DEFINE r == ModifyOrder(book, id, p, qty)
  <2>1. qty \in Int /\ SoundBook(book) /\ book' = r.book /\ ok' = r.ok
    BY <1>2, BookAssumption DEF Inv, Modify, Returns
  <2>2. /\ SoundBook(r.book)
        /\ r.ok \in BOOLEAN
        /\ r.ok => NoOvertaking(book, r.book)
        /\ ~ r.ok => r.book.orders = book.orders
    BY <2>1, ModifyOrderFacts
  <2>3. QED
    BY <2>1, <2>2 DEF Inv
<1>3. ASSUME NEW id \in Ids, Cancel(id)
      PROVE  /\ Inv'
             /\ ok' => NoOvertaking(book, book')
             /\ ~ ok' => book'.orders = book.orders
  <2> DEFINE r == CancelOrder(book, id)
  <2>1. SoundBook(book) /\ book' = r.book /\ ok' = r.ok
    BY <1>3 DEF Inv, Cancel, Returns
  <2>2. /\ SoundBook(r.book)
        /\ r.ok \in BOOLEAN
        /\ NoOvertaking(book, r.book)
        /\ ~ r.ok => r.book = book
    BY <2>1, CancelOrderFacts
  <2>3. QED
    BY <2>1, <2>2 DEF Inv
<1>4. ASSUME NEW id \in Ids, NEW fill \in Quantities, Execute(id, fill)
      PROVE  /\ Inv'
             /\ ok' => NoOvertaking(book, book')
             /\ ~ ok' => book'.orders = book.orders
  <2> DEFINE r == ExecuteOrder(book, id, fill)
  <2>1. fill \in Int /\ SoundBook(book) /\ book' = r.book /\ ok' = r.ok
    BY <1>4, BookAssumption DEF Inv, Execute, Returns
  <2>2. /\ SoundBook(r.book)
        /\ r.ok \in BOOLEAN
        /\ NoOvertaking(book, r.book)
        /\ ~ r.ok => r.book = book
    BY <2>1, ExecuteOrderFacts
  <2>3. QED
    BY <2>1, <2>2 DEF Inv
<1>5. QED
    BY <1>1, <1>2, <1>3, <1>4 DEF Next

LEMMA StutterFacts ==
    ASSUME Inv, UNCHANGED vars
    PROVE  /\ Inv'
           /\ ok' => NoOvertaking(book, book')
           /\ ~ ok' => book'.orders = book.orders
<1>1. book' = book /\ ok' = ok
    BY DEF vars
<1>2. NoOvertaking(book, book)
    BY SomeoneIsAhead DEF Inv, SoundBook
<1>3. QED
    BY <1>1, <1>2 DEF Inv

THEOREM InvHolds == Spec => []Inv
<1>1. Inv /\ [Next]_vars => Inv'
    BY StepFacts, StutterFacts
<1>2. QED
    BY InitInv, <1>1, PTL DEF Spec

(* Every value the book takes is a well-typed one.                         *)
THEOREM TypeCorrect == Spec => []TypeOK
<1>1. Inv => TypeOK
    BY DEF Inv, SoundBook, TypeOK
<1>2. QED
    BY InvHolds, <1>1, PTL

(* The index of orders, the fields of an order and the queues of the       *)
(* levels agree after every call (add_order, modify_order, cancel_order    *)
(* and execute_order each update them one by one).                         *)
THEOREM QueuesAlwaysMatchOrders == Spec => []QueuesMatchOrders
<1>1. Inv => QueuesMatchOrders
    BY DEF Inv, SoundBook, QueuesMatchOrders
<1>2. QED
    BY InvHolds, <1>1, PTL

(* The pools are never overdrawn, by a failed modify_order neither.        *)
THEOREM AlwaysWithinPools == Spec => []WithinPools
<1>1. Inv => WithinPools
    BY DEF Inv, SoundBook, WithinPools
<1>2. QED
    BY InvHolds, <1>1, PTL

(* A call that succeeds keeps time priority at every level.                *)
THEOREM TimePriority == Spec => FifoWhenAccepted
<1>1. Inv /\ [Next]_vars => [ok' => NoOvertaking(book, book')]_vars
    BY StepFacts, StutterFacts
<1>2. QED
    BY InvHolds, <1>1, PTL DEF Spec, FifoWhenAccepted

(* A call that fails changes no order's price or quantity.                 *)
THEOREM RejectionIsHarmless == Spec => RejectedKeepsOrders
<1>1. Inv /\ [Next]_vars => [~ ok' => book'.orders = book.orders]_vars
    BY StepFacts, StutterFacts
<1>2. QED
    BY InvHolds, <1>1, PTL DEF Spec, RejectedKeepsOrders

-----------------------------------------------------------------------------
(* The fields of a memory, and what its helpers write.                     *)

(* The null pointer is no cell of a pool.                                  *)
LEMMA NullIsNoCell ==
    /\ Null \notin OrderCells /\ Null \notin LevelCells
BY DEF Null, OrderCells, LevelCells

(* What a memory is made of.                                               *)
LEMMA MemoryFields ==
    ASSUME NEW mem \in Memory
    PROVE  /\ mem.order \in [OrderCells -> OrderCell]
           /\ mem.level \in [LevelCells -> LevelCell]
           /\ mem.order_pool \in Seq(OrderCells)
           /\ mem.level_pool \in Seq(LevelCells)
           /\ mem.order_index \in [Ids -> OrderCells \union {Null}]
           /\ mem.level_index \in [LevelKeys -> LevelCells \union {Null}]
           /\ mem.best \in [Side -> LevelCells \union {Null}]
BY DEF Memory

(* The memory with other cells of orders and another level l.              *)
MemoryWith(mem, O, l, v) == [mem EXCEPT !.order = O, !.level[l] = v]

(* The fields of that memory.                                              *)
LEMMA MemoryWithFields ==
    ASSUME NEW mem \in Memory, NEW O \in [OrderCells -> OrderCell],
           NEW l \in LevelCells, NEW v \in LevelCell,
           NEW r, r = MemoryWith(mem, O, l, v)
    PROVE  /\ r \in Memory
           /\ r.order = O
           /\ r.level = [mem.level EXCEPT ![l] = v]
           /\ r.order_pool = mem.order_pool /\ r.level_pool = mem.level_pool
           /\ r.order_index = mem.order_index /\ r.level_index = mem.level_index
           /\ r.best = mem.best
<1>1. [mem.level EXCEPT ![l] = v] \in [LevelCells -> LevelCell]
    BY MemoryFields
<1> HIDE DEF OrderCells, LevelCells
<1>2. QED
    BY <1>1 DEF Memory, MemoryWith

(* A level with another list and other totals.                             *)
LevelWith(v, h, t, q, n) ==
    [v EXCEPT !.head = h, !.tail = t, !.total_qty = q, !.order_count = n]

(* The fields of that level.                                               *)
LEMMA LevelWithFields ==
    ASSUME NEW v \in LevelCell, NEW h \in OrderCells \union {Null},
           NEW t \in OrderCells \union {Null}, NEW q \in Int, NEW n \in Nat,
           NEW w, w = LevelWith(v, h, t, q, n)
    PROVE  /\ w \in LevelCell
           /\ w.price = v.price /\ w.side = v.side /\ w.prev = v.prev /\ w.next = v.next
           /\ w.tail = t /\ w.head = h /\ w.total_qty = q /\ w.order_count = n
BY DEF LevelCell, LevelWith

(* What push_back writes, and what it leaves alone.                        *)
LEMMA PushBackFields ==
    ASSUME NEW mem \in Memory, NEW l \in LevelCells, NEW c \in OrderCells,
           NEW t, t = mem.level[l].tail, NEW r, r = PushBack(mem, l, c)
    PROVE  /\ r \in Memory
           /\ r.order_pool = mem.order_pool /\ r.level_pool = mem.level_pool
           /\ r.order_index = mem.order_index /\ r.level_index = mem.level_index
           /\ r.best = mem.best
           /\ \A x \in OrderCells :
                 /\ r.order[x].id = mem.order[x].id /\ r.order[x].price = mem.order[x].price
                 /\ r.order[x].qty = mem.order[x].qty /\ r.order[x].side = mem.order[x].side
                 /\ r.order[x].level = IF x = c THEN l ELSE mem.order[x].level
                 /\ r.order[x].prev = IF x = c THEN t ELSE mem.order[x].prev
                 /\ r.order[x].next = IF x = c THEN Null ELSE IF x = t THEN c ELSE mem.order[x].next
           /\ \A x \in LevelCells :
                 /\ r.level[x].price = mem.level[x].price /\ r.level[x].side = mem.level[x].side
                 /\ r.level[x].prev = mem.level[x].prev /\ r.level[x].next = mem.level[x].next
                 /\ x # l => r.level[x] = mem.level[x]
           /\ r.level[l].tail = c
           /\ r.level[l].head = IF t = Null THEN c ELSE mem.level[l].head
           /\ r.level[l].total_qty = mem.level[l].total_qty + mem.order[c].qty
           /\ r.level[l].order_count = mem.level[l].order_count + 1
<1> DEFINE v == mem.level[l]
           onto(x) == IF x = c THEN [mem.order[x] EXCEPT !.level = l, !.prev = t, !.next = Null]
                      ELSE IF x = t THEN [mem.order[x] EXCEPT !.next = c]
                      ELSE mem.order[x]
           O == [x \in OrderCells |-> onto(x)]
           h == IF t = Null THEN c ELSE v.head
           sum == v.total_qty + mem.order[c].qty
           n == v.order_count + 1
           w == LevelWith(v, h, c, sum, n)
<1>1. v \in LevelCell /\ \A x \in OrderCells : mem.order[x] \in OrderCell
    BY MemoryFields
<1>2. t \in OrderCells \union {Null} /\ mem.order[c].qty \in Int /\ v.total_qty \in Int
      /\ v.order_count \in Nat /\ v.head \in OrderCells \union {Null}
    BY <1>1 DEF OrderCell, LevelCell
<1>3. ASSUME NEW x \in OrderCells
      PROVE  /\ onto(x) \in OrderCell
             /\ onto(x).id = mem.order[x].id /\ onto(x).price = mem.order[x].price
             /\ onto(x).qty = mem.order[x].qty /\ onto(x).side = mem.order[x].side
             /\ onto(x).level = IF x = c THEN l ELSE mem.order[x].level
             /\ onto(x).prev = IF x = c THEN t ELSE mem.order[x].prev
             /\ onto(x).next = IF x = c THEN Null ELSE IF x = t THEN c ELSE mem.order[x].next
  <2>1. mem.order[x] \in OrderCell
    BY <1>1
  <2>2. QED
    BY <1>2, <2>1 DEF OrderCell
<1>4. /\ w \in LevelCell
      /\ w.price = v.price /\ w.side = v.side /\ w.prev = v.prev /\ w.next = v.next
      /\ w.tail = c /\ w.head = h /\ w.total_qty = sum /\ w.order_count = n
  <2>1. h \in OrderCells \union {Null} /\ c \in OrderCells \union {Null}
        /\ sum \in Int /\ n \in Nat
    BY <1>2
  <2> HIDE DEF h, sum, n, v
  <2>2. QED
    BY <1>1, <2>1, LevelWithFields
<1>5. O \in [OrderCells -> OrderCell] /\ \A x \in OrderCells : O[x] = onto(x)
  <2> HIDE DEF onto
  <2>1. QED
    BY <1>3
<1>6. r = MemoryWith(mem, O, l, w)
    BY DEF PushBack, MemoryWith, LevelWith
<1> HIDE DEF O, w, onto
<1>7. /\ r \in Memory /\ r.order = O /\ r.level = [mem.level EXCEPT ![l] = w]
      /\ r.order_pool = mem.order_pool /\ r.level_pool = mem.level_pool
      /\ r.order_index = mem.order_index /\ r.level_index = mem.level_index
      /\ r.best = mem.best
  <2>1. w \in LevelCell /\ O \in [OrderCells -> OrderCell]
    BY <1>4, <1>5
  <2>2. QED
    BY <1>6, <2>1, MemoryWithFields
<1>8. r.level[l] = w /\ \A x \in LevelCells : x # l => r.level[x] = mem.level[x]
    BY <1>7, MemoryFields
<1>9. \A x \in LevelCells :
         /\ r.level[x].price = mem.level[x].price /\ r.level[x].side = mem.level[x].side
         /\ r.level[x].prev = mem.level[x].prev /\ r.level[x].next = mem.level[x].next
    BY <1>4, <1>8
<1>10. QED
    BY <1>3, <1>4, <1>5, <1>7, <1>8, <1>9

(* What unlink writes, and what it leaves alone.                           *)
LEMMA UnlinkFields ==
    ASSUME NEW mem \in Memory, NEW l \in LevelCells, NEW c \in OrderCells,
           mem.level[l].order_count > 0, NEW o, o = mem.order[c],
           NEW r, r = Unlink(mem, l, c)
    PROVE  /\ r \in Memory
           /\ r.order_pool = mem.order_pool /\ r.level_pool = mem.level_pool
           /\ r.order_index = mem.order_index /\ r.level_index = mem.level_index
           /\ r.best = mem.best
           /\ \A x \in OrderCells :
                 /\ r.order[x].id = mem.order[x].id /\ r.order[x].price = mem.order[x].price
                 /\ r.order[x].qty = mem.order[x].qty /\ r.order[x].side = mem.order[x].side
                 /\ r.order[x].level = IF x = c THEN Null ELSE mem.order[x].level
                 /\ x = c => r.order[x].prev = Null /\ r.order[x].next = Null
                 /\ x # c /\ x # o.prev => r.order[x].next = mem.order[x].next
                 /\ x # c /\ x = o.prev => r.order[x].next = o.next
                 /\ x # c /\ x # o.prev /\ x = o.next => r.order[x].prev = o.prev
                 /\ x # c /\ (x = o.prev \/ x # o.next) => r.order[x].prev = mem.order[x].prev
           /\ \A x \in LevelCells :
                 /\ r.level[x].price = mem.level[x].price /\ r.level[x].side = mem.level[x].side
                 /\ r.level[x].prev = mem.level[x].prev /\ r.level[x].next = mem.level[x].next
                 /\ x # l => r.level[x] = mem.level[x]
           /\ r.level[l].tail = IF o.next = Null THEN o.prev ELSE mem.level[l].tail
           /\ r.level[l].head = IF o.prev = Null THEN o.next ELSE mem.level[l].head
           /\ r.level[l].total_qty = mem.level[l].total_qty - o.qty
           /\ r.level[l].order_count = mem.level[l].order_count - 1
<1> DEFINE v == mem.level[l]
           past(x) == IF x = c THEN [mem.order[x] EXCEPT !.level = Null, !.prev = Null, !.next = Null]
                      ELSE IF x = o.prev THEN [mem.order[x] EXCEPT !.next = o.next]
                      ELSE IF x = o.next THEN [mem.order[x] EXCEPT !.prev = o.prev]
                      ELSE mem.order[x]
           O == [x \in OrderCells |-> past(x)]
           h == IF o.prev = Null THEN o.next ELSE v.head
           t == IF o.next = Null THEN o.prev ELSE v.tail
           sum == v.total_qty - o.qty
           n == v.order_count - 1
           w == LevelWith(v, h, t, sum, n)
<1>1. v \in LevelCell /\ \A x \in OrderCells : mem.order[x] \in OrderCell
    BY MemoryFields
<1>2. /\ o.prev \in OrderCells \union {Null} /\ o.next \in OrderCells \union {Null}
      /\ o.qty \in Int /\ v.total_qty \in Int /\ v.order_count \in Nat
      /\ v.head \in OrderCells \union {Null} /\ v.tail \in OrderCells \union {Null}
    BY <1>1 DEF OrderCell, LevelCell
<1>3. ASSUME NEW x \in OrderCells
      PROVE  /\ past(x) \in OrderCell
             /\ past(x).id = mem.order[x].id /\ past(x).price = mem.order[x].price
             /\ past(x).qty = mem.order[x].qty /\ past(x).side = mem.order[x].side
             /\ past(x).level = IF x = c THEN Null ELSE mem.order[x].level
             /\ x = c => past(x).prev = Null /\ past(x).next = Null
             /\ x # c /\ x # o.prev => past(x).next = mem.order[x].next
             /\ x # c /\ x = o.prev => past(x).next = o.next
             /\ x # c /\ x # o.prev /\ x = o.next => past(x).prev = o.prev
             /\ x # c /\ (x = o.prev \/ x # o.next) => past(x).prev = mem.order[x].prev
  <2>1. mem.order[x] \in OrderCell
    BY <1>1
  <2>2. CASE x = c
    BY <1>2, <2>1, <2>2 DEF OrderCell
  <2>3. CASE x # c /\ x = o.prev
    BY <1>2, <2>1, <2>3 DEF OrderCell
  <2>4. CASE x # c /\ x # o.prev
    BY <1>2, <2>1, <2>4 DEF OrderCell
  <2>5. QED
    BY <2>2, <2>3, <2>4
<1>4. /\ w \in LevelCell
      /\ w.price = v.price /\ w.side = v.side /\ w.prev = v.prev /\ w.next = v.next
      /\ w.tail = t /\ w.head = h /\ w.total_qty = sum /\ w.order_count = n
  <2>1. h \in OrderCells \union {Null} /\ t \in OrderCells \union {Null}
        /\ sum \in Int /\ n \in Nat
    BY <1>2
  <2>2. v \in LevelCell
    BY <1>1
  <2> HIDE DEF h, t, sum, n, v
  <2>3. QED
    BY <2>1, <2>2 DEF LevelCell, LevelWith
<1>5. O \in [OrderCells -> OrderCell] /\ \A x \in OrderCells : O[x] = past(x)
  <2> HIDE DEF past
  <2>1. QED
    BY <1>3
<1>6. r = MemoryWith(mem, O, l, w)
    BY DEF Unlink, Bypassed, MemoryWith, LevelWith
<1> HIDE DEF O, w, past
<1>7. /\ r \in Memory /\ r.order = O /\ r.level = [mem.level EXCEPT ![l] = w]
      /\ r.order_pool = mem.order_pool /\ r.level_pool = mem.level_pool
      /\ r.order_index = mem.order_index /\ r.level_index = mem.level_index
      /\ r.best = mem.best
  <2>1. w \in LevelCell /\ O \in [OrderCells -> OrderCell]
    BY <1>4, <1>5
  <2>2. QED
    BY <1>6, <2>1, MemoryWithFields
<1>8. r.level[l] = w /\ \A x \in LevelCells : x # l => r.level[x] = mem.level[x]
    BY <1>7, MemoryFields
<1>9. \A x \in LevelCells :
         /\ r.level[x].price = mem.level[x].price /\ r.level[x].side = mem.level[x].side
         /\ r.level[x].prev = mem.level[x].prev /\ r.level[x].next = mem.level[x].next
    BY <1>4, <1>8
<1>10. QED
    BY <1>3, <1>4, <1>5, <1>7, <1>8, <1>9

(* What set_qty leaves: r is mem with another quantity in cell c, at level l. *)
QtySet(mem, r, c, l, qty) ==
    /\ r \in Memory
    /\ r.order_pool = mem.order_pool /\ r.level_pool = mem.level_pool
    /\ r.order_index = mem.order_index /\ r.level_index = mem.level_index
    /\ r.best = mem.best
    /\ \A x \in OrderCells :
          /\ r.order[x].id = mem.order[x].id /\ r.order[x].price = mem.order[x].price
          /\ r.order[x].side = mem.order[x].side /\ r.order[x].level = mem.order[x].level
          /\ r.order[x].prev = mem.order[x].prev /\ r.order[x].next = mem.order[x].next
          /\ r.order[x].qty = IF x = c THEN qty ELSE mem.order[x].qty
    /\ \A x \in LevelCells :
          /\ r.level[x].price = mem.level[x].price /\ r.level[x].side = mem.level[x].side
          /\ r.level[x].prev = mem.level[x].prev /\ r.level[x].next = mem.level[x].next
          /\ r.level[x].head = mem.level[x].head /\ r.level[x].tail = mem.level[x].tail
          /\ r.level[x].order_count = mem.level[x].order_count
          /\ x # l => r.level[x] = mem.level[x]
    /\ r.level[l].total_qty = mem.level[l].total_qty + (qty - mem.order[c].qty)

(* What set_qty writes, and what it leaves alone.                          *)
LEMMA SetQtyFields ==
    ASSUME NEW mem \in Memory, NEW c \in OrderCells, NEW l \in LevelCells,
           l = mem.order[c].level, NEW qty \in Int, NEW r, r = SetQty(mem, c, qty)
    PROVE  QtySet(mem, r, c, l, qty)
<1> DEFINE v == mem.level[l]
           o == mem.order[c]
           p == [o EXCEPT !.qty = qty]
           O == [mem.order EXCEPT ![c] = p]
           sum == v.total_qty + (qty - o.qty)
           w == [v EXCEPT !.total_qty = sum]
<1>1. v \in LevelCell /\ o \in OrderCell
    BY MemoryFields
<1>2. o.qty \in Int /\ v.total_qty \in Int
    BY <1>1 DEF OrderCell, LevelCell
<1>3. /\ p \in OrderCell
      /\ p.id = o.id /\ p.price = o.price /\ p.side = o.side /\ p.level = o.level
      /\ p.prev = o.prev /\ p.next = o.next /\ p.qty = qty
    BY <1>1 DEF OrderCell
<1>4. sum \in Int
    BY <1>2
<1>5. /\ w \in LevelCell
      /\ w.price = v.price /\ w.side = v.side /\ w.prev = v.prev /\ w.next = v.next
      /\ w.head = v.head /\ w.tail = v.tail /\ w.order_count = v.order_count
      /\ w.total_qty = sum
  <2> HIDE DEF sum, v
  <2>1. QED
    BY <1>1, <1>4 DEF LevelCell
<1>6. r = MemoryWith(mem, O, l, w)
    BY DEF SetQty, MemoryWith
<1> HIDE DEF w, p
<1>7. /\ O \in [OrderCells -> OrderCell]
      /\ O[c] = p /\ \A x \in OrderCells : x # c => O[x] = mem.order[x]
    BY <1>3, MemoryFields
<1> HIDE DEF O
<1>8. /\ r \in Memory /\ r.order = O /\ r.level = [mem.level EXCEPT ![l] = w]
      /\ r.order_pool = mem.order_pool /\ r.level_pool = mem.level_pool
      /\ r.order_index = mem.order_index /\ r.level_index = mem.level_index
      /\ r.best = mem.best
  <2>1. w \in LevelCell /\ O \in [OrderCells -> OrderCell]
    BY <1>5, <1>7
  <2>2. QED
    BY <1>6, <2>1, MemoryWithFields
<1>9. r.level[l] = w /\ \A x \in LevelCells : x # l => r.level[x] = mem.level[x]
    BY <1>8, MemoryFields
<1>10. \A x \in OrderCells :
          /\ r.order[x].id = mem.order[x].id /\ r.order[x].price = mem.order[x].price
          /\ r.order[x].side = mem.order[x].side /\ r.order[x].level = mem.order[x].level
          /\ r.order[x].prev = mem.order[x].prev /\ r.order[x].next = mem.order[x].next
          /\ r.order[x].qty = IF x = c THEN qty ELSE mem.order[x].qty
    BY <1>3, <1>7, <1>8
<1>11. \A x \in LevelCells :
          /\ r.level[x].price = mem.level[x].price /\ r.level[x].side = mem.level[x].side
          /\ r.level[x].prev = mem.level[x].prev /\ r.level[x].next = mem.level[x].next
          /\ r.level[x].head = mem.level[x].head /\ r.level[x].tail = mem.level[x].tail
          /\ r.level[x].order_count = mem.level[x].order_count
    BY <1>5, <1>9
<1>12. r.level[l].total_qty = mem.level[l].total_qty + (qty - mem.order[c].qty)
    BY <1>5, <1>9
<1>13. QED
    BY <1>8, <1>9, <1>10, <1>11, <1>12 DEF QtySet

-----------------------------------------------------------------------------
(* The list of orders of a level.                                          *)

(* The quantities of the orders in cells cs.                               *)
QtysOf(mem, cs) == [i \in 1 .. Len(cs) |-> mem.order[cs[i]].qty]

(* The cells of cs are linked in that order from head to tail of level l,  *)
(* and l has counted them and added up their quantities.                   *)
ListIs(mem, l, cs) ==
    /\ mem.level[l].order_count = Len(cs)
    /\ mem.level[l].total_qty = Total(QtysOf(mem, cs))
    /\ mem.level[l].head = IF cs = <<>> THEN Null ELSE cs[1]
    /\ mem.level[l].tail = IF cs = <<>> THEN Null ELSE cs[Len(cs)]
    /\ \A i \in 1 .. Len(cs) :
          /\ mem.order[cs[i]].level = l
          /\ mem.order[cs[i]].prev = IF i = 1 THEN Null ELSE cs[i - 1]
          /\ mem.order[cs[i]].next = IF i = Len(cs) THEN Null ELSE cs[i + 1]
    /\ \A i, j \in 1 .. Len(cs) : cs[i] = cs[j] => i = j

(* The lists of all levels, and the cells on none of them.                 *)
ListsAre(mem, lists) ==
    /\ lists \in [LevelCells -> Seq(OrderCells)]
    /\ \A l \in LevelCells : ListIs(mem, l, lists[l])
    /\ \A c \in OrderCells :
          IF mem.order[c].level = Null
          THEN mem.order[c].prev = Null /\ mem.order[c].next = Null
          ELSE \E i \in 1 .. Len(lists[mem.order[c].level]) : lists[mem.order[c].level][i] = c

(* They are numbers, one for each cell.                                    *)
LEMMA QtysTyped ==
    ASSUME NEW mem \in Memory, NEW cs \in Seq(OrderCells)
    PROVE  /\ QtysOf(mem, cs) \in Seq(Int)
           /\ Len(QtysOf(mem, cs)) = Len(cs)
           /\ \A i \in 1 .. Len(cs) : QtysOf(mem, cs)[i] = mem.order[cs[i]].qty
<1>1. Len(cs) \in Nat
    OBVIOUS
<1>2. ASSUME NEW i \in 1 .. Len(cs) PROVE mem.order[cs[i]].qty \in Int
  <2>1. cs[i] \in OrderCells
    OBVIOUS
  <2>2. mem.order[cs[i]] \in OrderCell
    BY <2>1, MemoryFields
  <2>3. QED
    BY <2>2 DEF OrderCell
<1>3. QED
    BY <1>1, <1>2 DEF QtysOf

(* A list none of whose cells changed.                                     *)
LEMMA SameList ==
    ASSUME NEW mem, NEW r, NEW l, NEW cs, ListIs(mem, l, cs),
           r.level[l].head = mem.level[l].head, r.level[l].tail = mem.level[l].tail,
           r.level[l].order_count = mem.level[l].order_count,
           r.level[l].total_qty = mem.level[l].total_qty,
           \A i \in 1 .. Len(cs) :
              /\ r.order[cs[i]].level = mem.order[cs[i]].level
              /\ r.order[cs[i]].prev = mem.order[cs[i]].prev
              /\ r.order[cs[i]].next = mem.order[cs[i]].next
              /\ r.order[cs[i]].qty = mem.order[cs[i]].qty
    PROVE  ListIs(r, l, cs)
<1>1. QtysOf(r, cs) = QtysOf(mem, cs)
    BY DEF QtysOf
<1>2. QED
    BY <1>1 DEF ListIs

(* Lists none of whose links changed, off the lists too.                   *)
LEMMA SameLists ==
    ASSUME NEW mem, NEW r, NEW lists, ListsAre(mem, lists),
           \A l \in LevelCells :
              /\ r.level[l].head = mem.level[l].head /\ r.level[l].tail = mem.level[l].tail
              /\ r.level[l].order_count = mem.level[l].order_count
              /\ r.level[l].total_qty = mem.level[l].total_qty,
           \A c \in OrderCells :
              /\ r.order[c].level = mem.order[c].level
              /\ r.order[c].prev = mem.order[c].prev
              /\ r.order[c].next = mem.order[c].next
              /\ mem.order[c].level # Null => r.order[c].qty = mem.order[c].qty
    PROVE  ListsAre(r, lists)
<1>1. ASSUME NEW l \in LevelCells PROVE ListIs(r, l, lists[l])
  <2>1. ListIs(mem, l, lists[l]) /\ lists[l] \in Seq(OrderCells)
    BY DEF ListsAre
  <2>2. ASSUME NEW i \in 1 .. Len(lists[l])
        PROVE  lists[l][i] \in OrderCells /\ mem.order[lists[l][i]].level # Null
    <3>1. lists[l][i] \in OrderCells
      BY <2>1
    <3>2. mem.order[lists[l][i]].level = l
      BY <2>1 DEF ListIs
    <3>3. QED
      BY <3>1, <3>2, NullIsNoCell
  <2>3. QED
    BY <2>1, <2>2, SameList
<1>2. QED
    BY <1>1 DEF ListsAre

(* Where the cells of a list and its level's fields lie.                   *)
LEMMA ListCells ==
    ASSUME NEW mem, NEW lists, ListsAre(mem, lists), NEW l \in LevelCells
    PROVE  /\ lists[l] \in Seq(OrderCells) /\ Len(lists[l]) \in Nat
           /\ \A i \in 1 .. Len(lists[l]) :
                 lists[l][i] \in OrderCells /\ mem.order[lists[l][i]].level = l
           /\ mem.level[l].tail # Null =>
                 mem.level[l].tail \in OrderCells /\ mem.order[mem.level[l].tail].level = l
           /\ mem.level[l].tail = Null <=> lists[l] = <<>>
           /\ mem.level[l].order_count = Len(lists[l])
           /\ mem.level[l].order_count = 0 <=> lists[l] = <<>>
<1> DEFINE cs == lists[l]
<1>1. cs \in Seq(OrderCells) /\ Len(cs) \in Nat /\ ListIs(mem, l, cs)
    BY DEF ListsAre
<1>2. \A i \in 1 .. Len(cs) : cs[i] \in OrderCells /\ mem.order[cs[i]].level = l
    BY <1>1 DEF ListIs
<1>3. cs # <<>> => Len(cs) \in 1 .. Len(cs)
    BY <1>1, EmptySeq
<1>4. mem.level[l].tail = (IF cs = <<>> THEN Null ELSE cs[Len(cs)]) /\ mem.level[l].order_count = Len(cs)
    BY <1>1 DEF ListIs
<1>5. Len(cs) = 0 <=> cs = <<>>
    BY <1>1, EmptySeq
<1> HIDE DEF cs
<1>6. QED
    BY <1>1, <1>2, <1>3, <1>4, <1>5, NullIsNoCell DEF cs

(* append: the cell is the last of its level's list.                       *)
LEMMA PushBackLists ==
    ASSUME NEW mem \in Memory, NEW lists, ListsAre(mem, lists),
           NEW l \in LevelCells, NEW c \in OrderCells, mem.order[c].level = Null,
           NEW r, r = PushBack(mem, l, c)
    PROVE  ListsAre(r, [lists EXCEPT ![l] = Append(lists[l], c)])
<1> DEFINE t == mem.level[l].tail
           cs == lists[l]
           ds == Append(cs, c)
           then == [lists EXCEPT ![l] = ds]
           n == Len(cs)
<1>1. /\ cs \in Seq(OrderCells) /\ n \in Nat /\ ListIs(mem, l, cs)
      /\ \A i \in 1 .. n : cs[i] \in OrderCells /\ mem.order[cs[i]].level = l /\ cs[i] # c
      /\ t # Null => t \in OrderCells /\ mem.order[t].level = l
  <2>1. cs \in Seq(OrderCells) /\ n \in Nat /\ ListIs(mem, l, cs)
    BY DEF ListsAre
  <2>2. /\ \A i \in 1 .. n : cs[i] \in OrderCells /\ mem.order[cs[i]].level = l
        /\ t # Null => t \in OrderCells /\ mem.order[t].level = l
    BY ListCells
  <2>3. l # Null
    BY NullIsNoCell
  <2> HIDE DEF cs, t
  <2>4. QED
    BY <2>1, <2>2, <2>3
<1>2. t # c
    BY <1>1, NullIsNoCell
<1>3. /\ ds \in Seq(OrderCells) /\ Len(ds) = n + 1 /\ ds # <<>>
      /\ \A i \in 1 .. n + 1 : ds[i] = IF i = n + 1 THEN c ELSE cs[i]
  <2>1. /\ ds \in Seq(OrderCells) /\ Len(ds) = n + 1
        /\ \A i \in 1 .. n + 1 : ds[i] = IF i = n + 1 THEN c ELSE cs[i]
    BY <1>1, AppendFacts
  <2> HIDE DEF ds
  <2>2. ds # <<>>
    BY <1>1, <2>1, EmptySeq
  <2>3. QED
    BY <2>1, <2>2
<1>4. then \in [LevelCells -> Seq(OrderCells)] /\ then[l] = ds
      /\ \A x \in LevelCells : x # l => then[x] = lists[x]
    BY <1>3 DEF ListsAre
<1>5. \A x \in OrderCells :
         /\ r.order[x].qty = mem.order[x].qty
         /\ r.order[x].level = IF x = c THEN l ELSE mem.order[x].level
         /\ r.order[x].prev = IF x = c THEN t ELSE mem.order[x].prev
         /\ r.order[x].next = IF x = c THEN Null ELSE IF x = t THEN c ELSE mem.order[x].next
    BY PushBackFields
<1>6. /\ \A x \in LevelCells : x # l => r.level[x] = mem.level[x]
      /\ r.level[l].tail = c
      /\ r.level[l].head = IF t = Null THEN c ELSE mem.level[l].head
      /\ r.level[l].total_qty = mem.level[l].total_qty + mem.order[c].qty
      /\ r.level[l].order_count = mem.level[l].order_count + 1
    BY PushBackFields
<1> HIDE DEF t
<1>7. ASSUME NEW x \in LevelCells, x # l PROVE ListIs(r, x, lists[x])
  <2>1. ListIs(mem, x, lists[x])
    BY DEF ListsAre
  <2>2. \A i \in 1 .. Len(lists[x]) : lists[x][i] \in OrderCells /\ mem.order[lists[x][i]].level = x
    BY ListCells
  <2>3. \A i \in 1 .. Len(lists[x]) : lists[x][i] # c /\ lists[x][i] # t
    BY <1>1, <1>7, <2>2, NullIsNoCell
  <2>4. QED
    BY <1>5, <1>6, <1>7, <2>1, <2>2, <2>3, SameList
<1>8. ListIs(r, l, ds)
  <2>1. t = IF cs = <<>> THEN Null ELSE cs[n]
    BY <1>1 DEF ListIs, t
  <2>2. cs = <<>> <=> n = 0
    BY <1>1, EmptySeq
  <2>3. t = Null <=> cs = <<>>
    BY <1>1, <2>1, <2>2, NullIsNoCell
  <2>4. r.level[l].order_count = Len(ds)
    BY <1>1, <1>3, <1>6 DEF ListIs
  <2>5. r.level[l].total_qty = Total(QtysOf(r, ds))
    <3>1. QtysOf(r, ds) = Append(QtysOf(mem, cs), mem.order[c].qty)
      <4>1. QtysOf(mem, cs) \in Seq(Int) /\ Len(QtysOf(mem, cs)) = n /\ mem.order[c].qty \in Int
        BY <1>1, QtysTyped, MemoryFields DEF OrderCell
      <4>2. /\ Append(QtysOf(mem, cs), mem.order[c].qty) \in Seq(Int)
            /\ Len(Append(QtysOf(mem, cs), mem.order[c].qty)) = n + 1
            /\ \A i \in 1 .. n + 1 : Append(QtysOf(mem, cs), mem.order[c].qty)[i]
                  = IF i = n + 1 THEN mem.order[c].qty ELSE QtysOf(mem, cs)[i]
        BY <4>1, AppendFacts
      <4>3. r \in Memory
        BY PushBackFields
      <4>4. QtysOf(r, ds) \in Seq(Int) /\ Len(QtysOf(r, ds)) = n + 1
            /\ \A i \in 1 .. n + 1 : QtysOf(r, ds)[i] = r.order[ds[i]].qty
        BY <1>3, <4>3, QtysTyped
      <4>5. \A i \in 1 .. n : QtysOf(mem, cs)[i] = mem.order[cs[i]].qty
        BY <1>1, QtysTyped
      <4>6. ASSUME NEW i \in 1 .. n + 1
            PROVE  QtysOf(r, ds)[i] = Append(QtysOf(mem, cs), mem.order[c].qty)[i]
        <5>1. CASE i = n + 1
          BY <1>3, <1>5, <4>2, <4>4, <5>1
        <5>2. CASE i # n + 1
          <6>1. i \in 1 .. n
            BY <1>1, <5>2
          <6>2. QED
            <7>1. ds[i] = cs[i] /\ cs[i] \in OrderCells
              BY <1>1, <1>3, <5>2, <6>1
            <7>2. QtysOf(r, ds)[i] = mem.order[cs[i]].qty
              <8>1. QtysOf(r, ds)[i] = r.order[ds[i]].qty
                BY <4>4
              <8>2. r.order[cs[i]].qty = mem.order[cs[i]].qty
                BY <1>5, <7>1
              <8>3. QED
                BY <7>1, <8>1, <8>2
            <7>3. Append(QtysOf(mem, cs), mem.order[c].qty)[i] = QtysOf(mem, cs)[i]
              BY <4>2, <5>2
            <7>4. QED
              BY <4>5, <6>1, <7>2, <7>3
        <5>3. QED
          BY <5>1, <5>2
      <4>7. QED
        BY <4>2, <4>4, <4>6, SeqEqual
    <3>2. Total(QtysOf(mem, cs)) + mem.order[c].qty = Total(QtysOf(r, ds))
      BY <1>1, <3>1, QtysTyped, TotalOfAppend, MemoryFields DEF OrderCell
    <3>3. QED
      BY <1>1, <1>6, <3>2 DEF ListIs
  <2>6. r.level[l].head = ds[1]
    <3>1. CASE cs = <<>>
      BY <1>1, <1>3, <1>6, <2>2, <2>3, <3>1
    <3>2. CASE cs # <<>>
      <4>1. 1 \in 1 .. n + 1 /\ 1 # n + 1
        BY <1>1, <2>2, <3>2
      <4>2. mem.level[l].head = cs[1]
        BY <1>1, <3>2 DEF ListIs
      <4>3. QED
        BY <1>3, <1>6, <2>3, <3>2, <4>1, <4>2
    <3>3. QED
      BY <3>1, <3>2
  <2>7. r.level[l].tail = ds[Len(ds)]
    BY <1>1, <1>3, <1>6
  <2>8. ASSUME NEW i \in 1 .. Len(ds)
        PROVE  /\ r.order[ds[i]].level = l
               /\ r.order[ds[i]].prev = IF i = 1 THEN Null ELSE ds[i - 1]
               /\ r.order[ds[i]].next = IF i = Len(ds) THEN Null ELSE ds[i + 1]
    <3>1. CASE i = n + 1
      <4>1. ds[i] = c /\ r.order[c].level = l /\ r.order[c].prev = t /\ r.order[c].next = Null
        BY <1>1, <1>3, <1>5, <3>1
      <4>2. t = IF i = 1 THEN Null ELSE ds[i - 1]
        <5>1. i = 1 <=> n = 0
          BY <1>1, <3>1
        <5>2. n # 0 => i - 1 \in 1 .. n + 1 /\ i - 1 = n /\ i - 1 # n + 1
          BY <1>1, <3>1
        <5>3. QED
          BY <1>3, <2>1, <2>2, <5>1, <5>2
      <4>3. QED
        BY <1>3, <3>1, <4>1, <4>2
    <3>2. CASE i # n + 1
      <4>1. i \in 1 .. n /\ i \in 1 .. n + 1 /\ ds[i] = cs[i] /\ i # Len(ds)
        BY <1>1, <1>3, <3>2
      <4>2. /\ cs[i] \in OrderCells /\ cs[i] # c /\ mem.order[cs[i]].level = l
            /\ mem.order[cs[i]].prev = IF i = 1 THEN Null ELSE cs[i - 1]
            /\ mem.order[cs[i]].next = IF i = n THEN Null ELSE cs[i + 1]
        BY <1>1, <4>1 DEF ListIs
      <4>3. r.order[ds[i]].level = l /\ r.order[ds[i]].prev = IF i = 1 THEN Null ELSE ds[i - 1]
        <5>1. i # 1 => i - 1 \in 1 .. n + 1 /\ i - 1 # n + 1
          BY <1>1, <4>1
        <5>2. QED
          BY <1>3, <1>5, <4>1, <4>2, <5>1
      <4>4. cs[i] = t <=> i = n
        <5>1. n \in 1 .. n /\ t = cs[n]
          BY <1>1, <2>1, <2>2, <4>1
        <5>2. \A j, k \in 1 .. n : cs[j] = cs[k] => j = k
          BY <1>1 DEF ListIs
        <5>3. QED
          BY <4>1, <5>1, <5>2
      <4>5. r.order[ds[i]].next = ds[i + 1]
        <5>1. CASE i = n
          <6>1. i + 1 = n + 1 /\ i + 1 \in 1 .. n + 1
            BY <1>1, <5>1
          <6>2. QED
            BY <1>3, <1>5, <4>1, <4>2, <4>4, <5>1, <6>1
        <5>2. CASE i # n
          <6>1. i + 1 \in 1 .. n + 1 /\ i + 1 # n + 1
            BY <1>1, <4>1, <5>2
          <6>2. QED
            BY <1>3, <1>5, <4>1, <4>2, <4>4, <5>2, <6>1
        <5>3. QED
          BY <5>1, <5>2
      <4>6. QED
        BY <4>1, <4>3, <4>5
    <3>3. QED
      BY <3>1, <3>2
  <2>9. \A i, j \in 1 .. Len(ds) : ds[i] = ds[j] => i = j
    <3>1. \A j, k \in 1 .. n : cs[j] = cs[k] => j = k
      BY <1>1 DEF ListIs
    <3>2. \A i \in 1 .. n + 1 : i # n + 1 => i \in 1 .. n
      BY <1>1
    <3>3. QED
      BY <1>1, <1>3, <3>1, <3>2
  <2>10. QED
    BY <1>3, <2>4, <2>5, <2>6, <2>7, <2>8, <2>9 DEF ListIs
<1>9. ASSUME NEW x \in OrderCells
      PROVE  IF r.order[x].level = Null
             THEN r.order[x].prev = Null /\ r.order[x].next = Null
             ELSE \E i \in 1 .. Len(then[r.order[x].level]) : then[r.order[x].level][i] = x
  <2>1. CASE x = c
    <3>1. r.order[x].level = l /\ l # Null /\ n + 1 \in 1 .. Len(ds) /\ ds[n + 1] = c
      BY <1>1, <1>3, <1>5, <2>1, NullIsNoCell
    <3>2. QED
      BY <1>4, <2>1, <3>1
  <2>2. CASE x # c
    <3>1. /\ r.order[x].level = mem.order[x].level /\ r.order[x].prev = mem.order[x].prev
          /\ x # t => r.order[x].next = mem.order[x].next
      BY <1>5, <2>2
    <3>2. CASE mem.order[x].level = Null
      <4>1. x # t
        BY <1>1, <3>2, NullIsNoCell
      <4>2. QED
        BY <3>1, <3>2, <4>1 DEF ListsAre
    <3>3. CASE mem.order[x].level # Null
      <4>1. PICK i \in 1 .. Len(lists[mem.order[x].level]) : lists[mem.order[x].level][i] = x
        BY <3>3 DEF ListsAre
      <4>2. mem.order[x].level \in LevelCells
        BY <3>3, MemoryFields DEF OrderCell
      <4>3. CASE mem.order[x].level = l
        <5>1. i \in 1 .. n + 1 /\ i # n + 1 /\ cs[i] = x
          BY <1>1, <4>1, <4>3
        <5>2. i \in 1 .. Len(ds) /\ ds[i] = x
          BY <1>3, <5>1
        <5>3. QED
          BY <1>4, <3>1, <3>3, <4>3, <5>2
      <4>4. CASE mem.order[x].level # l
        BY <1>4, <3>1, <3>3, <4>1, <4>2, <4>4
      <4>5. QED
        BY <4>3, <4>4
    <3>4. QED
      BY <3>2, <3>3
  <2>3. QED
    BY <2>1, <2>2
<1> HIDE DEF then, ds
<1>10. \A x \in LevelCells : ListIs(r, x, then[x])
    BY <1>4, <1>7, <1>8
<1>11. ListsAre(r, then)
    BY <1>4, <1>9, <1>10 DEF ListsAre
<1>12. QED
    BY <1>11 DEF then, ds

(* remove: the cell at place j leaves the list of its level.               *)
LEMMA UnlinkLists ==
    ASSUME NEW mem \in Memory, NEW lists, ListsAre(mem, lists),
           NEW l \in LevelCells, NEW j \in 1 .. Len(lists[l]), NEW c, c = lists[l][j],
           NEW r, r = Unlink(mem, l, c)
    PROVE  /\ ListsAre(r, [lists EXCEPT ![l] = RemoveAt(lists[l], j)])
           /\ mem.level[l].order_count > 0 /\ c \in OrderCells
<1> DEFINE cs == lists[l]
           ds == RemoveAt(cs, j)
           then == [lists EXCEPT ![l] = ds]
           o == mem.order[c]
<1>1. PICK n \in Nat : n = Len(cs)
    BY DEF ListsAre
<1>2. /\ cs \in Seq(OrderCells) /\ ListIs(mem, l, cs) /\ j \in 1 .. n
      /\ \A i \in 1 .. n : cs[i] \in OrderCells /\ mem.order[cs[i]].level = l
      /\ \A i, k \in 1 .. n : cs[i] = cs[k] => i = k
  <2>1. cs \in Seq(OrderCells) /\ ListIs(mem, l, cs) /\ j \in 1 .. n
    BY <1>1 DEF ListsAre
  <2>2. \A i \in 1 .. n : cs[i] \in OrderCells /\ mem.order[cs[i]].level = l
    BY <1>1, ListCells
  <2>3. \A i, k \in 1 .. n : cs[i] = cs[k] => i = k
    BY <1>1, <2>1 DEF ListIs
  <2>4. QED
    BY <2>1, <2>2, <2>3
<1>3. /\ mem.level[l].order_count = n /\ n > 0 /\ c \in OrderCells /\ c = cs[j]
      /\ o.level = l /\ o.qty \in Int
  <2>1. mem.level[l].order_count = n
    BY <1>1, <1>2 DEF ListIs
  <2>2. n > 0 /\ c \in OrderCells /\ c = cs[j] /\ o.level = l
    BY <1>2
  <2>3. o \in OrderCell
    BY <2>2, MemoryFields
  <2>4. QED
    BY <2>1, <2>2, <2>3 DEF OrderCell
<1>4. /\ o.prev = (IF j = 1 THEN Null ELSE cs[j - 1])
      /\ o.next = (IF j = n THEN Null ELSE cs[j + 1])
  <2>1. j \in 1 .. Len(cs)
    OBVIOUS
  <2>2. QED
    BY <1>1, <1>2, <1>3, <2>1 DEF ListIs
<1>5. /\ ds \in Seq(OrderCells) /\ Len(ds) = n - 1
      /\ \A i \in 1 .. n - 1 : ds[i] = IF i < j THEN cs[i] ELSE cs[i + 1]
    BY <1>1, <1>2, RemoveAtFacts
<1>6. then \in [LevelCells -> Seq(OrderCells)] /\ then[l] = ds
      /\ \A x \in LevelCells : x # l => then[x] = lists[x]
    BY <1>5 DEF ListsAre
<1>7. \A x \in OrderCells :
         /\ r.order[x].qty = mem.order[x].qty
         /\ r.order[x].level = IF x = c THEN Null ELSE mem.order[x].level
         /\ x = c => r.order[x].prev = Null /\ r.order[x].next = Null
         /\ x # c /\ x # o.prev => r.order[x].next = mem.order[x].next
         /\ x # c /\ x = o.prev => r.order[x].next = o.next
         /\ x # c /\ x # o.prev /\ x = o.next => r.order[x].prev = o.prev
         /\ x # c /\ (x = o.prev \/ x # o.next) => r.order[x].prev = mem.order[x].prev
    BY <1>3, UnlinkFields
<1>8. /\ r \in Memory
      /\ \A x \in LevelCells : x # l => r.level[x] = mem.level[x]
      /\ r.level[l].tail = IF o.next = Null THEN o.prev ELSE mem.level[l].tail
      /\ r.level[l].head = IF o.prev = Null THEN o.next ELSE mem.level[l].head
      /\ r.level[l].total_qty = mem.level[l].total_qty - o.qty
      /\ r.level[l].order_count = mem.level[l].order_count - 1
    BY <1>3, UnlinkFields
(* The neighbours of c, and who they are in the list.                      *)
<1>9. ASSUME NEW i \in 1 .. n
      PROVE  /\ cs[i] = o.prev <=> i = j - 1
             /\ cs[i] = o.next <=> i = j + 1
             /\ cs[i] = c <=> i = j
  <2>1. cs[i] \in OrderCells /\ cs[i] # Null
    BY <1>2, NullIsNoCell
  <2>2. cs[i] = c <=> i = j
    BY <1>2, <1>3
  <2>3. cs[i] = o.prev <=> i = j - 1
    <3>1. CASE j = 1
      BY <1>2, <1>4, <2>1, <3>1
    <3>2. CASE j # 1
      <4>1. j - 1 \in 1 .. n /\ o.prev = cs[j - 1]
        BY <1>2, <1>4, <3>2
      <4>2. QED
        BY <1>2, <4>1
    <3>3. QED
      BY <3>1, <3>2
  <2>4. cs[i] = o.next <=> i = j + 1
    <3>1. CASE j = n
      BY <1>2, <1>4, <2>1, <3>1
    <3>2. CASE j # n
      <4>1. j + 1 \in 1 .. n /\ o.next = cs[j + 1]
        BY <1>2, <1>4, <3>2
      <4>2. QED
        BY <1>2, <4>1
    <3>3. QED
      BY <3>1, <3>2
  <2>5. QED
    BY <2>2, <2>3, <2>4
(* What the list keeps of its links.                                       *)
<1>10. ASSUME NEW i \in 1 .. n, i # j
       PROVE  /\ cs[i] \in OrderCells
              /\ r.order[cs[i]].level = l
              /\ r.order[cs[i]].next = IF i = j - 1 THEN o.next
                                       ELSE IF i = n THEN Null ELSE cs[i + 1]
              /\ r.order[cs[i]].prev = IF i = j + 1 THEN o.prev
                                       ELSE IF i = 1 THEN Null ELSE cs[i - 1]
  <2>1. cs[i] \in OrderCells /\ mem.order[cs[i]].level = l
    BY <1>2
  <2>2. cs[i] # c /\ (cs[i] = o.prev <=> i = j - 1) /\ (cs[i] = o.next <=> i = j + 1)
    BY <1>9, <1>10
  <2>3. /\ mem.order[cs[i]].prev = (IF i = 1 THEN Null ELSE cs[i - 1])
        /\ mem.order[cs[i]].next = (IF i = n THEN Null ELSE cs[i + 1])
    <3>1. i \in 1 .. Len(cs)
      BY <1>1
    <3>2. QED
      BY <1>1, <1>2, <3>1 DEF ListIs
  <2>4. r.order[cs[i]].level = l
    BY <1>7, <2>1, <2>2
  <2>5. r.order[cs[i]].next = IF i = j - 1 THEN o.next ELSE IF i = n THEN Null ELSE cs[i + 1]
    <3>1. CASE i = j - 1
      BY <1>7, <2>1, <2>2, <3>1
    <3>2. CASE i # j - 1
      BY <1>7, <2>1, <2>2, <2>3, <3>2
    <3>3. QED
      BY <3>1, <3>2
  <2>6. r.order[cs[i]].prev = IF i = j + 1 THEN o.prev ELSE IF i = 1 THEN Null ELSE cs[i - 1]
    <3>1. CASE i = j + 1
      <4>1. i # j - 1
        BY <1>2, <3>1
      <4>2. cs[i] # o.prev /\ cs[i] = o.next
        BY <2>2, <3>1, <4>1
      <4>3. QED
        BY <1>7, <2>1, <2>2, <3>1, <4>2
    <3>2. CASE i # j + 1
      BY <1>7, <2>1, <2>2, <2>3, <3>2
    <3>3. QED
      BY <3>1, <3>2
  <2>7. QED
    BY <2>1, <2>4, <2>5, <2>6
<1> HIDE DEF o
<1>11. ASSUME NEW x \in LevelCells, x # l PROVE ListIs(r, x, lists[x])
  <2>1. ListIs(mem, x, lists[x])
    BY DEF ListsAre
  <2>2. \A i \in 1 .. Len(lists[x]) : lists[x][i] \in OrderCells /\ mem.order[lists[x][i]].level = x
    BY ListCells
  <2>3. ASSUME NEW y \in OrderCells, mem.order[y].level = x
        PROVE  y # c /\ y # o.prev /\ y # o.next
    <3>1. y # c
      BY <1>3, <1>11, <2>3 DEF o
    <3>2. y # o.prev
      <4>1. CASE j = 1
        BY <1>4, <4>1, NullIsNoCell
      <4>2. CASE j # 1
        <5>1. j - 1 \in 1 .. n
          BY <1>2, <4>2
        <5>2. QED
          BY <1>2, <1>4, <1>11, <2>3, <4>2, <5>1
      <4>3. QED
        BY <4>1, <4>2
    <3>3. y # o.next
      <4>1. CASE j = n
        BY <1>4, <4>1, NullIsNoCell
      <4>2. CASE j # n
        <5>1. j + 1 \in 1 .. n
          BY <1>2, <4>2
        <5>2. QED
          BY <1>2, <1>4, <1>11, <2>3, <4>2, <5>1
      <4>3. QED
        BY <4>1, <4>2
    <3>4. QED
      BY <3>1, <3>2, <3>3
  <2>4. ASSUME NEW i \in 1 .. Len(lists[x])
        PROVE  /\ r.order[lists[x][i]].level = mem.order[lists[x][i]].level
               /\ r.order[lists[x][i]].prev = mem.order[lists[x][i]].prev
               /\ r.order[lists[x][i]].next = mem.order[lists[x][i]].next
               /\ r.order[lists[x][i]].qty = mem.order[lists[x][i]].qty
    BY <1>7, <2>2, <2>3
  <2>5. r.level[x] = mem.level[x]
    BY <1>8, <1>11
  <2>6. QED
    BY <2>1, <2>4, <2>5, SameList
<1>12. ListIs(r, l, ds)
  <2>1. ds = <<>> <=> n = 1
    BY <1>2, <1>5, EmptySeq
  <2>2. r.level[l].order_count = Len(ds)
    BY <1>3, <1>5, <1>8
  <2>3. r.level[l].total_qty = Total(QtysOf(r, ds))
    <3> DEFINE qs == QtysOf(mem, cs)
    <3>1. /\ qs \in Seq(Int) /\ Len(qs) = n
          /\ \A i \in 1 .. n : qs[i] = mem.order[cs[i]].qty
      BY <1>1, <1>2, QtysTyped
    <3> HIDE DEF qs
    <3>2. /\ RemoveAt(qs, j) \in Seq(Int) /\ Len(RemoveAt(qs, j)) = n - 1
          /\ \A i \in 1 .. n - 1 : RemoveAt(qs, j)[i] = IF i < j THEN qs[i] ELSE qs[i + 1]
      <4>1. j \in 1 .. Len(qs)
        BY <1>2, <3>1
      <4>2. QED
        BY <3>1, <4>1, RemoveAtFacts
    <3>3. /\ QtysOf(r, ds) \in Seq(Int) /\ Len(QtysOf(r, ds)) = n - 1
          /\ \A i \in 1 .. n - 1 : QtysOf(r, ds)[i] = r.order[ds[i]].qty
      BY <1>5, <1>8, QtysTyped
    <3>4. ASSUME NEW i \in 1 .. n - 1 PROVE QtysOf(r, ds)[i] = RemoveAt(qs, j)[i]
      <4>1. CASE i < j
        <5>1. i \in 1 .. n /\ cs[i] \in OrderCells /\ ds[i] = cs[i]
          BY <1>2, <1>5, <4>1
        <5>2. QtysOf(r, ds)[i] = r.order[cs[i]].qty /\ RemoveAt(qs, j)[i] = mem.order[cs[i]].qty
          BY <3>1, <3>2, <3>3, <4>1, <5>1
        <5>3. r.order[cs[i]].qty = mem.order[cs[i]].qty
          BY <1>7, <5>1
        <5>4. QED
          BY <5>2, <5>3
      <4>2. CASE ~ (i < j)
        <5>1. i + 1 \in 1 .. n /\ cs[i + 1] \in OrderCells /\ ds[i] = cs[i + 1]
          BY <1>2, <1>5, <4>2
        <5>2. /\ QtysOf(r, ds)[i] = r.order[cs[i + 1]].qty
              /\ RemoveAt(qs, j)[i] = mem.order[cs[i + 1]].qty
          BY <3>1, <3>2, <3>3, <4>2, <5>1
        <5>3. r.order[cs[i + 1]].qty = mem.order[cs[i + 1]].qty
          BY <1>7, <5>1
        <5>4. QED
          BY <5>2, <5>3
      <4>3. QED
        BY <4>1, <4>2
    <3>5. QtysOf(r, ds) = RemoveAt(qs, j)
      BY <3>2, <3>3, <3>4, SeqEqual
    <3>6. Total(QtysOf(r, ds)) = Total(qs) - qs[j] /\ qs[j] = o.qty
      BY <1>2, <1>3, <3>1, <3>5, TotalOfRemoveAt DEF o
    <3>7. mem.level[l].total_qty = Total(qs)
      BY <1>2 DEF ListIs, qs
    <3>8. QED
      BY <1>8, <3>6, <3>7
  <2>4. r.level[l].head = IF ds = <<>> THEN Null ELSE ds[1]
    <3>1. CASE j = 1
      <4>1. o.prev = Null /\ r.level[l].head = o.next
        BY <1>4, <1>8, <3>1
      <4>2. n # 1 => 1 \in 1 .. n - 1 /\ ds[1] = cs[2]
        BY <1>2, <1>5, <3>1
      <4>3. QED
        BY <1>2, <1>4, <2>1, <3>1, <4>1, <4>2
    <3>2. CASE j # 1
      <4>1. j - 1 \in 1 .. n /\ 1 \in 1 .. n - 1 /\ 1 < j /\ n # 1
        BY <1>2, <3>2
      <4>2. o.prev # Null
        BY <1>2, <1>4, <3>2, <4>1, NullIsNoCell
      <4>3. r.level[l].head = mem.level[l].head /\ ds[1] = cs[1] /\ ds # <<>>
        BY <1>5, <1>8, <2>1, <4>1, <4>2
      <4>4. cs # <<>>
        BY <1>1, <1>3, EmptySeq
      <4>5. mem.level[l].head = cs[1]
        BY <1>2, <4>4 DEF ListIs
      <4>6. QED
        BY <4>3, <4>5
    <3>3. QED
      BY <3>1, <3>2
  <2>5. r.level[l].tail = IF ds = <<>> THEN Null ELSE ds[Len(ds)]
    <3>1. CASE j = n
      <4>1. o.next = Null /\ r.level[l].tail = o.prev
        BY <1>4, <1>8, <3>1
      <4>2. n # 1 => n - 1 \in 1 .. n - 1 /\ n - 1 < j /\ ds[n - 1] = cs[n - 1]
        BY <1>2, <1>5, <3>1
      <4>3. QED
        BY <1>2, <1>4, <1>5, <2>1, <3>1, <4>1, <4>2
    <3>2. CASE j # n
      <4>1. j + 1 \in 1 .. n /\ n - 1 \in 1 .. n - 1 /\ ~ (n - 1 < j) /\ n # 1
        BY <1>2, <3>2
      <4>2. o.next # Null
        BY <1>2, <1>4, <3>2, <4>1, NullIsNoCell
      <4>3. (n - 1) + 1 = n
        OBVIOUS
      <4>4. r.level[l].tail = mem.level[l].tail /\ ds[n - 1] = cs[n] /\ ds # <<>>
        BY <1>5, <1>8, <2>1, <4>1, <4>2, <4>3
      <4>5. cs # <<>>
        BY <1>1, <1>3, EmptySeq
      <4>6. mem.level[l].tail = cs[n]
        BY <1>1, <1>2, <4>5 DEF ListIs
      <4>7. QED
        BY <1>5, <4>4, <4>6
    <3>3. QED
      BY <3>1, <3>2
  <2>6. ASSUME NEW i \in 1 .. n - 1
        PROVE  /\ r.order[ds[i]].level = l
               /\ r.order[ds[i]].prev = IF i = 1 THEN Null ELSE ds[i - 1]
               /\ r.order[ds[i]].next = IF i = n - 1 THEN Null ELSE ds[i + 1]
    <3>1. CASE i < j
      <4>1. i \in 1 .. n /\ i # j /\ ds[i] = cs[i] /\ i # j + 1 /\ i # n
        BY <1>2, <1>5, <3>1
      <4>2. /\ r.order[cs[i]].level = l
            /\ r.order[cs[i]].next = IF i = j - 1 THEN o.next ELSE cs[i + 1]
            /\ r.order[cs[i]].prev = IF i = 1 THEN Null ELSE cs[i - 1]
        BY <1>10, <4>1
      <4>3. i # 1 => i - 1 \in 1 .. n - 1 /\ ds[i - 1] = cs[i - 1]
        BY <1>2, <1>5, <3>1
      <4>4. r.order[ds[i]].next = IF i = n - 1 THEN Null ELSE ds[i + 1]
        <5>1. CASE i = j - 1
          <6>1. i + 1 = j /\ (j = n <=> i = n - 1)
            BY <1>2, <5>1
          <6>2. j # n => j \in 1 .. n - 1 /\ ds[j] = cs[j + 1]
            BY <1>2, <1>5
          <6>3. QED
            BY <1>4, <4>1, <4>2, <5>1, <6>1, <6>2
        <5>2. CASE i # j - 1
          <6>1. i + 1 \in 1 .. n - 1 /\ i + 1 < j /\ i # n - 1
            BY <1>2, <3>1, <5>2
          <6>2. ds[i + 1] = cs[i + 1]
            BY <1>5, <6>1
          <6>3. QED
            BY <4>1, <4>2, <5>2, <6>1, <6>2
        <5>3. QED
          BY <5>1, <5>2
      <4>5. QED
        BY <4>1, <4>2, <4>3, <4>4
    <3>2. CASE ~ (i < j)
      <4> DEFINE k == i + 1
      <4>1. k \in 1 .. n /\ k # j /\ ds[i] = cs[k] /\ k # j - 1 /\ k # 1
        BY <1>2, <1>5, <3>2
      <4>2. /\ r.order[cs[k]].level = l
            /\ r.order[cs[k]].next = IF k = n THEN Null ELSE cs[k + 1]
            /\ r.order[cs[k]].prev = IF k = j + 1 THEN o.prev ELSE cs[k - 1]
        <5> HIDE DEF k
        <5>1. QED
          BY <1>10, <4>1
      <4>3. r.order[ds[i]].next = IF i = n - 1 THEN Null ELSE ds[i + 1]
        <5>1. k = n <=> i = n - 1
          OBVIOUS
        <5>2. i # n - 1 => i + 1 \in 1 .. n - 1 /\ ~ (i + 1 < j) /\ ds[i + 1] = cs[k + 1]
          BY <1>2, <1>5, <3>2
        <5> HIDE DEF k
        <5>3. QED
          BY <4>1, <4>2, <5>1, <5>2
      <4>4. r.order[ds[i]].prev = IF i = 1 THEN Null ELSE ds[i - 1]
        <5>1. CASE i = j
          <6>1. k = j + 1
            BY <5>1
          <6>2. i # 1 => i - 1 \in 1 .. n - 1 /\ i - 1 < j /\ ds[i - 1] = cs[j - 1]
            BY <1>2, <1>5, <5>1
          <6>3. r.order[ds[i]].prev = o.prev
            BY <4>1, <4>2, <6>1
          <6>4. QED
            BY <1>4, <5>1, <6>2, <6>3
        <5>2. CASE i # j
          <6>1. k # j + 1 /\ i # 1
            BY <1>2, <3>2, <5>2
          <6>2. i - 1 \in 1 .. n - 1 /\ ~ (i - 1 < j) /\ (i - 1) + 1 = i /\ k - 1 = i
            BY <1>2, <3>2, <5>2
          <6>3. ds[i - 1] = cs[i]
            BY <1>5, <6>2
          <6>4. r.order[ds[i]].prev = cs[k - 1]
            BY <4>1, <4>2, <6>1
          <6>5. QED
            BY <6>1, <6>2, <6>3, <6>4
        <5>3. QED
          BY <5>1, <5>2
      <4>5. QED
        BY <4>1, <4>2, <4>3, <4>4
    <3>3. QED
      BY <3>1, <3>2
  <2>7. ASSUME NEW i \in 1 .. n - 1, NEW k \in 1 .. n - 1, ds[i] = ds[k] PROVE i = k
    <3> DEFINE at(x) == IF x < j THEN x ELSE x + 1
    <3>1. at(i) \in 1 .. n /\ at(k) \in 1 .. n
      BY <1>2
    <3>2. ds[i] = cs[at(i)] /\ ds[k] = cs[at(k)]
      BY <1>5
    <3>3. at(i) = at(k)
      <4> HIDE DEF at
      <4>1. QED
        BY <1>2, <2>7, <3>1, <3>2
    <3>4. QED
      BY <1>2, <3>3
  <2> HIDE DEF ds
  <2>8. QED
    BY <1>5, <2>2, <2>3, <2>4, <2>5, <2>6, <2>7 DEF ListIs
<1>13. ASSUME NEW x \in OrderCells
      PROVE  IF r.order[x].level = Null
             THEN r.order[x].prev = Null /\ r.order[x].next = Null
             ELSE \E i \in 1 .. Len(then[r.order[x].level]) : then[r.order[x].level][i] = x
  <2>1. CASE x = c
    BY <1>7, <2>1
  <2>2. CASE x # c
    <3>1. r.order[x].level = mem.order[x].level
      BY <1>7, <2>2
    <3>2. CASE mem.order[x].level = Null
      <4>1. x # o.prev /\ x # o.next
        <5>1. l # Null
          BY NullIsNoCell
        <5>2. j # 1 => j - 1 \in 1 .. n
          BY <1>2
        <5>3. j # n => j + 1 \in 1 .. n
          BY <1>2
        <5>4. \A i \in 1 .. n : cs[i] # x
          BY <1>2, <3>2, <5>1
        <5>5. QED
          BY <1>4, <5>2, <5>3, <5>4, NullIsNoCell
      <4>2. r.order[x].prev = mem.order[x].prev /\ r.order[x].next = mem.order[x].next
        BY <1>7, <2>2, <4>1
      <4>3. QED
        BY <3>1, <3>2, <4>2 DEF ListsAre
    <3>3. CASE mem.order[x].level # Null
      <4>1. PICK i \in 1 .. Len(lists[mem.order[x].level]) : lists[mem.order[x].level][i] = x
        BY <3>3 DEF ListsAre
      <4>2. mem.order[x].level \in LevelCells
        BY <3>3, MemoryFields DEF OrderCell
      <4>3. CASE mem.order[x].level = l
        <5>1. i \in 1 .. n /\ cs[i] = x /\ i # j
          BY <1>1, <1>3, <2>2, <4>1, <4>3
        <5>2. \E k \in 1 .. Len(ds) : ds[k] = x
          <6>1. CASE i < j
            <7>1. i \in 1 .. Len(ds) /\ ds[i] = x
              BY <1>2, <1>5, <5>1, <6>1
            <7>2. QED
              BY <7>1
          <6>2. CASE i > j
            <7>1. i - 1 \in 1 .. n - 1 /\ ~ (i - 1 < j) /\ (i - 1) + 1 = i
              BY <1>2, <5>1, <6>2
            <7>2. i - 1 \in 1 .. Len(ds) /\ ds[i - 1] = x
              BY <1>5, <5>1, <7>1
            <7>3. QED
              BY <7>2
          <6>3. QED
            BY <1>2, <5>1, <6>1, <6>2
        <5> HIDE DEF ds, then
        <5>3. QED
          BY <1>6, <3>1, <3>3, <4>3, <5>2
      <4>4. CASE mem.order[x].level # l
        BY <1>6, <3>1, <3>3, <4>1, <4>2, <4>4
      <4>5. QED
        BY <4>3, <4>4
    <3>4. QED
      BY <3>2, <3>3
  <2>3. QED
    BY <2>1, <2>2
<1> HIDE DEF then, ds
<1>14. \A x \in LevelCells : ListIs(r, x, then[x])
    BY <1>6, <1>11, <1>12
<1>15. ListsAre(r, then)
    BY <1>6, <1>13, <1>14 DEF ListsAre
<1>16. QED
    BY <1>3, <1>15 DEF then, ds

(* Another quantity: same lists.                                           *)
LEMMA SetQtyLists ==
    ASSUME NEW mem \in Memory, NEW lists, ListsAre(mem, lists),
           NEW l \in LevelCells, NEW j \in 1 .. Len(lists[l]), NEW c, c = lists[l][j],
           NEW qty \in Int, NEW r, r = SetQty(mem, c, qty)
    PROVE  ListsAre(r, lists)
<1> DEFINE cs == lists[l]
<1>1. /\ cs \in Seq(OrderCells) /\ Len(cs) \in Nat /\ ListIs(mem, l, cs)
      /\ c \in OrderCells /\ mem.order[c].level = l
  <2>1. ListIs(mem, l, cs)
    BY DEF ListsAre
  <2>2. QED
    BY <2>1, ListCells
<1>2. /\ r \in Memory
      /\ \A x \in OrderCells :
            /\ r.order[x].level = mem.order[x].level
            /\ r.order[x].prev = mem.order[x].prev /\ r.order[x].next = mem.order[x].next
            /\ r.order[x].qty = IF x = c THEN qty ELSE mem.order[x].qty
      /\ \A x \in LevelCells :
            /\ r.level[x].head = mem.level[x].head /\ r.level[x].tail = mem.level[x].tail
            /\ r.level[x].order_count = mem.level[x].order_count
            /\ x # l => r.level[x] = mem.level[x]
      /\ r.level[l].total_qty = mem.level[l].total_qty + (qty - mem.order[c].qty)
  <2>1. l = mem.order[c].level /\ c \in OrderCells
    BY <1>1
  <2> HIDE DEF cs
  <2>2. QtySet(mem, r, c, l, qty)
    BY <2>1, SetQtyFields
  <2>3. QED
    BY <2>2 DEF QtySet
<1>3. ASSUME NEW x \in LevelCells, x # l PROVE ListIs(r, x, lists[x])
  <2>1. ListIs(mem, x, lists[x])
    BY DEF ListsAre
  <2>2. \A i \in 1 .. Len(lists[x]) : lists[x][i] \in OrderCells /\ mem.order[lists[x][i]].level = x
    BY ListCells
  <2>3. \A i \in 1 .. Len(lists[x]) : lists[x][i] # c
    BY <1>1, <1>3, <2>2
  <2>4. QED
    BY <1>2, <1>3, <2>1, <2>2, <2>3, SameList
<1>4. ListIs(r, l, cs)
  <2> DEFINE qs == QtysOf(mem, cs)
  <2>1. \A i \in 1 .. Len(cs) : cs[i] \in OrderCells /\ (cs[i] = c <=> i = j)
    BY <1>1 DEF ListIs
  <2>2. qs \in Seq(Int) /\ Len(qs) = Len(cs) /\ \A i \in 1 .. Len(cs) : qs[i] = mem.order[cs[i]].qty
    BY <1>1, QtysTyped
  <2>3. /\ QtysOf(r, cs) \in Seq(Int) /\ Len(QtysOf(r, cs)) = Len(cs)
        /\ \A i \in 1 .. Len(cs) : QtysOf(r, cs)[i] = r.order[cs[i]].qty
    BY <1>1, <1>2, QtysTyped
  <2> HIDE DEF qs
  <2>4. QtysOf(r, cs) = [qs EXCEPT ![j] = qty]
    <3>1. /\ [qs EXCEPT ![j] = qty] \in Seq(Int) /\ Len([qs EXCEPT ![j] = qty]) = Len(cs)
          /\ \A i \in 1 .. Len(cs) : [qs EXCEPT ![j] = qty][i] = IF i = j THEN qty ELSE qs[i]
      BY <2>2
    <3>2. ASSUME NEW i \in 1 .. Len(cs) PROVE QtysOf(r, cs)[i] = [qs EXCEPT ![j] = qty][i]
      <4>1. QtysOf(r, cs)[i] = r.order[cs[i]].qty
        BY <2>3
      <4>2. r.order[cs[i]].qty = IF cs[i] = c THEN qty ELSE mem.order[cs[i]].qty
        BY <1>2, <2>1
      <4>3. [qs EXCEPT ![j] = qty][i] = IF i = j THEN qty ELSE mem.order[cs[i]].qty
        BY <2>2, <3>1
      <4>4. QED
        BY <2>1, <4>1, <4>2, <4>3
    <3>3. QED
      BY <2>3, <3>1, <3>2, SeqEqual
  <2>5. Total(QtysOf(r, cs)) = Total(qs) + (qty - qs[j]) /\ qs[j] = mem.order[c].qty
    BY <2>2, <2>4, TotalOfChanged
  <2>6. r.level[l].total_qty = Total(QtysOf(r, cs))
    BY <1>1, <1>2, <2>5 DEF ListIs, qs
  <2>7. \A i \in 1 .. Len(cs) :
          /\ r.order[cs[i]].level = l
          /\ r.order[cs[i]].prev = IF i = 1 THEN Null ELSE cs[i - 1]
          /\ r.order[cs[i]].next = IF i = Len(cs) THEN Null ELSE cs[i + 1]
    <3>1. \A i \in 1 .. Len(cs) :
             /\ mem.order[cs[i]].level = l
             /\ mem.order[cs[i]].prev = IF i = 1 THEN Null ELSE cs[i - 1]
             /\ mem.order[cs[i]].next = IF i = Len(cs) THEN Null ELSE cs[i + 1]
      BY <1>1 DEF ListIs
    <3>2. \A i \in 1 .. Len(cs) :
             /\ r.order[cs[i]].level = mem.order[cs[i]].level
             /\ r.order[cs[i]].prev = mem.order[cs[i]].prev
             /\ r.order[cs[i]].next = mem.order[cs[i]].next
      BY <1>2, <2>1
    <3>3. QED
      BY <3>1, <3>2
  <2>8. QED
    BY <1>1, <1>2, <2>6, <2>7 DEF ListIs
<1>5. ASSUME NEW x \in OrderCells
      PROVE  IF r.order[x].level = Null
             THEN r.order[x].prev = Null /\ r.order[x].next = Null
             ELSE \E i \in 1 .. Len(lists[r.order[x].level]) : lists[r.order[x].level][i] = x
    BY <1>2 DEF ListsAre
<1>6. \A x \in LevelCells : ListIs(r, x, lists[x])
    BY <1>3, <1>4
<1>7. QED
    BY <1>5, <1>6 DEF ListsAre

-----------------------------------------------------------------------------
(* The chain of levels of a side.                                          *)

(* The levels of ch are linked in that order from the best one of side s,  *)
(* each better than the next, and the index finds each of them.            *)
ChainIs(mem, s, ch) ==
    /\ ch \in Seq(LevelCells)
    /\ mem.best[s] = IF ch = <<>> THEN Null ELSE ch[1]
    /\ \A i \in 1 .. Len(ch) :
          /\ mem.level[ch[i]].side = s /\ mem.level[ch[i]].price \in Prices
          /\ mem.level[ch[i]].prev = IF i = 1 THEN Null ELSE ch[i - 1]
          /\ mem.level[ch[i]].next = IF i = Len(ch) THEN Null ELSE ch[i + 1]
          /\ mem.level_index[<<s, mem.level[ch[i]].price>>] = ch[i]
    /\ \A i, j \in 1 .. Len(ch) :
          i < j => Better(s, mem.level[ch[i]].price, mem.level[ch[j]].price)

(* Level l is not in the index of levels.                                  *)
Unindexed(mem, l) == \A k \in LevelKeys : mem.level_index[k] # l

(* The chains of both sides hold the levels in the index and no other.     *)
ChainsAre(mem, chains) ==
    /\ chains \in [Side -> Seq(LevelCells)]
    /\ \A s \in Side : ChainIs(mem, s, chains[s])
    /\ \A s \in Side, p \in Prices : mem.level_index[<<s, p>>] # Null =>
          \E i \in 1 .. Len(chains[s]) : /\ chains[s][i] = mem.level_index[<<s, p>>]
                                         /\ mem.level[chains[s][i]].price = p
    /\ \A l \in LevelCells : Unindexed(mem, l) =>
          mem.level[l].prev = Null /\ mem.level[l].next = Null

(* The pool of levels has the cells the index does not hold, each once.    *)
LevelPoolIs(mem) ==
    /\ \A i, j \in 1 .. Len(mem.level_pool) : mem.level_pool[i] = mem.level_pool[j] => i = j
    /\ \A l \in LevelCells :
          Unindexed(mem, l) <=> \E i \in 1 .. Len(mem.level_pool) : mem.level_pool[i] = l

(* Chains and pool, where neither they nor the index changed.              *)
LEMMA SameChains ==
    ASSUME NEW mem, NEW r, NEW chains, ChainsAre(mem, chains), LevelPoolIs(mem),
           r.level_index = mem.level_index, r.level_pool = mem.level_pool, r.best = mem.best,
           \A x \in LevelCells :
              /\ r.level[x].price = mem.level[x].price /\ r.level[x].side = mem.level[x].side
              /\ r.level[x].prev = mem.level[x].prev /\ r.level[x].next = mem.level[x].next
    PROVE  ChainsAre(r, chains) /\ LevelPoolIs(r)
<1>1. LevelPoolIs(r)
    BY DEF LevelPoolIs, Unindexed
<1>2. ASSUME NEW s \in Side PROVE ChainIs(r, s, chains[s])
  <2>1. ChainIs(mem, s, chains[s])
    BY DEF ChainsAre
  <2> DEFINE ch == chains[s]
  <2>2. ch \in Seq(LevelCells) /\ \A i \in 1 .. Len(ch) : ch[i] \in LevelCells
    BY <2>1 DEF ChainIs
  <2>3. ASSUME NEW i \in 1 .. Len(ch)
        PROVE  /\ r.level[ch[i]].side = s /\ r.level[ch[i]].price \in Prices
               /\ r.level[ch[i]].prev = IF i = 1 THEN Null ELSE ch[i - 1]
               /\ r.level[ch[i]].next = IF i = Len(ch) THEN Null ELSE ch[i + 1]
               /\ r.level_index[<<s, r.level[ch[i]].price>>] = ch[i]
    <3>1. /\ mem.level[ch[i]].side = s /\ mem.level[ch[i]].price \in Prices
          /\ mem.level[ch[i]].prev = IF i = 1 THEN Null ELSE ch[i - 1]
          /\ mem.level[ch[i]].next = IF i = Len(ch) THEN Null ELSE ch[i + 1]
          /\ mem.level_index[<<s, mem.level[ch[i]].price>>] = ch[i]
      BY <2>1 DEF ChainIs
    <3>2. /\ r.level[ch[i]].price = mem.level[ch[i]].price
          /\ r.level[ch[i]].side = mem.level[ch[i]].side
          /\ r.level[ch[i]].prev = mem.level[ch[i]].prev
          /\ r.level[ch[i]].next = mem.level[ch[i]].next
      BY <2>2
    <3> HIDE DEF ch
    <3>3. QED
      BY <3>1, <3>2
  <2>4. ASSUME NEW i \in 1 .. Len(ch), NEW j \in 1 .. Len(ch), i < j
        PROVE  Better(s, r.level[ch[i]].price, r.level[ch[j]].price)
    <3>1. Better(s, mem.level[ch[i]].price, mem.level[ch[j]].price)
      BY <2>1, <2>4 DEF ChainIs
    <3>2. r.level[ch[i]].price = mem.level[ch[i]].price /\ r.level[ch[j]].price = mem.level[ch[j]].price
      BY <2>2
    <3>3. QED
      BY <3>1, <3>2
  <2>5. r.best[s] = IF ch = <<>> THEN Null ELSE ch[1]
    BY <2>1 DEF ChainIs
  <2> HIDE DEF ch
  <2>6. ChainIs(r, s, ch)
    BY <2>2, <2>3, <2>4, <2>5 DEF ChainIs
  <2>7. QED
    BY <2>6 DEF ch
<1>3. ASSUME NEW s \in Side, NEW p \in Prices, r.level_index[<<s, p>>] # Null
      PROVE  \E i \in 1 .. Len(chains[s]) : /\ chains[s][i] = r.level_index[<<s, p>>]
                                            /\ r.level[chains[s][i]].price = p
  <2>1. PICK i \in 1 .. Len(chains[s]) : /\ chains[s][i] = mem.level_index[<<s, p>>]
                                         /\ mem.level[chains[s][i]].price = p
    BY <1>3 DEF ChainsAre
  <2>2. chains[s][i] \in LevelCells
    BY DEF ChainsAre
  <2>3. QED
    BY <2>1, <2>2
<1>4. QED
    BY <1>1, <1>2, <1>3 DEF ChainsAre, Unindexed

(* The cell of level made for side s and price p, and the one of a level   *)
(* of side s given back.                                                   *)
NewLevel(s, p) == [BlankLevel EXCEPT !.price = p, !.side = s]

(* A level as remove_level leaves it.                                      *)
FreeLevel(s) == [BlankLevel EXCEPT !.side = s]

(* The fields of a new level and of a free one.                            *)
LEMMA BlankLevelFields ==
    ASSUME NEW s \in Side
    PROVE  /\ \A p \in Prices :
                 /\ NewLevel(s, p) \in LevelCell
                 /\ NewLevel(s, p).price = p /\ NewLevel(s, p).side = s
                 /\ NewLevel(s, p).total_qty = 0 /\ NewLevel(s, p).order_count = 0
                 /\ NewLevel(s, p).head = Null /\ NewLevel(s, p).tail = Null
                 /\ NewLevel(s, p).prev = Null /\ NewLevel(s, p).next = Null
           /\ FreeLevel(s) \in LevelCell
           /\ FreeLevel(s).side = s
           /\ FreeLevel(s).total_qty = 0 /\ FreeLevel(s).order_count = 0
           /\ FreeLevel(s).head = Null /\ FreeLevel(s).tail = Null
           /\ FreeLevel(s).prev = Null /\ FreeLevel(s).next = Null
<1>1. Null \in OrderCells \union {Null} /\ Null \in LevelCells \union {Null}
      /\ 0 \in Prices \union {0} /\ "Bid" \in Side /\ 0 \in Int /\ 0 \in Nat
    BY DEF Side, Null
<1>2. BlankLevel \in LevelCell
    BY <1>1 DEF BlankLevel, LevelCell
<1>3. /\ BlankLevel.total_qty = 0 /\ BlankLevel.order_count = 0
      /\ BlankLevel.head = Null /\ BlankLevel.tail = Null
      /\ BlankLevel.prev = Null /\ BlankLevel.next = Null
    BY DEF BlankLevel
<1>4. ASSUME NEW p \in Prices, NEW v, v = NewLevel(s, p)
      PROVE  /\ v \in LevelCell
             /\ v.price = p /\ v.side = s /\ v.total_qty = 0 /\ v.order_count = 0
             /\ v.head = Null /\ v.tail = Null /\ v.prev = Null /\ v.next = Null
    BY <1>2, <1>3, <1>4 DEF LevelCell, NewLevel
<1>5. ASSUME NEW v, v = FreeLevel(s)
      PROVE  /\ v \in LevelCell
             /\ v.side = s /\ v.total_qty = 0 /\ v.order_count = 0
             /\ v.head = Null /\ v.tail = Null /\ v.prev = Null /\ v.next = Null
    BY <1>2, <1>3, <1>5 DEF LevelCell, FreeLevel
<1>6. QED
    BY <1>4, <1>5

(* A level or none.                                                        *)
LevelRef == LevelCells \union {Null}

(* A level with other neighbours.                                          *)
LevelBetween(v, before, after) == [v EXCEPT !.prev = before, !.next = after]

LevelBefore(v, after) == [v EXCEPT !.next = after]

LevelAfter(v, before) == [v EXCEPT !.prev = before]

(* Two levels that differ in their place in a chain only.                  *)
SameLevel(v, w) ==
    /\ w.price = v.price /\ w.side = v.side /\ w.total_qty = v.total_qty
    /\ w.order_count = v.order_count /\ w.head = v.head /\ w.tail = v.tail

(* The fields of a level with another next one.                            *)
LEMMA LevelBeforeFields ==
    ASSUME NEW v \in LevelCell, NEW after \in LevelRef,
           NEW w, w = LevelBefore(v, after)
    PROVE  w \in LevelCell /\ SameLevel(v, w) /\ w.prev = v.prev /\ w.next = after
BY DEF LevelCell, LevelRef, LevelBefore, SameLevel

(* The fields of a level with another previous one.                        *)
LEMMA LevelAfterFields ==
    ASSUME NEW v \in LevelCell, NEW before \in LevelRef,
           NEW w, w = LevelAfter(v, before)
    PROVE  w \in LevelCell /\ SameLevel(v, w) /\ w.prev = before /\ w.next = v.next
BY DEF LevelCell, LevelRef, LevelAfter, SameLevel

(* Where the links of the levels but l are those of mem with l between     *)
(* before and after, each level the same otherwise.                        *)
LEMMA ChainedFields ==
    ASSUME NEW mem \in Memory, NEW l \in LevelCells, NEW before \in LevelRef,
           NEW after \in LevelRef, NEW L, L = Chained(mem, l, before, after)
    PROVE  /\ L \in [LevelCells -> LevelCell]
           /\ \A x \in LevelCells :
                 /\ SameLevel(mem.level[x], L[x])
                 /\ x = l => L[x].prev = before /\ L[x].next = after
                 /\ x # l => L[x].next = IF x = before THEN l ELSE mem.level[x].next
                 /\ x # l /\ x # before =>
                       L[x].prev = IF x = after THEN l ELSE mem.level[x].prev
                 /\ x # l /\ x = before => L[x].prev = mem.level[x].prev
<1> DEFINE v(x) == mem.level[x]
           at(x) == IF x = l THEN LevelBetween(v(x), before, after)
                    ELSE IF x = before THEN LevelBefore(v(x), l)
                    ELSE IF x = after THEN LevelAfter(v(x), l)
                    ELSE v(x)
<1>1. ASSUME NEW x \in LevelCells
      PROVE  /\ at(x) \in LevelCell
             /\ SameLevel(v(x), at(x))
             /\ x = l => at(x).prev = before /\ at(x).next = after
             /\ x # l => at(x).next = IF x = before THEN l ELSE v(x).next
             /\ x # l /\ x # before => at(x).prev = IF x = after THEN l ELSE v(x).prev
             /\ x # l /\ x = before => at(x).prev = v(x).prev
  <2>1. v(x) \in LevelCell /\ l \in LevelRef /\ SameLevel(v(x), v(x))
    BY MemoryFields DEF SameLevel, LevelRef
  <2> DEFINE w == at(x)
  <2>2. CASE x = l
    <3>1. w = LevelBetween(v(x), before, after)
      BY <2>2
    <3> HIDE DEF w, v
    <3>2. w \in LevelCell /\ SameLevel(v(x), w) /\ w.prev = before /\ w.next = after
      BY <2>1, <3>1 DEF LevelBetween, LevelCell, LevelRef, SameLevel
    <3>3. QED
      BY <2>2, <3>2 DEF w
  <2>3. CASE x # l /\ x = before
    <3>1. w = LevelBefore(v(x), l)
      BY <2>3
    <3> HIDE DEF w, v
    <3>2. QED
      BY <2>1, <2>3, <3>1, LevelBeforeFields DEF w
  <2>4. CASE x # l /\ x # before /\ x = after
    <3>1. w = LevelAfter(v(x), l)
      BY <2>4
    <3> HIDE DEF w, v
    <3>2. QED
      BY <2>1, <2>4, <3>1, LevelAfterFields DEF w
  <2>5. CASE x # l /\ x # before /\ x # after
    BY <2>1, <2>5
  <2>6. QED
    BY <2>2, <2>3, <2>4, <2>5
<1>2. L = [x \in LevelCells |-> at(x)]
    BY Zenon DEF Chained, LevelBetween, LevelBefore, LevelAfter
<1> HIDE DEF at
<1>3. QED
    BY <1>1, <1>2

(* What get_or_create_level leaves where it makes a level: cell l with     *)
(* side s and price p between before and after.                            *)
LevelMade(mem, r, l, s, p, before, after) ==
    /\ r \in Memory
    /\ r.order = mem.order /\ r.order_pool = mem.order_pool /\ r.order_index = mem.order_index
    /\ r.level_pool = Tail(mem.level_pool)
    /\ r.level_index = [mem.level_index EXCEPT ![<<s, p>>] = l]
    /\ r.best = [mem.best EXCEPT ![s] = IF before = Null THEN l ELSE mem.best[s]]
    /\ SameLevel(NewLevel(s, p), r.level[l])
    /\ r.level[l].prev = before /\ r.level[l].next = after
    /\ \A x \in LevelCells : x # l =>
          /\ SameLevel(mem.level[x], r.level[x])
          /\ r.level[x].next = IF x = before THEN l ELSE mem.level[x].next
          /\ x # before => r.level[x].prev = IF x = after THEN l ELSE mem.level[x].prev
          /\ x = before => r.level[x].prev = mem.level[x].prev

(* The memory with other levels, pool of levels, index and best levels.    *)
Releveled(mem, L, Q, X, B) ==
    [order |-> mem.order, level |-> L, order_pool |-> mem.order_pool, level_pool |-> Q,
     order_index |-> mem.order_index, level_index |-> X, best |-> B]

(* The fields of that memory.                                              *)
LEMMA ReleveledFields ==
    ASSUME NEW mem \in Memory, NEW L \in [LevelCells -> LevelCell], NEW Q \in Seq(LevelCells),
           NEW X \in [LevelKeys -> LevelCells \union {Null}],
           NEW B \in [Side -> LevelCells \union {Null}],
           NEW r, r = Releveled(mem, L, Q, X, B)
    PROVE  /\ r \in Memory
           /\ r.order = mem.order /\ r.order_pool = mem.order_pool
           /\ r.order_index = mem.order_index
           /\ r.level = L /\ r.level_pool = Q /\ r.level_index = X /\ r.best = B
BY DEF Memory, Releveled

(* The memory once a level is taken from the pool for side s and price p.  *)
LevelTaken(mem, l, s, p) ==
    [mem EXCEPT !.level_pool = Tail(mem.level_pool), !.level[l] = NewLevel(s, p)]

(* The fields of that memory.                                              *)
LEMMA LevelTakenFields ==
    ASSUME NEW mem \in Memory, NEW s \in Side, NEW p \in Prices, mem.level_pool # <<>>,
           NEW l, l = Head(mem.level_pool), NEW a, a = LevelTaken(mem, l, s, p)
    PROVE  /\ a \in Memory /\ l \in LevelCells
           /\ a.order = mem.order /\ a.order_pool = mem.order_pool
           /\ a.order_index = mem.order_index /\ a.level_index = mem.level_index
           /\ a.best = mem.best /\ a.level_pool = Tail(mem.level_pool)
           /\ a.level[l] = NewLevel(s, p)
           /\ \A x \in LevelCells : x # l => a.level[x] = mem.level[x]
<1> DEFINE v == NewLevel(s, p)
           L == [mem.level EXCEPT ![l] = v]
           Q == Tail(mem.level_pool)
           X == mem.level_index
           B == mem.best
<1>1. l \in LevelCells /\ Q \in Seq(LevelCells)
    BY MemoryFields, HeadTailProperties
<1>2. v \in LevelCell
    BY BlankLevelFields
<1> HIDE DEF v
<1>3. /\ L \in [LevelCells -> LevelCell] /\ L[l] = v
      /\ \A x \in LevelCells : x # l => L[x] = mem.level[x]
    BY <1>1, <1>2, MemoryFields
<1>6. X \in [LevelKeys -> LevelCells \union {Null}] /\ B \in [Side -> LevelCells \union {Null}]
    BY MemoryFields
<1>4. a = Releveled(mem, L, Q, X, B)
    BY DEF LevelTaken, v, Releveled, Memory
<1> HIDE DEF L, Q, X, B
<1>5. /\ a \in Memory
      /\ a.order = mem.order /\ a.order_pool = mem.order_pool
      /\ a.order_index = mem.order_index
      /\ a.level = L /\ a.level_pool = Q /\ a.level_index = X /\ a.best = B
    BY <1>1, <1>3, <1>4, <1>6, ReleveledFields
<1>7. QED
    BY <1>1, <1>3, <1>5 DEF v, Q, X, B

(* The new level linked into the memory a it was taken in, and indexed.    *)
Inserted(a, l, s, p, before, after) ==
    [a EXCEPT !.level = Chained(a, l, before, after),
              !.best[s] = IF before = Null THEN l ELSE a.best[s],
              !.level_index[<<s, p>>] = l]

(* What insert_level_sorted and the index write for a new level.           *)
LEMMA InsertedFields ==
    ASSUME NEW mem \in Memory, NEW s \in Side, NEW p \in Prices, mem.level_pool # <<>>,
           NEW l, l = Head(mem.level_pool),
           NEW before \in LevelRef, NEW after \in LevelRef,
           before # l, after # l,
           NEW a, a = LevelTaken(mem, l, s, p),
           NEW r, r = Inserted(a, l, s, p, before, after)
    PROVE  LevelMade(mem, r, l, s, p, before, after)
<1> DEFINE L == Chained(a, l, before, after)
           B == [a.best EXCEPT ![s] = IF before = Null THEN l ELSE a.best[s]]
           X == [a.level_index EXCEPT ![<<s, p>>] = l]
           Q == a.level_pool
<1>1. /\ a \in Memory /\ l \in LevelCells
      /\ a.order = mem.order /\ a.order_pool = mem.order_pool
      /\ a.order_index = mem.order_index /\ a.level_index = mem.level_index
      /\ a.best = mem.best /\ a.level_pool = Tail(mem.level_pool)
      /\ a.level[l] = NewLevel(s, p)
      /\ \A x \in LevelCells : x # l => a.level[x] = mem.level[x]
    BY LevelTakenFields
<1>2. L \in [LevelCells -> LevelCell]
    BY <1>1, ChainedFields
<1>9. ASSUME NEW x \in LevelCells
      PROVE  /\ SameLevel(a.level[x], L[x])
             /\ x = l => L[x].prev = before /\ L[x].next = after
             /\ x # l => L[x].next = IF x = before THEN l ELSE a.level[x].next
             /\ x # l /\ x # before => L[x].prev = IF x = after THEN l ELSE a.level[x].prev
             /\ x # l /\ x = before => L[x].prev = a.level[x].prev
  <2> HIDE DEF L
  <2>1. L = Chained(a, l, before, after)
    BY DEF L
  <2>2. QED
    BY <1>1, <2>1, ChainedFields
<1>3. /\ B \in [Side -> LevelCells \union {Null}] /\ X \in [LevelKeys -> LevelCells \union {Null}]
      /\ Q \in Seq(LevelCells)
  <2>1. /\ a.level_index \in [LevelKeys -> LevelCells \union {Null}]
        /\ a.best \in [Side -> LevelCells \union {Null}] /\ a.level_pool \in Seq(LevelCells)
    BY <1>1, MemoryFields
  <2>2. QED
    BY <1>1, <2>1 DEF LevelRef
<1>4. r = Releveled(a, L, Q, X, B)
  <2> HIDE DEF L
  <2>1. r = [a EXCEPT !.level = L, !.best[s] = IF before = Null THEN l ELSE a.best[s],
                      !.level_index[<<s, p>>] = l]
    BY DEF Inserted, L
  <2> DEFINE a1 == [a EXCEPT !.level = L]
             a2 == [a1 EXCEPT !.best = B]
  <2>2. a1.best = a.best /\ a1.level_index = a.level_index
    BY <1>1 DEF Memory
  <2>3. a2.level_index = a1.level_index
    BY <1>1 DEF Memory
  <2>4. r = [a2 EXCEPT !.level_index = X]
    BY <2>1, <2>2, <2>3, Zenon
  <2> HIDE DEF B, X
  <2>5. QED
    BY <1>1, <2>4 DEF Memory, Releveled
<1> HIDE DEF L, B, X, Q
<1>5. /\ r \in Memory
      /\ r.order = a.order /\ r.order_pool = a.order_pool
      /\ r.order_index = a.order_index
      /\ r.level = L /\ r.level_pool = Q /\ r.level_index = X /\ r.best = B
    BY <1>1, <1>2, <1>3, <1>4, ReleveledFields
<1>6. /\ SameLevel(NewLevel(s, p), r.level[l])
      /\ r.level[l].prev = before /\ r.level[l].next = after
    BY <1>1, <1>9, <1>5
<1>7. ASSUME NEW x \in LevelCells, x # l
      PROVE  /\ SameLevel(mem.level[x], r.level[x])
             /\ r.level[x].next = IF x = before THEN l ELSE mem.level[x].next
             /\ x # before => r.level[x].prev = IF x = after THEN l ELSE mem.level[x].prev
             /\ x = before => r.level[x].prev = mem.level[x].prev
  <2>1. a.level[x] = mem.level[x] /\ r.level[x] = L[x]
    BY <1>1, <1>5, <1>7
  <2>2. QED
    BY <1>9, <1>7, <2>1
<1>8. /\ r.level_pool = Tail(mem.level_pool)
      /\ r.level_index = [mem.level_index EXCEPT ![<<s, p>>] = l]
      /\ r.best = [mem.best EXCEPT ![s] = IF before = Null THEN l ELSE mem.best[s]]
    BY <1>1, <1>5 DEF B, X, Q
<1>10. QED
    BY <1>1, <1>5, <1>6, <1>7, <1>8 DEF LevelMade

(* What remove_level leaves of the memory: cell l free, its neighbours     *)
(* before and after linked.                                                *)
LevelGone(mem, r, l) ==
    LET before == mem.level[l].prev
        after  == mem.level[l].next
        s == mem.level[l].side
    IN  /\ r \in Memory
        /\ r.order = mem.order /\ r.order_pool = mem.order_pool
        /\ r.order_index = mem.order_index
        /\ r.level_pool = Cons(l, mem.level_pool)
        /\ r.level_index = [mem.level_index EXCEPT ![<<s, mem.level[l].price>>] = Null]
        /\ r.best = [mem.best EXCEPT ![s] = IF before = Null THEN after ELSE mem.best[s]]
        /\ r.level[l] = FreeLevel(s)
        /\ \A x \in LevelCells : x # l =>
              /\ SameLevel(mem.level[x], r.level[x])
              /\ r.level[x].next = IF x = before THEN after ELSE mem.level[x].next
              /\ x # before => r.level[x].prev = IF x = after THEN before ELSE mem.level[x].prev
              /\ x = before => r.level[x].prev = mem.level[x].prev

(* What remove_level writes, and what it leaves alone.                     *)
LEMMA RemoveLevelFields ==
    ASSUME NEW mem \in Memory, NEW l \in LevelCells, mem.level[l].price \in Prices,
           NEW r, r = RemoveLevel(mem, l)
    PROVE  LevelGone(mem, r, l)
<1> DEFINE v(x) == mem.level[x]
           before == v(l).prev
           after == v(l).next
           s == v(l).side
           p == v(l).price
           at(x) == IF x = l THEN FreeLevel(v(x).side)
                    ELSE IF x = before THEN LevelBefore(v(x), after)
                    ELSE IF x = after THEN LevelAfter(v(x), before)
                    ELSE v(x)
           L == [x \in LevelCells |-> at(x)]
           B == [mem.best EXCEPT ![s] = IF before = Null THEN after ELSE mem.best[s]]
           X == [mem.level_index EXCEPT ![<<s, p>>] = Null]
           Q == Cons(l, mem.level_pool)
<1>1. \A x \in LevelCells : v(x) \in LevelCell
    BY MemoryFields
<1>2. before \in LevelRef /\ after \in LevelRef /\ s \in Side
    BY <1>1 DEF LevelCell, LevelRef
<1>3. ASSUME NEW x \in LevelCells
      PROVE  /\ at(x) \in LevelCell
             /\ x = l => at(x) = FreeLevel(s)
             /\ x # l =>
                /\ SameLevel(v(x), at(x))
                /\ at(x).next = IF x = before THEN after ELSE v(x).next
                /\ x # before => at(x).prev = IF x = after THEN before ELSE v(x).prev
                /\ x = before => at(x).prev = v(x).prev
  <2>1. v(x) \in LevelCell /\ SameLevel(v(x), v(x)) /\ FreeLevel(s) \in LevelCell
    BY <1>1, <1>2, BlankLevelFields DEF SameLevel
  <2> DEFINE w == at(x)
  <2>2. CASE x = l
    BY <1>2, <2>1, <2>2
  <2>3. CASE x # l /\ x = before
    <3>1. w = LevelBefore(v(x), after)
      BY <2>3
    <3> HIDE DEF w, v, before, after
    <3>2. w \in LevelCell /\ SameLevel(v(x), w) /\ w.prev = v(x).prev /\ w.next = after
      BY <1>2, <2>1, <3>1, LevelBeforeFields
    <3>3. QED
      BY <2>3, <3>2 DEF w
  <2>4. CASE x # l /\ x # before /\ x = after
    <3>1. w = LevelAfter(v(x), before)
      BY <2>4
    <3> HIDE DEF w, v, before, after
    <3>2. w \in LevelCell /\ SameLevel(v(x), w) /\ w.prev = before /\ w.next = v(x).next
      BY <1>2, <2>1, <3>1, LevelAfterFields
    <3>3. QED
      BY <2>4, <3>2 DEF w
  <2>5. CASE x # l /\ x # before /\ x # after
    BY <2>1, <2>5
  <2>6. QED
    BY <2>2, <2>3, <2>4, <2>5
<1>4. L \in [LevelCells -> LevelCell] /\ \A x \in LevelCells : L[x] = at(x)
  <2> HIDE DEF at
  <2>1. QED
    BY <1>3
<1>5. B \in [Side -> LevelCells \union {Null}] /\ X \in [LevelKeys -> LevelCells \union {Null}]
    BY <1>2, MemoryFields DEF LevelRef
<1>6. Q \in Seq(LevelCells)
    BY MemoryFields, ConsFacts
<1>7. r = Releveled(mem, L, Q, X, B)
  <2>1. L = Unchained(mem, l, before, after)
    BY Zenon DEF Unchained, FreeLevel, LevelBefore, LevelAfter
  <2> HIDE DEF L
  <2>2. r = [mem EXCEPT !.level = L, !.best[s] = IF before = Null THEN after ELSE @,
                        !.level_index[<<s, p>>] = Null, !.level_pool = Cons(l, @)]
    BY <2>1, Zenon DEF RemoveLevel
  <2>3. QED
    BY <2>2 DEF Memory, Releveled
<1> HIDE DEF L, B, X, Q, at
<1>8. /\ r \in Memory
      /\ r.order = mem.order /\ r.order_pool = mem.order_pool /\ r.order_index = mem.order_index
      /\ r.level = L /\ r.level_pool = Q /\ r.level_index = X /\ r.best = B
    BY <1>4, <1>5, <1>6, <1>7, ReleveledFields
<1>9. r.level[l] = FreeLevel(s)
    BY <1>3, <1>4, <1>8
<1>10. ASSUME NEW x \in LevelCells, x # l
      PROVE  /\ SameLevel(mem.level[x], r.level[x])
             /\ r.level[x].next = IF x = before THEN after ELSE mem.level[x].next
             /\ x # before => r.level[x].prev = IF x = after THEN before ELSE mem.level[x].prev
             /\ x = before => r.level[x].prev = mem.level[x].prev
  <2>1. r.level[x] = at(x)
    BY <1>4, <1>8
  <2>2. QED
    BY <1>3, <1>10, <2>1
<1>11. QED
    BY <1>8, <1>9, <1>10 DEF LevelGone, B, X, Q

(* The levels of a chain, each once, and no more of them than the pool had. *)
LEMMA ChainFacts ==
    ASSUME NEW mem \in Memory, NEW s \in Side, NEW ch, ChainIs(mem, s, ch)
    PROVE  /\ ch \in Seq(LevelCells) /\ Len(ch) \in Nat /\ Len(ch) <= MaxPriceLevels
           /\ \A i \in 1 .. Len(ch) :
                 /\ ch[i] \in LevelCells /\ ch[i] # Null
                 /\ mem.level[ch[i]].side = s /\ mem.level[ch[i]].price \in Prices
           /\ \A i, j \in 1 .. Len(ch) : ch[i] = ch[j] => i = j
<1>1. ch \in Seq(LevelCells) /\ Len(ch) \in Nat
    BY DEF ChainIs
<1>2. ASSUME NEW i \in 1 .. Len(ch)
      PROVE  /\ ch[i] \in LevelCells /\ ch[i] # Null
             /\ mem.level[ch[i]].side = s /\ mem.level[ch[i]].price \in Prices
  <2>1. ch[i] \in LevelCells
    BY <1>1
  <2>2. mem.level[ch[i]].side = s /\ mem.level[ch[i]].price \in Prices
    BY DEF ChainIs
  <2>3. QED
    BY <2>1, <2>2, NullIsNoCell
<1>3. ASSUME NEW i \in 1 .. Len(ch), NEW j \in 1 .. Len(ch), ch[i] = ch[j], i < j PROVE FALSE
  <2>1. Better(s, mem.level[ch[i]].price, mem.level[ch[j]].price)
    BY <1>3 DEF ChainIs
  <2>2. QED
    BY <1>2, <1>3, <2>1, BetterOrders
<1>4. \A i, j \in 1 .. Len(ch) : ch[i] = ch[j] => i = j
  <2>1. ASSUME NEW i \in 1 .. Len(ch), NEW j \in 1 .. Len(ch), ch[i] = ch[j] PROVE i = j
    <3>1. ~ (i < j) /\ ~ (j < i)
      BY <1>3, <2>1
    <3>2. QED
      BY <1>1, <3>1
  <2>2. QED
    BY <2>1
<1>5. Len(ch) <= MaxPriceLevels
  <2> DEFINE R == {ch[i] : i \in 1 .. Len(ch)}
  <2>1. IsFiniteSet(R) /\ Cardinality(R) = Len(ch)
    BY <1>1, <1>4, LenOfDistinct
  <2>2. IsFiniteSet(LevelCells) /\ Cardinality(LevelCells) = MaxPriceLevels
    BY BookAssumption, FS_Interval DEF LevelCells
  <2>3. R \subseteq LevelCells
    BY <1>2
  <2>4. Cardinality(R) <= Cardinality(LevelCells)
    BY <2>2, <2>3, FS_Subset
  <2> HIDE DEF R
  <2>5. QED
    BY <2>1, <2>2, <2>4
<1>6. QED
    BY <1>1, <1>2, <1>4, <1>5

(* The place of price p in the chain ch: the first j levels are better, p  *)
(* is better than the rest.                                                *)
PlaceOf(mem, s, ch, p, j) ==
    /\ \A i \in 1 .. Len(ch) : i <= j => Better(s, mem.level[ch[i]].price, p)
    /\ \A i \in 1 .. Len(ch) : i > j => Better(s, p, mem.level[ch[i]].price)

(* A price no level has has a place in the chain.                          *)
LEMMA PlaceExists ==
    ASSUME NEW mem \in Memory, NEW s \in Side, NEW ch, ChainIs(mem, s, ch),
           NEW p \in Prices, \A i \in 1 .. Len(ch) : mem.level[ch[i]].price # p
    PROVE  \E j \in 0 .. Len(ch) : PlaceOf(mem, s, ch, p, j)
<1> DEFINE P(i) == mem.level[ch[i]].price
           split(k, j) == \A i \in 1 .. k : IF i <= j THEN Better(s, P(i), p) ELSE Better(s, p, P(i))
           T == {k \in 0 .. Len(ch) : \E j \in 0 .. k : split(k, j)}
<1>1. Len(ch) \in Nat /\ \A i \in 1 .. Len(ch) : P(i) \in Prices
    BY ChainFacts
<1>2. 0 \in T
    BY <1>1
<1>3. ASSUME NEW k \in 1 .. Len(ch), k - 1 \in T PROVE k \in T
  <2>1. PICK j \in 0 .. k - 1 : split(k - 1, j)
    BY <1>3
  <2>2. CASE Better(s, P(k), p)
    <3>1. ASSUME NEW i \in 1 .. k PROVE Better(s, P(i), p)
      <4>1. CASE i = k
        BY <2>2, <4>1
      <4>2. CASE i # k
        <5>1. i \in 1 .. Len(ch) /\ i < k
          BY <4>2
        <5>2. Better(s, P(i), P(k))
          BY <5>1 DEF ChainIs
        <5> HIDE DEF P
        <5>3. QED
          BY <1>1, <2>2, <5>1, <5>2, BetterOrders
      <4>3. QED
        BY <4>1, <4>2
    <3>2. split(k, k) /\ k \in 0 .. k
      BY <3>1
    <3> HIDE DEF split
    <3>3. QED
      BY <3>2
  <2>3. CASE ~ Better(s, P(k), p)
    <3>1. Better(s, p, P(k))
      BY <1>1, <2>3, BetterOrders
    <3>2. j \in 0 .. k /\ split(k, j)
      BY <2>1, <3>1
    <3> HIDE DEF split
    <3>3. QED
      BY <3>2
  <2>4. QED
    BY <2>2, <2>3
<1>4. Len(ch) \in T
  <2> HIDE DEF T
  <2>1. Len(ch) \in 0 .. Len(ch)
    BY <1>1
  <2>2. QED
    BY <1>1, <1>2, <1>3, <2>1, InductionTo
<1>5. PICK j \in 0 .. Len(ch) : split(Len(ch), j)
    BY <1>4
<1>6. QED
    BY <1>1, <1>5 DEF PlaceOf

(* The loop of insert_level_sorted stops at the last of the better levels. *)
LEMMA LastBetterIs ==
    ASSUME NEW mem \in Memory, NEW s \in Side, NEW ch, ChainIs(mem, s, ch),
           NEW p \in Prices, NEW j \in 1 .. Len(ch), PlaceOf(mem, s, ch, p, j)
    PROVE  LastBetter(mem, s, p) = ch[j]
<1> DEFINE n == MaxPriceLevels
           step(c) == LET x == mem.level[c].next
                      IN  IF x # Null /\ Better(s, mem.level[x].price, p) THEN x ELSE c
           Is(f) == f = [k \in 0 .. n |-> IF k = 0 THEN mem.best[s] ELSE step(f[k - 1])]
           cur == CHOOSE f : Is(f)
           at(k) == IF k < j THEN ch[k + 1] ELSE ch[j]
           all == [k \in 0 .. n |-> at(k)]
<1>1. /\ Len(ch) \in Nat /\ Len(ch) <= n /\ n \in Nat
      /\ \A i \in 1 .. Len(ch) : ch[i] # Null /\ mem.level[ch[i]].price \in Prices
    BY ChainFacts, BookAssumption
<1>2. at(0) = mem.best[s]
  <2>1. ch # <<>>
    BY <1>1
  <2>2. mem.best[s] = ch[1]
    BY <2>1 DEF ChainIs
  <2>3. QED
    BY <1>1, <2>2
<1>3. ASSUME NEW k \in 1 .. n PROVE step(at(k - 1)) = at(k)
  <2>1. \A i \in 1 .. Len(ch) : mem.level[ch[i]].next = IF i = Len(ch) THEN Null ELSE ch[i + 1]
    BY DEF ChainIs
  <2>2. CASE k < j
    <3>1. k \in 1 .. Len(ch) /\ k + 1 \in 1 .. Len(ch) /\ k + 1 <= j /\ k # Len(ch)
      BY <1>1, <2>2
    <3>2. at(k - 1) = ch[k] /\ at(k) = ch[k + 1]
      BY <2>2
    <3>3. mem.level[ch[k]].next = ch[k + 1] /\ Better(s, mem.level[ch[k + 1]].price, p)
      BY <2>1, <3>1 DEF PlaceOf
    <3> HIDE DEF at
    <3>4. QED
      BY <1>1, <3>1, <3>2, <3>3
  <2>3. CASE ~ (k < j)
    <3>1. at(k - 1) = ch[j] /\ at(k) = ch[j]
      <4>1. ~ (k - 1 < j) \/ k - 1 + 1 = j
        BY <2>3
      <4>2. QED
        BY <2>3, <4>1
    <3>2. step(ch[j]) = ch[j]
      <4>1. CASE j = Len(ch)
        BY <2>1, <4>1
      <4>2. CASE j # Len(ch)
        <5>1. j + 1 \in 1 .. Len(ch) /\ j + 1 > j
          BY <1>1, <4>2
        <5>2. mem.level[ch[j]].next = ch[j + 1] /\ Better(s, p, mem.level[ch[j + 1]].price)
          BY <2>1, <4>2, <5>1 DEF PlaceOf
        <5>3. ~ Better(s, mem.level[ch[j + 1]].price, p)
          BY <1>1, <5>1, <5>2, BetterOrders
        <5>4. QED
          BY <5>2, <5>3
      <4>3. QED
        BY <4>1, <4>2
    <3> HIDE DEF at, step
    <3>3. QED
      BY <3>1, <3>2
  <2>4. QED
    BY <2>2, <2>3
<1>4. Is(cur)
  <2> HIDE DEF at, step
  <2>1. \A k \in 0 .. n : all[k] = IF k = 0 THEN mem.best[s] ELSE step(all[k - 1])
    <3> TAKE k \in 0 .. n
    <3>1. k # 0 => k - 1 \in 0 .. n /\ k \in 1 .. n
      BY <1>1
    <3>2. QED
      BY <1>2, <1>3, <3>1
  <2>2. Is(all)
    <3>1. all = [k \in 0 .. n |-> all[k]]
      OBVIOUS
    <3> HIDE DEF all
    <3>2. QED
      BY <2>1, <3>1
  <2> HIDE DEF Is, all
  <2>3. QED
    BY <2>2
<1>5. \A k \in 0 .. n : cur[k] = at(k)
  <2> DEFINE T == {k \in 0 .. n : cur[k] = at(k)}
  <2> HIDE DEF cur, at, step
  <2>1. 0 \in T
    BY <1>1, <1>2, <1>4
  <2>2. ASSUME NEW k \in 1 .. n, k - 1 \in T PROVE k \in T
    <3>1. cur[k] = step(cur[k - 1])
      BY <1>1, <1>4
    <3>2. QED
      BY <1>3, <2>2, <3>1
  <2> HIDE DEF T
  <2>3. \A k \in 0 .. n : k \in T
    BY <1>1, <2>1, <2>2, InductionTo
  <2>4. QED
    BY <2>3 DEF T
<1>6. LastBetter(mem, s, p) = cur[n]
    BY Zenon DEF LastBetter
<1>7. at(n) = ch[j]
    BY <1>1
<1>8. QED
  <2> HIDE DEF at, cur
  <2>1. n \in 0 .. n
    BY <1>1
  <2>2. QED
    BY <1>5, <1>6, <1>7, <2>1

(* A level the index has is in the chain of its side, under its own price. *)
LEMMA IndexFacts ==
    ASSUME NEW mem \in Memory, NEW chains, ChainsAre(mem, chains), NEW s \in Side,
           NEW p \in Prices, NEW l, l = mem.level_index[<<s, p>>], l # Null
    PROVE  /\ l \in LevelCells /\ mem.level[l].side = s /\ mem.level[l].price = p
           /\ ~ Unindexed(mem, l)
           /\ \E i \in 1 .. Len(chains[s]) : chains[s][i] = l
<1>1. PICK i \in 1 .. Len(chains[s]) : chains[s][i] = l /\ mem.level[l].price = p
    BY DEF ChainsAre
<1>2. ChainIs(mem, s, chains[s])
    BY DEF ChainsAre
<1>3. l \in LevelCells /\ mem.level[l].side = s
    BY <1>1, <1>2, ChainFacts
<1>4. <<s, p>> \in LevelKeys
    BY DEF LevelKeys
<1>5. QED
    BY <1>1, <1>3, <1>4 DEF Unindexed

(* The levels of a chain are indexed.                                      *)
LEMMA ChainIndexed ==
    ASSUME NEW mem \in Memory, NEW s \in Side, NEW ch, ChainIs(mem, s, ch),
           NEW i \in 1 .. Len(ch)
    PROVE  /\ ~ Unindexed(mem, ch[i])
           /\ mem.level_index[<<s, mem.level[ch[i]].price>>] = ch[i]
<1>1. mem.level[ch[i]].price \in Prices
    BY ChainFacts
<1>2. mem.level_index[<<s, mem.level[ch[i]].price>>] = ch[i]
    BY DEF ChainIs
<1>3. <<s, mem.level[ch[i]].price>> \in LevelKeys
    BY <1>1 DEF LevelKeys
<1>4. QED
    BY <1>2, <1>3 DEF Unindexed

(* The chain ch with l behind its first j levels.                          *)
Between(ch, j, l) ==
    [i \in 1 .. Len(ch) + 1 |-> IF i <= j THEN ch[i] ELSE IF i = j + 1 THEN l ELSE ch[i - 1]]

(* The elements of that sequence.                                          *)
LEMMA BetweenFacts ==
    ASSUME NEW ch \in Seq(LevelCells), NEW j \in 0 .. Len(ch), NEW l \in LevelCells
    PROVE  /\ Between(ch, j, l) \in Seq(LevelCells)
           /\ Len(Between(ch, j, l)) = Len(ch) + 1 /\ Between(ch, j, l) # <<>>
           /\ \A i \in 1 .. Len(ch) + 1 : Between(ch, j, l)[i] =
                 IF i <= j THEN ch[i] ELSE IF i = j + 1 THEN l ELSE ch[i - 1]
<1> DEFINE ds == Between(ch, j, l)
<1>1. Len(ch) \in Nat
    OBVIOUS
<1>2. ASSUME NEW i \in 1 .. Len(ch) + 1
      PROVE  (IF i <= j THEN ch[i] ELSE IF i = j + 1 THEN l ELSE ch[i - 1]) \in LevelCells
  <2>1. i <= j => i \in 1 .. Len(ch)
    BY <1>1
  <2>2. ~ (i <= j) /\ i # j + 1 => i - 1 \in 1 .. Len(ch)
    BY <1>1
  <2>3. QED
    BY <2>1, <2>2
<1>3. ds \in Seq(LevelCells) /\ Len(ds) = Len(ch) + 1
    BY <1>1, <1>2 DEF Between
<1>4. ds # <<>>
  <2> HIDE DEF ds
  <2>1. QED
    BY <1>1, <1>3, EmptySeq
<1>5. QED
    BY <1>3, <1>4 DEF Between

(* The chain of a side after a level was made for it at its place.         *)
LEMMA ChainWithLevel ==
    ASSUME NEW mem \in Memory, NEW s \in Side, NEW ch, ChainIs(mem, s, ch), NEW p \in Prices,
           NEW j \in 0 .. Len(ch), PlaceOf(mem, s, ch, p, j),
           NEW l \in LevelCells, Unindexed(mem, l),
           NEW before, before = IF j = 0 THEN Null ELSE ch[j],
           NEW after, after = IF j = Len(ch) THEN Null ELSE ch[j + 1],
           NEW r, LevelMade(mem, r, l, s, p, before, after)
    PROVE  ChainIs(r, s, Between(ch, j, l))
<1> DEFINE ds == Between(ch, j, l)
           P(x) == mem.level[x].price
<1>1. /\ ch \in Seq(LevelCells) /\ Len(ch) \in Nat
      /\ \A i, k \in 1 .. Len(ch) : ch[i] = ch[k] => i = k
    BY ChainFacts
<1>2. PICK n \in Nat : n = Len(ch)
    BY <1>1
<1>3. /\ ds \in Seq(LevelCells) /\ Len(ds) = n + 1 /\ ds # <<>>
      /\ \A i \in 1 .. n + 1 :
            ds[i] = IF i <= j THEN ch[i] ELSE IF i = j + 1 THEN l ELSE ch[i - 1]
  <2>1. /\ ds \in Seq(LevelCells) /\ Len(ds) = Len(ch) + 1 /\ ds # <<>>
        /\ \A i \in 1 .. Len(ch) + 1 :
              ds[i] = IF i <= j THEN ch[i] ELSE IF i = j + 1 THEN l ELSE ch[i - 1]
    BY <1>1, BetweenFacts
  <2> HIDE DEF ds
  <2>2. QED
    BY <1>2, <2>1
<1>4. ASSUME NEW i \in 1 .. n
      PROVE  /\ ch[i] \in LevelCells /\ ch[i] # Null /\ ch[i] # l
             /\ mem.level[ch[i]].side = s /\ P(ch[i]) \in Prices
             /\ mem.level[ch[i]].prev = IF i = 1 THEN Null ELSE ch[i - 1]
             /\ mem.level[ch[i]].next = IF i = n THEN Null ELSE ch[i + 1]
             /\ mem.level_index[<<s, P(ch[i])>>] = ch[i]
  <2>1. ch[i] # l
    BY <1>2, ChainIndexed
  <2>2. /\ ch[i] \in LevelCells /\ ch[i] # Null
        /\ mem.level[ch[i]].side = s /\ P(ch[i]) \in Prices
    BY <1>2, ChainFacts
  <2>3. QED
    BY <1>2, <2>1, <2>2 DEF ChainIs
<1>5. /\ r.level_index = [mem.level_index EXCEPT ![<<s, p>>] = l]
      /\ r.best = [mem.best EXCEPT ![s] = IF before = Null THEN l ELSE mem.best[s]]
      /\ r.level[l].side = s /\ r.level[l].price = p
      /\ r.level[l].prev = before /\ r.level[l].next = after
  <2>1. SameLevel(NewLevel(s, p), r.level[l])
    BY DEF LevelMade
  <2>2. r.level[l].side = s /\ r.level[l].price = p
    BY <2>1, BlankLevelFields DEF SameLevel
  <2>3. QED
    BY <2>2 DEF LevelMade
<1>6. ASSUME NEW x \in LevelCells, x # l
      PROVE  /\ r.level[x].price = mem.level[x].price /\ r.level[x].side = mem.level[x].side
             /\ r.level[x].next = IF x = before THEN l ELSE mem.level[x].next
             /\ x # before => r.level[x].prev = IF x = after THEN l ELSE mem.level[x].prev
             /\ x = before => r.level[x].prev = mem.level[x].prev
    BY <1>6 DEF LevelMade, SameLevel
<1>7. /\ mem.level_index \in [LevelKeys -> LevelCells \union {Null}]
      /\ mem.best \in [Side -> LevelCells \union {Null}]
      /\ \A q \in Prices : <<s, q>> \in LevelKeys
    BY MemoryFields DEF LevelKeys
<1>8. /\ r.level_index[<<s, p>>] = l
      /\ \A q \in Prices : q # p => r.level_index[<<s, q>>] = mem.level_index[<<s, q>>]
      /\ r.best[s] = IF before = Null THEN l ELSE mem.best[s]
    BY <1>5, <1>7
<1>9. \A i \in 1 .. n : P(ch[i]) # p
  <2>1. ASSUME NEW i \in 1 .. n PROVE P(ch[i]) # p
    <3>1. Better(s, P(ch[i]), p) \/ Better(s, p, P(ch[i]))
      <4>1. i <= j \/ i > j
        OBVIOUS
      <4>2. QED
        BY <1>2, <4>1 DEF PlaceOf
    <3>2. QED
      BY <3>1, BetterOrders
  <2>2. QED
    BY <2>1
<1> HIDE DEF ds
<1>10. r.best[s] = ds[1]
  <2>1. CASE j = 0
    BY <1>2, <1>3, <1>8, <2>1
  <2>2. CASE j # 0
    <3>1. j \in 1 .. n /\ 1 \in 1 .. n + 1 /\ 1 <= j /\ ch # <<>>
      BY <1>2, <2>2
    <3>2. before # Null /\ ds[1] = ch[1]
      BY <1>3, <1>4, <2>2, <3>1
    <3>3. mem.best[s] = ch[1]
      BY <3>1 DEF ChainIs
    <3>4. QED
      BY <1>8, <3>2, <3>3
  <2>3. QED
    BY <2>1, <2>2
<1>11. ASSUME NEW i \in 1 .. n + 1
       PROVE  /\ r.level[ds[i]].side = s /\ r.level[ds[i]].price \in Prices
              /\ r.level[ds[i]].price = IF i = j + 1 THEN p ELSE P(ds[i])
              /\ r.level[ds[i]].prev = IF i = 1 THEN Null ELSE ds[i - 1]
              /\ r.level[ds[i]].next = IF i = n + 1 THEN Null ELSE ds[i + 1]
              /\ r.level_index[<<s, r.level[ds[i]].price>>] = ds[i]
  <2>1. CASE i = j + 1
    <3>1. ds[i] = l
      BY <1>3, <2>1
    <3>2. before = IF i = 1 THEN Null ELSE ds[i - 1]
      <4>1. i # 1 => i - 1 \in 1 .. n + 1 /\ i - 1 <= j /\ i - 1 = j
        BY <1>2, <2>1
      <4>2. i = 1 <=> j = 0
        BY <2>1
      <4>3. QED
        BY <1>3, <4>1, <4>2
    <3>3. after = IF i = n + 1 THEN Null ELSE ds[i + 1]
      <4>1. i # n + 1 => i + 1 \in 1 .. n + 1 /\ ~ (i + 1 <= j) /\ i + 1 # j + 1 /\ (i + 1) - 1 = j + 1
        BY <1>2, <2>1
      <4>2. i = n + 1 <=> j = n
        BY <1>2, <2>1
      <4>3. QED
        BY <1>2, <1>3, <4>1, <4>2
    <3>4. QED
      BY <1>5, <1>8, <2>1, <3>1, <3>2, <3>3
  <2>2. CASE i <= j
    <3>1. i \in 1 .. n /\ i # j + 1 /\ i # n + 1 /\ j \in 1 .. n /\ j # 0
      BY <1>2, <2>2
    <3>2. ds[i] = ch[i]
      BY <1>3, <2>2
    <3>3. ch[i] = before <=> i = j
      BY <1>1, <1>2, <3>1
    <3>4. ch[i] # after
      <4>1. j # n => j + 1 \in 1 .. n /\ j + 1 # i
        BY <1>2, <2>2, <3>1
      <4>2. QED
        BY <1>1, <1>2, <1>4, <3>1, <4>1
    <3>5. r.level[ds[i]].prev = IF i = 1 THEN Null ELSE ds[i - 1]
      <4>1. r.level[ch[i]].prev = mem.level[ch[i]].prev
        BY <1>4, <1>6, <3>1, <3>4
      <4>2. i # 1 => i - 1 \in 1 .. n + 1 /\ i - 1 <= j
        BY <1>2, <2>2, <3>1
      <4>3. i # 1 => ds[i - 1] = ch[i - 1]
        BY <1>3, <4>2
      <4>4. mem.level[ch[i]].prev = IF i = 1 THEN Null ELSE ch[i - 1]
        BY <1>4, <3>1
      <4>5. QED
        BY <3>2, <4>1, <4>3, <4>4
    <3>6. r.level[ds[i]].next = ds[i + 1]
      <4>1. r.level[ch[i]].next = IF i = j THEN l ELSE mem.level[ch[i]].next
        BY <1>4, <1>6, <3>1, <3>3
      <4>2. i + 1 \in 1 .. n + 1
        BY <1>2, <3>1
      <4>3. i # j => i + 1 <= j /\ i # n
        BY <1>2, <2>2, <3>1
      <4>4. ds[i + 1] = IF i = j THEN l ELSE ch[i + 1]
        BY <1>3, <4>2, <4>3
      <4>5. mem.level[ch[i]].next = IF i = n THEN Null ELSE ch[i + 1]
        BY <1>4, <3>1
      <4>6. QED
        BY <3>2, <4>1, <4>3, <4>4, <4>5
    <3>10. r.level[ch[i]].side = s /\ r.level[ch[i]].price = P(ch[i]) /\ P(ch[i]) \in Prices
      BY <1>4, <1>6, <3>1
    <3>7. r.level[ds[i]].side = s /\ r.level[ds[i]].price = P(ds[i]) /\ P(ds[i]) \in Prices
      BY <3>2, <3>10
    <3>8. r.level_index[<<s, r.level[ds[i]].price>>] = ds[i]
      BY <1>4, <1>8, <1>9, <3>1, <3>2, <3>7
    <3>9. QED
      BY <3>1, <3>5, <3>6, <3>7, <3>8
  <2>3. CASE i > j + 1
    <3> DEFINE k == i - 1
    <3>1. k \in 1 .. n /\ i # j + 1 /\ ~ (i <= j) /\ k > j /\ i # 1
      BY <1>2, <2>3
    <3>2. ds[i] = ch[k]
      BY <1>3, <3>1
    <3>3. ch[k] # before
      <4>1. j # 0 => j \in 1 .. n /\ j # k
        BY <1>2, <3>1
      <4>2. QED
        BY <1>1, <1>2, <1>4, <3>1, <4>1
    <3>4. ch[k] = after <=> k = j + 1
      <4>1. j # n /\ j + 1 \in 1 .. n
        BY <1>2, <3>1
      <4>2. QED
        BY <1>1, <1>2, <3>1, <4>1
    <3>5. r.level[ds[i]].prev = ds[i - 1]
      <4>1. r.level[ch[k]].prev = IF k = j + 1 THEN l ELSE mem.level[ch[k]].prev
        BY <1>4, <1>6, <3>1, <3>3, <3>4
      <4>2. i - 1 \in 1 .. n + 1
        BY <1>2, <3>1
      <4>3. k # j + 1 => ~ (i - 1 <= j) /\ i - 1 # j + 1 /\ k # 1
        BY <1>2, <3>1
      <4>4. k = j + 1 => ~ (i - 1 <= j) /\ i - 1 = j + 1
        BY <1>2, <3>1
      <4>5. ds[i - 1] = IF k = j + 1 THEN l ELSE ch[k - 1]
        BY <1>3, <4>2, <4>3, <4>4
      <4>6. mem.level[ch[k]].prev = IF k = 1 THEN Null ELSE ch[k - 1]
        BY <1>4, <3>1
      <4>7. QED
        BY <3>2, <4>1, <4>3, <4>5, <4>6
    <3>6. r.level[ds[i]].next = IF i = n + 1 THEN Null ELSE ds[i + 1]
      <4>1. r.level[ch[k]].next = mem.level[ch[k]].next
        BY <1>4, <1>6, <3>1, <3>3
      <4>2. i # n + 1 => i + 1 \in 1 .. n + 1 /\ ~ (i + 1 <= j) /\ i + 1 # j + 1 /\ k # n
                         /\ (i + 1) - 1 = k + 1
        BY <1>2, <2>3
      <4>3. i = n + 1 => k = n
        BY <1>2
      <4>4. i # n + 1 => ds[i + 1] = ch[k + 1]
        BY <1>3, <4>2
      <4>5. mem.level[ch[k]].next = IF k = n THEN Null ELSE ch[k + 1]
        BY <1>4, <3>1
      <4>6. QED
        BY <3>2, <4>1, <4>2, <4>3, <4>4, <4>5
    <3> HIDE DEF k
    <3>10. r.level[ch[k]].side = s /\ r.level[ch[k]].price = P(ch[k]) /\ P(ch[k]) \in Prices
      BY <1>4, <1>6, <3>1
    <3>7. r.level[ds[i]].side = s /\ r.level[ds[i]].price = P(ds[i]) /\ P(ds[i]) \in Prices
      BY <3>2, <3>10
    <3>8. r.level_index[<<s, r.level[ds[i]].price>>] = ds[i]
      BY <1>4, <1>8, <1>9, <3>1, <3>2, <3>7
    <3>9. QED
      BY <3>1, <3>5, <3>6, <3>7, <3>8
  <2>4. QED
    BY <1>2, <2>1, <2>2, <2>3
<1>12. ASSUME NEW i \in 1 .. n + 1, NEW k \in 1 .. n + 1, i < k
       PROVE  Better(s, r.level[ds[i]].price, r.level[ds[k]].price)
  <2>1. \A a, b \in 1 .. n : a < b => Better(s, P(ch[a]), P(ch[b]))
    BY <1>2 DEF ChainIs
  <2>2. r.level[ds[i]].price = (IF i = j + 1 THEN p ELSE P(ds[i]))
        /\ r.level[ds[k]].price = (IF k = j + 1 THEN p ELSE P(ds[k]))
    BY <1>11
  <2>3. CASE i = j + 1
    <3>1. k - 1 \in 1 .. n /\ k - 1 > j /\ k # j + 1 /\ ~ (k <= j)
      BY <1>2, <1>12, <2>3
    <3>2. ds[k] = ch[k - 1] /\ Better(s, p, P(ch[k - 1]))
      BY <1>2, <1>3, <3>1 DEF PlaceOf
    <3>3. QED
      BY <2>2, <2>3, <3>1, <3>2
  <2>4. CASE k = j + 1
    <3>1. i \in 1 .. n /\ i <= j /\ i # j + 1
      BY <1>2, <1>12, <2>4
    <3>2. ds[i] = ch[i] /\ Better(s, P(ch[i]), p)
      BY <1>2, <1>3, <3>1 DEF PlaceOf
    <3>3. QED
      BY <2>2, <2>4, <3>1, <3>2
  <2>5. CASE i # j + 1 /\ k # j + 1
    <3> DEFINE a == IF i <= j THEN i ELSE i - 1
               b == IF k <= j THEN k ELSE k - 1
    <3>1. a \in 1 .. n /\ b \in 1 .. n /\ a < b
      BY <1>2, <1>12, <2>5
    <3>2. ds[i] = ch[a] /\ ds[k] = ch[b]
      BY <1>3, <2>5
    <3> HIDE DEF a, b
    <3>3. QED
      BY <2>1, <2>2, <2>5, <3>1, <3>2
  <2>6. QED
    BY <2>3, <2>4, <2>5
<1>13. ChainIs(r, s, ds)
    BY <1>3, <1>10, <1>11, <1>12 DEF ChainIs
<1>14. QED
    BY <1>13 DEF ds

(* What a free level is, and what the pool is without its first.           *)
LEMMA FreeLevelFacts ==
    ASSUME NEW mem \in Memory, LevelPoolIs(mem), mem.level_pool # <<>>
    PROVE  /\ Head(mem.level_pool) \in LevelCells /\ Head(mem.level_pool) # Null
           /\ Unindexed(mem, Head(mem.level_pool))
           /\ Tail(mem.level_pool) \in Seq(LevelCells) /\ Len(Tail(mem.level_pool)) \in Nat
           /\ \A i, j \in 1 .. Len(Tail(mem.level_pool)) :
                 Tail(mem.level_pool)[i] = Tail(mem.level_pool)[j] => i = j
           /\ \A x \in LevelCells :
                 (\E i \in 1 .. Len(Tail(mem.level_pool)) : Tail(mem.level_pool)[i] = x)
                    <=> Unindexed(mem, x) /\ x # Head(mem.level_pool)
<1> DEFINE w == mem.level_pool
           l == Head(w)
           q == Tail(w)
<1>1. /\ w \in Seq(LevelCells) /\ Len(w) \in Nat /\ Len(w) # 0 /\ l = w[1]
      /\ q \in Seq(LevelCells) /\ Len(q) = Len(w) - 1
      /\ \A i \in 1 .. Len(q) : q[i] = w[i + 1]
    BY MemoryFields, HeadTailProperties, EmptySeq
<1>2. 1 \in 1 .. Len(w) /\ w[1] \in LevelCells
    BY <1>1
<1>3. /\ \A i, j \in 1 .. Len(w) : w[i] = w[j] => i = j
      /\ \A x \in LevelCells : Unindexed(mem, x) <=> \E i \in 1 .. Len(w) : w[i] = x
    BY DEF LevelPoolIs
<1> HIDE DEF w, l, q
<1>4. \A i \in 1 .. Len(q) : i + 1 \in 1 .. Len(w) /\ i + 1 # 1
    BY <1>1
<1>5. \A i \in 1 .. Len(w) : i # 1 => i - 1 \in 1 .. Len(q) /\ (i - 1) + 1 = i
    BY <1>1
<1>6. l \in LevelCells /\ l # Null /\ Unindexed(mem, l)
    BY <1>1, <1>2, <1>3, NullIsNoCell
<1>7. ASSUME NEW i \in 1 .. Len(q), NEW j \in 1 .. Len(q), q[i] = q[j] PROVE i = j
  <2>1. w[i + 1] = w[j + 1]
    BY <1>1, <1>7
  <2>2. i + 1 = j + 1
    BY <1>3, <1>4, <2>1
  <2>3. QED
    BY <2>2
<1>8. ASSUME NEW x \in LevelCells
      PROVE  (\E i \in 1 .. Len(q) : q[i] = x) <=> Unindexed(mem, x) /\ x # l
  <2>1. ASSUME NEW i \in 1 .. Len(q), q[i] = x PROVE Unindexed(mem, x) /\ x # l
    <3>1. w[i + 1] = x /\ i + 1 \in 1 .. Len(w) /\ i + 1 # 1
      BY <1>1, <1>4, <2>1
    <3>2. QED
      BY <1>1, <1>2, <1>3, <3>1
  <2>2. ASSUME Unindexed(mem, x), x # l PROVE \E i \in 1 .. Len(q) : q[i] = x
    <3>1. PICK i \in 1 .. Len(w) : w[i] = x
      BY <1>3, <2>2
    <3>2. i # 1
      BY <1>1, <2>2, <3>1
    <3>3. i - 1 \in 1 .. Len(q) /\ q[i - 1] = w[(i - 1) + 1]
      BY <1>1, <1>5, <3>2
    <3>4. QED
      BY <1>5, <3>1, <3>2, <3>3
  <2>3. QED
    BY <2>1, <2>2
<1>9. QED
    BY <1>1, <1>6, <1>7, <1>8 DEF w, l, q

(* A chain of the other side: nothing of it changed.                       *)
LEMMA OtherChain ==
    ASSUME NEW mem \in Memory, NEW r \in Memory, NEW t \in Side, NEW ch, ChainIs(mem, t, ch),
           r.best[t] = mem.best[t],
           \A i \in 1 .. Len(ch) :
              /\ SameLevel(mem.level[ch[i]], r.level[ch[i]])
              /\ r.level[ch[i]].prev = mem.level[ch[i]].prev
              /\ r.level[ch[i]].next = mem.level[ch[i]].next,
           \A p \in Prices : r.level_index[<<t, p>>] = mem.level_index[<<t, p>>]
    PROVE  ChainIs(r, t, ch)
<1>1. ASSUME NEW i \in 1 .. Len(ch)
      PROVE  /\ r.level[ch[i]].side = t /\ r.level[ch[i]].price \in Prices
             /\ r.level[ch[i]].price = mem.level[ch[i]].price
             /\ r.level[ch[i]].prev = IF i = 1 THEN Null ELSE ch[i - 1]
             /\ r.level[ch[i]].next = IF i = Len(ch) THEN Null ELSE ch[i + 1]
             /\ r.level_index[<<t, r.level[ch[i]].price>>] = ch[i]
  <2>1. /\ mem.level[ch[i]].side = t /\ mem.level[ch[i]].price \in Prices
        /\ mem.level[ch[i]].prev = IF i = 1 THEN Null ELSE ch[i - 1]
        /\ mem.level[ch[i]].next = IF i = Len(ch) THEN Null ELSE ch[i + 1]
        /\ mem.level_index[<<t, mem.level[ch[i]].price>>] = ch[i]
    BY DEF ChainIs
  <2>2. QED
    BY <2>1 DEF SameLevel
<1>2. ASSUME NEW i \in 1 .. Len(ch), NEW j \in 1 .. Len(ch), i < j
      PROVE  Better(t, r.level[ch[i]].price, r.level[ch[j]].price)
  <2>1. Better(t, mem.level[ch[i]].price, mem.level[ch[j]].price)
    BY <1>2 DEF ChainIs
  <2>2. QED
    BY <1>1, <2>1
<1>3. ch \in Seq(LevelCells) /\ r.best[t] = IF ch = <<>> THEN Null ELSE ch[1]
    BY DEF ChainIs
<1>4. QED
    BY <1>1, <1>2, <1>3 DEF ChainIs

(* get_or_create_level where it makes a level at its place in the chain.   *)
LEMMA LevelMadeChains ==
    ASSUME NEW mem \in Memory, NEW chains, ChainsAre(mem, chains), LevelPoolIs(mem),
           NEW s \in Side, NEW p \in Prices, mem.level_index[<<s, p>>] = Null,
           mem.level_pool # <<>>, NEW l, l = Head(mem.level_pool),
           NEW ch, ch = chains[s], NEW j \in 0 .. Len(ch), PlaceOf(mem, s, ch, p, j),
           NEW before, before = IF j = 0 THEN Null ELSE ch[j],
           NEW after, after = IF j = Len(ch) THEN Null ELSE ch[j + 1],
           NEW r, LevelMade(mem, r, l, s, p, before, after)
    PROVE  /\ ChainsAre(r, [chains EXCEPT ![s] = Between(ch, j, l)])
           /\ LevelPoolIs(r)
<1> DEFINE ds == Between(ch, j, l)
           then == [chains EXCEPT ![s] = ds]
           q == Tail(mem.level_pool)
<1>1. ChainIs(mem, s, ch) /\ ch \in Seq(LevelCells) /\ Len(ch) \in Nat
    BY ChainFacts DEF ChainsAre
<1>2. /\ l \in LevelCells /\ l # Null /\ Unindexed(mem, l)
      /\ q \in Seq(LevelCells) /\ Len(q) \in Nat
      /\ \A i, k \in 1 .. Len(q) : q[i] = q[k] => i = k
      /\ \A x \in LevelCells :
            (\E i \in 1 .. Len(q) : q[i] = x) <=> Unindexed(mem, x) /\ x # l
    BY FreeLevelFacts
<1>3. ChainIs(r, s, ds)
    BY <1>1, <1>2, ChainWithLevel
<1>4. /\ r \in Memory /\ r.level_pool = q
      /\ r.level_index = [mem.level_index EXCEPT ![<<s, p>>] = l]
      /\ r.best = [mem.best EXCEPT ![s] = IF before = Null THEN l ELSE mem.best[s]]
      /\ r.level[l].price = p
  <2>1. SameLevel(NewLevel(s, p), r.level[l])
    BY DEF LevelMade
  <2>2. QED
    BY <2>1, BlankLevelFields DEF LevelMade, SameLevel
<1>5. ASSUME NEW x \in LevelCells, x # l
      PROVE  /\ SameLevel(mem.level[x], r.level[x])
             /\ x # before => r.level[x].next = mem.level[x].next
             /\ x # before /\ x # after => r.level[x].prev = mem.level[x].prev
    BY <1>5 DEF LevelMade
<1>6. /\ mem.level_index \in [LevelKeys -> LevelCells \union {Null}]
      /\ mem.best \in [Side -> LevelCells \union {Null}]
      /\ \A t \in Side, y \in Prices : <<t, y>> \in LevelKeys
      /\ <<s, p>> \in LevelKeys
    BY MemoryFields DEF LevelKeys
<1>7. /\ r.level_index[<<s, p>>] = l
      /\ \A k \in LevelKeys : k # <<s, p>> => r.level_index[k] = mem.level_index[k]
      /\ \A t \in Side : t # s => r.best[t] = mem.best[t]
    BY <1>4, <1>6
<1>8. ASSUME NEW x \in LevelCells
      PROVE  /\ Unindexed(r, x) <=> Unindexed(mem, x) /\ x # l
             /\ Unindexed(mem, x) => x # before /\ x # after
             /\ x = before \/ x = after => mem.level[x].side = s
  <2>1. Unindexed(r, x) <=> Unindexed(mem, x) /\ x # l
    <3>1. x # Null
      BY NullIsNoCell
    <3>2. QED
      BY <1>6, <1>7, <3>1 DEF Unindexed
  <2>2. before # Null => j \in 1 .. Len(ch) /\ before = ch[j]
    BY <1>1
  <2>3. after # Null => j + 1 \in 1 .. Len(ch) /\ after = ch[j + 1]
    BY <1>1
  <2>4. x # Null
    BY NullIsNoCell
  <2>5. \A i \in 1 .. Len(ch) : ~ Unindexed(mem, ch[i]) /\ mem.level[ch[i]].side = s
    <3>1. \A i \in 1 .. Len(ch) : ~ Unindexed(mem, ch[i])
      BY <1>1, ChainIndexed
    <3>2. \A i \in 1 .. Len(ch) : mem.level[ch[i]].side = s
      BY <1>1, ChainFacts
    <3>3. QED
      BY <3>1, <3>2
  <2>6. QED
    BY <2>1, <2>2, <2>3, <2>4, <2>5
<1>9. then \in [Side -> Seq(LevelCells)] /\ then[s] = ds
      /\ \A t \in Side : t # s => then[t] = chains[t]
  <2>1. ds \in Seq(LevelCells)
    BY <1>3 DEF ChainIs
  <2>2. chains \in [Side -> Seq(LevelCells)]
    BY DEF ChainsAre
  <2> HIDE DEF ds
  <2>3. QED
    BY <2>1, <2>2
<1>10. ASSUME NEW t \in Side PROVE ChainIs(r, t, then[t])
  <2>1. CASE t = s
    BY <1>3, <1>9, <2>1
  <2>2. CASE t # s
    <3> DEFINE cs == chains[t]
    <3>1. ChainIs(mem, t, cs)
      BY DEF ChainsAre
    <3>2. ASSUME NEW i \in 1 .. Len(cs)
          PROVE  /\ SameLevel(mem.level[cs[i]], r.level[cs[i]])
                 /\ r.level[cs[i]].prev = mem.level[cs[i]].prev
                 /\ r.level[cs[i]].next = mem.level[cs[i]].next
      <4>1. cs[i] \in LevelCells /\ mem.level[cs[i]].side = t /\ ~ Unindexed(mem, cs[i])
        <5> HIDE DEF cs
        <5>1. cs[i] \in LevelCells /\ mem.level[cs[i]].side = t
          BY <3>1, ChainFacts
        <5>2. ~ Unindexed(mem, cs[i])
          BY <3>1, ChainIndexed
        <5>3. QED
          BY <5>1, <5>2
      <4>2. cs[i] # l /\ cs[i] # before /\ cs[i] # after
        BY <1>2, <1>8, <2>2, <4>1
      <4>3. QED
        BY <1>5, <4>1, <4>2
    <3>3. \A y \in Prices : r.level_index[<<t, y>>] = mem.level_index[<<t, y>>]
      BY <1>6, <1>7, <2>2
    <3> HIDE DEF cs
    <3>4. ChainIs(r, t, cs)
      BY <1>4, <1>7, <2>2, <3>1, <3>2, <3>3, OtherChain
    <3>5. QED
      BY <1>9, <2>2, <3>4 DEF cs
  <2>3. QED
    BY <2>1, <2>2
<1>11. ASSUME NEW t \in Side, NEW y \in Prices, r.level_index[<<t, y>>] # Null
       PROVE  \E i \in 1 .. Len(then[t]) : /\ then[t][i] = r.level_index[<<t, y>>]
                                           /\ r.level[then[t][i]].price = y
  <2>1. Len(ds) = Len(ch) + 1
        /\ \A i \in 1 .. Len(ch) + 1 :
              ds[i] = IF i <= j THEN ch[i] ELSE IF i = j + 1 THEN l ELSE ch[i - 1]
    <3>1. l \in LevelCells
      BY <1>2
    <3>2. QED
      BY <1>1, <3>1, BetweenFacts, Zenon
  <2>5. Len(ch) \in Nat /\ j \in Nat /\ j <= Len(ch)
    BY <1>1
  <2> HIDE DEF ds
  <2>2. CASE <<t, y>> = <<s, p>>
    <3>1. j + 1 \in 1 .. Len(ds) /\ ds[j + 1] = l
      <4>1. j + 1 \in 1 .. Len(ch) + 1 /\ ~ (j + 1 <= j)
        BY <2>5
      <4>2. QED
        BY <2>1, <4>1
    <3>2. QED
      BY <1>4, <1>7, <1>9, <2>2, <3>1
  <2>3. CASE <<t, y>> # <<s, p>>
    <3>1. r.level_index[<<t, y>>] = mem.level_index[<<t, y>>]
      BY <1>6, <1>7, <2>3
    <3>2. PICK i \in 1 .. Len(chains[t]) : /\ chains[t][i] = mem.level_index[<<t, y>>]
                                           /\ mem.level[chains[t][i]].price = y
      BY <1>11, <3>1 DEF ChainsAre
    <3>3. ChainIs(mem, t, chains[t])
      BY DEF ChainsAre
    <3>4. chains[t][i] \in LevelCells /\ ~ Unindexed(mem, chains[t][i])
      BY <3>3, ChainFacts, ChainIndexed
    <3>5. chains[t][i] # l
      BY <1>2, <3>4
    <3>6. r.level[chains[t][i]].price = y
      BY <1>5, <3>2, <3>4, <3>5 DEF SameLevel
    <3>7. CASE t = s
      <4>3. i \in 1 .. Len(ch) /\ chains[t][i] = ch[i]
        BY <3>7
      <4> DEFINE k == IF i <= j THEN i ELSE i + 1
      <4>1. k \in 1 .. Len(ds) /\ ds[k] = ch[i]
        <5>1. CASE i <= j
          <6>1. i \in 1 .. Len(ch) + 1
            BY <1>1, <4>3
          <6>2. QED
            BY <2>1, <5>1, <6>1
        <5>2. CASE ~ (i <= j)
          <6>1. i + 1 \in 1 .. Len(ch) + 1 /\ ~ (i + 1 <= j) /\ i + 1 # j + 1 /\ (i + 1) - 1 = i
            BY <2>5, <4>3, <5>2
          <6>2. QED
            BY <2>1, <5>2, <6>1
        <5>3. QED
          BY <5>1, <5>2
      <4> HIDE DEF k
      <4>2. QED
        BY <1>9, <3>1, <3>2, <3>6, <3>7, <4>1, <4>3
    <3>8. CASE t # s
      BY <1>9, <3>1, <3>2, <3>6, <3>8
    <3>9. QED
      BY <3>7, <3>8
  <2>4. QED
    BY <2>2, <2>3
<1>12. ASSUME NEW x \in LevelCells, Unindexed(r, x)
       PROVE  r.level[x].prev = Null /\ r.level[x].next = Null
  <2>1. Unindexed(mem, x) /\ x # l /\ x # before /\ x # after
    BY <1>8, <1>12
  <2>2. mem.level[x].prev = Null /\ mem.level[x].next = Null
    BY <2>1 DEF ChainsAre
  <2>3. QED
    BY <1>5, <2>1, <2>2
<1>13. LevelPoolIs(r)
  <2> HIDE DEF q
  <2>1. QED
    BY <1>2, <1>4, <1>8 DEF LevelPoolIs
<1> HIDE DEF then
<1>14. ChainsAre(r, then)
    BY <1>9, <1>10, <1>11, <1>12 DEF ChainsAre
<1>15. QED
    BY <1>13, <1>14 DEF then

(* The chain of a side after its level at place j was removed.             *)
LEMMA ChainWithoutLevel ==
    ASSUME NEW mem \in Memory, NEW s \in Side, NEW ch, ChainIs(mem, s, ch),
           NEW j \in 1 .. Len(ch), NEW l, l = ch[j], NEW r, LevelGone(mem, r, l)
    PROVE  ChainIs(r, s, RemoveAt(ch, j))
<1> DEFINE ds == RemoveAt(ch, j)
           P(x) == mem.level[x].price
           p == P(l)
           before == mem.level[l].prev
           after == mem.level[l].next
<1>1. /\ ch \in Seq(LevelCells) /\ Len(ch) \in Nat
      /\ \A i, k \in 1 .. Len(ch) : ch[i] = ch[k] => i = k
    BY ChainFacts
<1>2. PICK n \in Nat : n = Len(ch)
    BY <1>1
<1>3. ds \in Seq(LevelCells) /\ Len(ds) = n - 1
    BY <1>1, <1>2, RemoveAtFacts
<1>4. \A i \in 1 .. n - 1 : ds[i] = IF i < j THEN ch[i] ELSE ch[i + 1]
    BY <1>1, <1>2, RemoveAtFacts
<1>5. ASSUME NEW i \in 1 .. n
      PROVE  /\ ch[i] \in LevelCells /\ ch[i] # Null
             /\ mem.level[ch[i]].side = s /\ P(ch[i]) \in Prices
             /\ mem.level[ch[i]].prev = IF i = 1 THEN Null ELSE ch[i - 1]
             /\ mem.level[ch[i]].next = IF i = n THEN Null ELSE ch[i + 1]
             /\ mem.level_index[<<s, P(ch[i])>>] = ch[i]
  <2>1. /\ ch[i] \in LevelCells /\ ch[i] # Null
        /\ mem.level[ch[i]].side = s /\ P(ch[i]) \in Prices
    BY <1>2, ChainFacts
  <2>2. QED
    BY <1>2, <2>1 DEF ChainIs
<1>6. /\ j \in 1 .. n /\ l \in LevelCells /\ mem.level[l].side = s /\ p \in Prices
      /\ before = IF j = 1 THEN Null ELSE ch[j - 1]
      /\ after = IF j = n THEN Null ELSE ch[j + 1]
    BY <1>2, <1>5
<1>7. /\ r.level_index = [mem.level_index EXCEPT ![<<s, p>>] = Null]
      /\ r.best = [mem.best EXCEPT ![s] = IF before = Null THEN after ELSE mem.best[s]]
    BY <1>6 DEF LevelGone
<1>8. ASSUME NEW x \in LevelCells, x # l
      PROVE  /\ r.level[x].price = mem.level[x].price /\ r.level[x].side = mem.level[x].side
             /\ r.level[x].next = IF x = before THEN after ELSE mem.level[x].next
             /\ x # before => r.level[x].prev = IF x = after THEN before ELSE mem.level[x].prev
             /\ x = before => r.level[x].prev = mem.level[x].prev
    BY <1>8 DEF LevelGone, SameLevel
<1>9. /\ mem.level_index \in [LevelKeys -> LevelCells \union {Null}]
      /\ mem.best \in [Side -> LevelCells \union {Null}]
      /\ \A q \in Prices : <<s, q>> \in LevelKeys
    BY MemoryFields DEF LevelKeys
<1>10. /\ \A q \in Prices : q # p => r.level_index[<<s, q>>] = mem.level_index[<<s, q>>]
       /\ r.best[s] = IF before = Null THEN after ELSE mem.best[s]
    BY <1>7, <1>9
<1>11. ASSUME NEW i \in 1 .. n, i # j PROVE ch[i] # l /\ P(ch[i]) # p
  <2>1. ch[i] # l
    BY <1>1, <1>2, <1>6, <1>11
  <2>2. mem.level_index[<<s, P(ch[i])>>] = ch[i] /\ mem.level_index[<<s, P(ch[j])>>] = ch[j]
    BY <1>5, <1>6
  <2>3. QED
    BY <2>1, <2>2
<1>12. ASSUME NEW i \in 1 .. n
       PROVE  /\ ch[i] = before <=> i = j - 1
              /\ ch[i] = after <=> i = j + 1
  <2>1. j # 1 => j - 1 \in 1 .. n
    BY <1>6
  <2>2. j # n => j + 1 \in 1 .. n
    BY <1>2, <1>6
  <2>3. j \in Int /\ n \in Int /\ i # 0 /\ i # n + 1 /\ ch[i] # Null
    <3>1. j \in Int /\ n \in Int
      BY <1>6
    <3>2. ch[i] # Null
      BY <1>5
    <3>3. QED
      BY <3>1, <3>2
  <2>4. ch[i] = before <=> i = j - 1
    <3>1. CASE j = 1
      BY <1>6, <2>3, <3>1
    <3>2. CASE j # 1
      BY <1>1, <1>2, <1>6, <2>1, <3>2
    <3>3. QED
      BY <3>1, <3>2
  <2>5. ch[i] = after <=> i = j + 1
    <3>1. CASE j = n
      BY <1>6, <2>3, <3>1
    <3>2. CASE j # n
      BY <1>1, <1>2, <1>6, <2>2, <3>2
    <3>3. QED
      BY <3>1, <3>2
  <2>6. QED
    BY <2>4, <2>5
<1>13. /\ n \in Int /\ j \in Int /\ 1 <= j /\ j <= n
    BY <1>2, <1>6
<1> HIDE DEF ds, before, after, p
<1>14. r.best[s] = IF ds = <<>> THEN Null ELSE ds[1]
  <2>1. ds = <<>> <=> n = 1
    BY <1>3, <1>13, EmptySeq
  <2>2. mem.best[s] = ch[1]
    <3>1. ch # <<>>
      BY <1>2, <1>13
    <3>2. QED
      BY <3>1 DEF ChainIs
  <2>3. CASE j = 1
    <3>1. r.best[s] = IF n = 1 THEN Null ELSE ch[2]
      BY <1>6, <1>10, <2>3
    <3>2. n # 1 => 1 \in 1 .. n - 1 /\ ds[1] = ch[2]
      BY <1>4, <1>13, <2>3
    <3>3. QED
      BY <2>1, <3>1, <3>2
  <2>4. CASE j # 1
    <3>1. before # Null /\ 1 \in 1 .. n - 1 /\ n # 1 /\ 1 < j
      <4>1. j - 1 \in 1 .. n /\ before = ch[j - 1]
        BY <1>6, <1>13, <2>4
      <4>2. before # Null
        BY <1>5, <4>1
      <4>3. QED
        BY <1>13, <2>4, <4>2
    <3>2. ds[1] = ch[1]
      BY <1>4, <3>1
    <3>3. QED
      BY <1>10, <2>1, <2>2, <3>1, <3>2
  <2>5. QED
    BY <2>3, <2>4
<1>15. ASSUME NEW i \in 1 .. n - 1
       PROVE  /\ r.level[ds[i]].side = s /\ r.level[ds[i]].price \in Prices
              /\ r.level[ds[i]].price = P(ds[i])
              /\ r.level[ds[i]].prev = IF i = 1 THEN Null ELSE ds[i - 1]
              /\ r.level[ds[i]].next = IF i = n - 1 THEN Null ELSE ds[i + 1]
              /\ r.level_index[<<s, r.level[ds[i]].price>>] = ds[i]
  <2> DEFINE k == IF i < j THEN i ELSE i + 1
  <2>1. k \in 1 .. n /\ k # j /\ ds[i] = ch[k]
    BY <1>4, <1>13
  <2>2. CASE i < j
    <3>1. k = i /\ ch[k] # after /\ (ch[k] = before <=> i = j - 1)
      BY <1>12, <1>13, <2>1, <2>2
    <3> HIDE DEF k
    <3>2. r.level[ds[i]].prev = IF i = 1 THEN Null ELSE ds[i - 1]
      <4>1. r.level[ch[k]].prev = mem.level[ch[k]].prev
        BY <1>5, <1>8, <1>11, <2>1, <3>1
      <4>2. i # 1 => i - 1 \in 1 .. n - 1 /\ i - 1 < j
        BY <1>13, <2>2
      <4>3. i # 1 => ds[i - 1] = ch[i - 1]
        BY <1>4, <4>2
      <4>4. mem.level[ch[k]].prev = IF k = 1 THEN Null ELSE ch[k - 1]
        BY <1>5, <2>1
      <4>5. QED
        BY <2>1, <3>1, <4>1, <4>3, <4>4
    <3>3. r.level[ds[i]].next = IF i = n - 1 THEN Null ELSE ds[i + 1]
      <4>1. r.level[ch[k]].next = IF i = j - 1 THEN after ELSE mem.level[ch[k]].next
        BY <1>5, <1>8, <1>11, <2>1, <3>1
      <4>2. CASE i = j - 1
        <5>1. i # n - 1 => i + 1 \in 1 .. n - 1 /\ ~ (i + 1 < j) /\ (i + 1) + 1 = j + 1
          BY <1>13, <4>2
        <5>2. i # n - 1 => ds[i + 1] = ch[j + 1]
          BY <1>4, <5>1
        <5>3. i = n - 1 <=> j = n
          BY <1>13, <4>2
        <5>4. QED
          BY <1>6, <2>1, <4>1, <4>2, <5>2, <5>3
      <4>3. CASE i # j - 1
        <5>1. i # n - 1 /\ i + 1 \in 1 .. n - 1 /\ i + 1 < j /\ i # n
          BY <1>13, <2>2, <4>3
        <5>2. ds[i + 1] = ch[i + 1]
          BY <1>4, <5>1
        <5>3. mem.level[ch[k]].next = IF k = n THEN Null ELSE ch[k + 1]
          BY <1>5, <2>1
        <5>4. QED
          BY <2>1, <3>1, <4>1, <4>3, <5>1, <5>2, <5>3
      <4>4. QED
        BY <4>2, <4>3
    <3>4. QED
      <4>1. r.level[ch[k]].side = s /\ r.level[ch[k]].price = P(ch[k]) /\ P(ch[k]) \in Prices
        BY <1>5, <1>8, <1>11, <2>1
      <4>2. r.level_index[<<s, P(ch[k])>>] = ch[k]
        BY <1>5, <1>10, <1>11, <2>1
      <4>3. QED
        BY <2>1, <3>2, <3>3, <4>1, <4>2
  <2>3. CASE ~ (i < j)
    <3>1. k = i + 1 /\ ch[k] # before /\ (ch[k] = after <=> i = j)
      BY <1>12, <1>13, <2>1, <2>3
    <3> HIDE DEF k
    <3>2. r.level[ds[i]].prev = IF i = 1 THEN Null ELSE ds[i - 1]
      <4>1. r.level[ch[k]].prev = IF i = j THEN before ELSE mem.level[ch[k]].prev
        BY <1>5, <1>8, <1>11, <2>1, <3>1
      <4>2. CASE i = j
        <5>1. i # 1 => i - 1 \in 1 .. n - 1 /\ i - 1 < j
          BY <1>13, <4>2
        <5>2. i # 1 => ds[i - 1] = ch[j - 1]
          BY <1>4, <4>2, <5>1
        <5>3. QED
          BY <1>6, <2>1, <4>1, <4>2, <5>2
      <4>3. CASE i # j
        <5>1. i # 1 /\ i - 1 \in 1 .. n - 1 /\ ~ (i - 1 < j) /\ (i - 1) + 1 = i /\ k # 1 /\ k - 1 = i
          BY <1>13, <2>3, <3>1, <4>3
        <5>2. ds[i - 1] = ch[i]
          BY <1>4, <5>1
        <5>3. mem.level[ch[k]].prev = IF k = 1 THEN Null ELSE ch[k - 1]
          BY <1>5, <2>1
        <5>4. QED
          BY <2>1, <4>1, <4>3, <5>1, <5>2, <5>3
      <4>4. QED
        BY <4>2, <4>3
    <3>3. r.level[ds[i]].next = IF i = n - 1 THEN Null ELSE ds[i + 1]
      <4>1. r.level[ch[k]].next = mem.level[ch[k]].next
        BY <1>5, <1>8, <1>11, <2>1, <3>1
      <4>2. i # n - 1 => i + 1 \in 1 .. n - 1 /\ ~ (i + 1 < j)
        BY <1>13, <2>3
      <4>3. i # n - 1 => ds[i + 1] = ch[k + 1]
        BY <1>4, <3>1, <4>2
      <4>4. mem.level[ch[k]].next = IF k = n THEN Null ELSE ch[k + 1]
        BY <1>5, <2>1
      <4>5. i = n - 1 <=> k = n
        BY <1>13, <3>1
      <4>6. QED
        BY <2>1, <4>1, <4>3, <4>4, <4>5
    <3>4. QED
      <4>1. r.level[ch[k]].side = s /\ r.level[ch[k]].price = P(ch[k]) /\ P(ch[k]) \in Prices
        BY <1>5, <1>8, <1>11, <2>1
      <4>2. r.level_index[<<s, P(ch[k])>>] = ch[k]
        BY <1>5, <1>10, <1>11, <2>1
      <4>3. QED
        BY <2>1, <3>2, <3>3, <4>1, <4>2
  <2>4. QED
    BY <2>2, <2>3
<1>16. ASSUME NEW i \in 1 .. n - 1, NEW k \in 1 .. n - 1, i < k
       PROVE  Better(s, r.level[ds[i]].price, r.level[ds[k]].price)
  <2> DEFINE a == IF i < j THEN i ELSE i + 1
             b == IF k < j THEN k ELSE k + 1
  <2>1. a \in 1 .. n /\ b \in 1 .. n /\ a < b
    BY <1>13, <1>16
  <2>2. ds[i] = ch[a] /\ ds[k] = ch[b]
    BY <1>4
  <2> HIDE DEF a, b
  <2>3. Better(s, P(ch[a]), P(ch[b]))
    BY <1>2, <2>1 DEF ChainIs
  <2>4. r.level[ds[i]].price = P(ds[i]) /\ r.level[ds[k]].price = P(ds[k])
    BY <1>15
  <2>5. QED
    BY <2>2, <2>3, <2>4
<1>17. ChainIs(r, s, ds)
    BY <1>3, <1>14, <1>15, <1>16 DEF ChainIs
<1>18. QED
    BY <1>17 DEF ds

(* The pool q has each free level once, level l with them.                 *)
FreeWith(mem, q, l) ==
    /\ \A i, j \in 1 .. Len(q) : q[i] = q[j] => i = j
    /\ \A x \in LevelCells : (\E i \in 1 .. Len(q) : q[i] = x) <=> Unindexed(mem, x) \/ x = l

(* A level given back is a free level, in front of the others.             *)
LEMMA FreedLevelFacts ==
    ASSUME NEW mem \in Memory, LevelPoolIs(mem), NEW l \in LevelCells, ~ Unindexed(mem, l)
    PROVE  FreeWith(mem, Cons(l, mem.level_pool), l)
<1>1. PICK w \in Seq(LevelCells) : w = mem.level_pool
    BY MemoryFields
<1>3. /\ \A i, j \in 1 .. Len(w) : w[i] = w[j] => i = j
      /\ \A x \in LevelCells : Unindexed(mem, x) <=> \E i \in 1 .. Len(w) : w[i] = x
    BY <1>1 DEF LevelPoolIs
<1>9. PICK q : q = Cons(l, w)
    OBVIOUS
<1>2. /\ q \in Seq(LevelCells) /\ Len(q) = Len(w) + 1
      /\ \A i \in 1 .. Len(w) + 1 : q[i] = IF i = 1 THEN l ELSE w[i - 1]
  <2>1. /\ Cons(l, w) \in Seq(LevelCells) /\ Len(Cons(l, w)) = Len(w) + 1
        /\ \A i \in 1 .. Len(w) + 1 : Cons(l, w)[i] = IF i = 1 THEN l ELSE w[i - 1]
    BY ConsFacts
  <2>2. QED
    BY <1>9, <2>1
<1>4. \A i \in 1 .. Len(w) : w[i] # l
    BY <1>3
<1>5. \A i \in 1 .. Len(w) + 1 : i # 1 => i - 1 \in 1 .. Len(w)
    BY <1>1
<1>6. ASSUME NEW i \in 1 .. Len(q), NEW j \in 1 .. Len(q), q[i] = q[j] PROVE i = j
  <2>1. CASE i = 1
    <3>1. j = 1
      <4>1. SUFFICES ASSUME j # 1 PROVE FALSE
        OBVIOUS
      <4>2. q[j] = w[j - 1] /\ q[i] = l /\ j - 1 \in 1 .. Len(w)
        BY <1>2, <1>5, <2>1, <4>1
      <4>3. QED
        BY <1>4, <1>6, <4>2
    <3>2. QED
      BY <2>1, <3>1
  <2>2. CASE j = 1
    <3>1. i = 1
      <4>1. SUFFICES ASSUME i # 1 PROVE FALSE
        OBVIOUS
      <4>2. q[i] = w[i - 1] /\ q[j] = l /\ i - 1 \in 1 .. Len(w)
        BY <1>2, <1>5, <2>2, <4>1
      <4>3. QED
        BY <1>4, <1>6, <4>2
    <3>2. QED
      BY <2>2, <3>1
  <2>3. CASE i # 1 /\ j # 1
    <3>1. q[i] = w[i - 1] /\ q[j] = w[j - 1] /\ i - 1 \in 1 .. Len(w) /\ j - 1 \in 1 .. Len(w)
      BY <1>2, <1>5, <2>3
    <3>2. i - 1 = j - 1
      BY <1>3, <1>6, <3>1
    <3>3. QED
      BY <1>1, <1>2, <3>2
  <2>4. QED
    BY <2>1, <2>2, <2>3
<1>7. ASSUME NEW x \in LevelCells
      PROVE  (\E i \in 1 .. Len(q) : q[i] = x) <=> Unindexed(mem, x) \/ x = l
  <2>1. ASSUME NEW i \in 1 .. Len(q), q[i] = x PROVE Unindexed(mem, x) \/ x = l
    BY <1>2, <1>3, <1>5, <2>1
  <2>2. ASSUME Unindexed(mem, x) PROVE \E i \in 1 .. Len(q) : q[i] = x
    <3>1. PICK i \in 1 .. Len(w) : w[i] = x
      BY <1>3, <2>2
    <3>2. i + 1 \in 1 .. Len(w) + 1 /\ i + 1 # 1 /\ (i + 1) - 1 = i
      BY <1>1
    <3>3. q[i + 1] = w[(i + 1) - 1]
      BY <1>2, <3>2
    <3>4. QED
      BY <1>2, <3>1, <3>2, <3>3
  <2>3. ASSUME x = l PROVE \E i \in 1 .. Len(q) : q[i] = x
    <3>1. 1 \in 1 .. Len(w) + 1
      BY <1>1
    <3>2. QED
      BY <1>2, <2>3, <3>1
  <2>4. QED
    BY <2>1, <2>2, <2>3
<1>8. QED
  <2>1. FreeWith(mem, q, l)
    BY <1>6, <1>7 DEF FreeWith
  <2>2. QED
    BY <1>1, <1>9, <2>1

(* remove_level for a level of the index.                                  *)
LEMMA LevelGoneChains ==
    ASSUME NEW mem \in Memory, NEW chains, ChainsAre(mem, chains), LevelPoolIs(mem),
           NEW s \in Side, NEW p \in Prices, NEW l, l = mem.level_index[<<s, p>>], l # Null,
           NEW r, LevelGone(mem, r, l)
    PROVE  /\ \E then : ChainsAre(r, then)
           /\ LevelPoolIs(r)
<1>1. /\ l \in LevelCells /\ mem.level[l].side = s /\ mem.level[l].price = p
      /\ ~ Unindexed(mem, l)
    BY IndexFacts
<1>2. PICK ch : ch = chains[s]
    OBVIOUS
<1>3. PICK j \in 1 .. Len(ch) : ch[j] = l
    BY <1>2, IndexFacts
<1>4. ChainIs(mem, s, ch)
    BY <1>2 DEF ChainsAre
<1> DEFINE ds == RemoveAt(ch, j)
           then == [chains EXCEPT ![s] = ds]
           before == mem.level[l].prev
           after == mem.level[l].next
<1>5. ChainIs(r, s, ds)
    BY <1>3, <1>4, ChainWithoutLevel
<1>6. /\ r \in Memory /\ r.level_pool = Cons(l, mem.level_pool)
      /\ r.level_index = [mem.level_index EXCEPT ![<<s, p>>] = Null]
      /\ r.best = [mem.best EXCEPT ![s] = IF before = Null THEN after ELSE mem.best[s]]
      /\ r.level[l].prev = Null /\ r.level[l].next = Null
    BY <1>1, BlankLevelFields DEF LevelGone
<1>7. ASSUME NEW x \in LevelCells, x # l
      PROVE  /\ SameLevel(mem.level[x], r.level[x])
             /\ x # before => r.level[x].next = mem.level[x].next
             /\ x # before /\ x # after => r.level[x].prev = mem.level[x].prev
  <2>1. /\ SameLevel(mem.level[x], r.level[x])
        /\ r.level[x].next = IF x = before THEN after ELSE mem.level[x].next
        /\ x # before => r.level[x].prev = IF x = after THEN before ELSE mem.level[x].prev
    BY <1>7, Zenon DEF LevelGone
  <2> HIDE DEF before, after
  <2>2. QED
    BY <2>1
<1>8. /\ mem.level_index \in [LevelKeys -> LevelCells \union {Null}]
      /\ mem.best \in [Side -> LevelCells \union {Null}]
      /\ \A t \in Side, y \in Prices : <<t, y>> \in LevelKeys
      /\ <<s, p>> \in LevelKeys
    BY MemoryFields DEF LevelKeys
<1>9. /\ r.level_index[<<s, p>>] = Null
      /\ \A k \in LevelKeys : k # <<s, p>> => r.level_index[k] = mem.level_index[k]
      /\ \A t \in Side : t # s => r.best[t] = mem.best[t]
    BY <1>6, <1>8
<1>10. \A k \in LevelKeys : mem.level_index[k] = l => k = <<s, p>>
  <2>1. ASSUME NEW t \in Side, NEW y \in Prices, mem.level_index[<<t, y>>] = l
        PROVE  t = s /\ y = p
    BY <1>1, <2>1, IndexFacts
  <2>2. QED
    BY <2>1 DEF LevelKeys
<1>11. ASSUME NEW x \in LevelCells
       PROVE  Unindexed(r, x) <=> Unindexed(mem, x) \/ x = l
  <2>1. x # Null
    BY NullIsNoCell
  <2>2. ASSUME NEW k \in LevelKeys, r.level_index[k] = x
        PROVE  mem.level_index[k] = x /\ x # l
    BY <1>9, <1>10, <2>1, <2>2
  <2>3. ASSUME NEW k \in LevelKeys, mem.level_index[k] = x, x # l
        PROVE  r.level_index[k] = x
    BY <1>9, <2>3
  <2>4. QED
    BY <2>2, <2>3 DEF Unindexed
<1>12. ASSUME NEW x \in LevelCells
       PROVE  /\ x = before \/ x = after => mem.level[x].side = s /\ ~ Unindexed(mem, x)
  <2>8. Len(ch) \in Nat
    BY <1>4, ChainFacts
  <2>1. /\ mem.level[ch[j]].prev = IF j = 1 THEN Null ELSE ch[j - 1]
        /\ mem.level[ch[j]].next = IF j = Len(ch) THEN Null ELSE ch[j + 1]
    BY <1>3, <1>4, Zenon DEF ChainIs
  <2>2. before # Null => j - 1 \in 1 .. Len(ch) /\ before = ch[j - 1]
    BY <1>3, <2>1
  <2>3. after # Null => j + 1 \in 1 .. Len(ch) /\ after = ch[j + 1]
    BY <1>3, <2>1
  <2>4. x # Null
    BY NullIsNoCell
  <2>5. \A i \in 1 .. Len(ch) : ~ Unindexed(mem, ch[i])
    BY <1>4, ChainIndexed
  <2>6. \A i \in 1 .. Len(ch) : mem.level[ch[i]].side = s
    BY <1>4, ChainFacts
  <2> HIDE DEF before, after
  <2>7. QED
    BY <2>2, <2>3, <2>4, <2>5, <2>6
<1> HIDE DEF before, after
<1>13. then \in [Side -> Seq(LevelCells)] /\ then[s] = ds
      /\ \A t \in Side : t # s => then[t] = chains[t]
  <2>1. ds \in Seq(LevelCells)
    BY <1>5 DEF ChainIs
  <2>2. chains \in [Side -> Seq(LevelCells)]
    BY DEF ChainsAre
  <2> HIDE DEF ds
  <2>3. QED
    BY <2>1, <2>2
<1>14. ASSUME NEW t \in Side PROVE ChainIs(r, t, then[t])
  <2>1. CASE t = s
    BY <1>5, <1>13, <2>1
  <2>2. CASE t # s
    <3> DEFINE cs == chains[t]
    <3>1. ChainIs(mem, t, cs)
      BY DEF ChainsAre
    <3>2. ASSUME NEW i \in 1 .. Len(cs)
          PROVE  /\ SameLevel(mem.level[cs[i]], r.level[cs[i]])
                 /\ r.level[cs[i]].prev = mem.level[cs[i]].prev
                 /\ r.level[cs[i]].next = mem.level[cs[i]].next
      <4>1. cs[i] \in LevelCells /\ mem.level[cs[i]].side = t
        <5> HIDE DEF cs
        <5>1. QED
          BY <3>1, ChainFacts
      <4>2. cs[i] # l /\ cs[i] # before /\ cs[i] # after
        BY <1>1, <1>12, <2>2, <4>1
      <4>3. QED
        BY <1>7, <4>1, <4>2
    <3>3. \A y \in Prices : r.level_index[<<t, y>>] = mem.level_index[<<t, y>>]
      BY <1>8, <1>9, <2>2
    <3> HIDE DEF cs
    <3>4. ChainIs(r, t, cs)
      BY <1>6, <1>9, <2>2, <3>1, <3>2, <3>3, OtherChain
    <3>5. QED
      BY <1>13, <2>2, <3>4 DEF cs
  <2>3. QED
    BY <2>1, <2>2
<1>15. ASSUME NEW t \in Side, NEW y \in Prices, r.level_index[<<t, y>>] # Null
       PROVE  \E i \in 1 .. Len(then[t]) : /\ then[t][i] = r.level_index[<<t, y>>]
                                           /\ r.level[then[t][i]].price = y
  <2>1. ch \in Seq(LevelCells) /\ Len(ch) \in Nat
    BY <1>4, ChainFacts
  <2>2. Len(ds) = Len(ch) - 1
        /\ \A i \in 1 .. Len(ch) - 1 : ds[i] = IF i < j THEN ch[i] ELSE ch[i + 1]
    BY <2>1, RemoveAtFacts
  <2> HIDE DEF ds
  <2>3. <<t, y>> # <<s, p>> /\ r.level_index[<<t, y>>] = mem.level_index[<<t, y>>]
    BY <1>8, <1>9, <1>15
  <2>4. PICK i \in 1 .. Len(chains[t]) : /\ chains[t][i] = mem.level_index[<<t, y>>]
                                         /\ mem.level[chains[t][i]].price = y
    BY <1>15, <2>3 DEF ChainsAre
  <2>5. chains[t][i] # l
    BY <1>8, <1>10, <2>3, <2>4
  <2>6. chains[t][i] \in LevelCells
    <3>1. ChainIs(mem, t, chains[t])
      BY DEF ChainsAre
    <3>2. QED
      BY <3>1, ChainFacts
  <2>7. r.level[chains[t][i]].price = y
    BY <1>7, <2>4, <2>5, <2>6 DEF SameLevel
  <2>8. CASE t = s
    <3>1. i \in 1 .. Len(ch) /\ chains[t][i] = ch[i] /\ i # j
      BY <1>2, <1>3, <2>5, <2>8
    <3> DEFINE k == IF i < j THEN i ELSE i - 1
    <3>2. k \in 1 .. Len(ds) /\ ds[k] = ch[i]
      <4>1. CASE i < j
        <5>1. i \in 1 .. Len(ch) - 1
          BY <2>1, <3>1, <4>1
        <5>2. QED
          BY <2>2, <4>1, <5>1
      <4>2. CASE ~ (i < j)
        <5>1. i - 1 \in 1 .. Len(ch) - 1 /\ ~ (i - 1 < j) /\ (i - 1) + 1 = i
          BY <2>1, <3>1, <4>2
        <5>2. QED
          BY <2>2, <4>2, <5>1
      <4>3. QED
        BY <4>1, <4>2
    <3> HIDE DEF k
    <3>3. QED
      BY <1>13, <2>3, <2>4, <2>7, <2>8, <3>1, <3>2
  <2>9. CASE t # s
    BY <1>13, <2>3, <2>4, <2>7, <2>9
  <2>10. QED
    BY <2>8, <2>9
<1>16. ASSUME NEW x \in LevelCells, Unindexed(r, x)
       PROVE  r.level[x].prev = Null /\ r.level[x].next = Null
  <2>1. CASE x = l
    BY <1>6, <2>1
  <2>2. CASE x # l
    <3>1. Unindexed(mem, x) /\ x # before /\ x # after
      BY <1>11, <1>12, <1>16, <2>2
    <3>2. mem.level[x].prev = Null /\ mem.level[x].next = Null
      BY <3>1 DEF ChainsAre
    <3>3. QED
      BY <1>7, <2>2, <3>1, <3>2
  <2>3. QED
    BY <2>1, <2>2
<1>17. LevelPoolIs(r)
  <2>3. PICK q : q = Cons(l, mem.level_pool)
    OBVIOUS
  <2>1. /\ \A i, k \in 1 .. Len(q) : q[i] = q[k] => i = k
        /\ \A x \in LevelCells :
              (\E i \in 1 .. Len(q) : q[i] = x) <=> Unindexed(mem, x) \/ x = l
    <3>1. FreeWith(mem, Cons(l, mem.level_pool), l)
      BY <1>1, FreedLevelFacts
    <3>2. QED
      BY <2>3, <3>1 DEF FreeWith
  <2>2. r.level_pool = q
    BY <1>6, <2>3
  <2>4. QED
    BY <1>11, <2>1, <2>2 DEF LevelPoolIs
<1> HIDE DEF then
<1>18. ChainsAre(r, then)
    BY <1>13, <1>14, <1>15, <1>16 DEF ChainsAre
<1>19. QED
    BY <1>17, <1>18

(* insert_level_sorted stops at the place of the new price in the chain.   *)
LEMMA InsertsAtItsPlace ==
    ASSUME NEW mem \in Memory, NEW s \in Side, NEW p \in Prices, mem.level_pool # <<>>,
           NEW l, l = Head(mem.level_pool), Unindexed(mem, l),
           NEW ch, ChainIs(mem, s, ch), NEW j \in 0 .. Len(ch), PlaceOf(mem, s, ch, p, j),
           NEW before, before = IF j = 0 THEN Null ELSE ch[j],
           NEW after, after = IF j = Len(ch) THEN Null ELSE ch[j + 1],
           NEW a, a = LevelTaken(mem, l, s, p),
           NEW r, r = [InsertLevelSorted(a, l) EXCEPT !.level_index[<<s, p>>] = l]
    PROVE  LevelMade(mem, r, l, s, p, before, after)
<1>1. /\ a \in Memory /\ l \in LevelCells
      /\ a.level_index = mem.level_index /\ a.best = mem.best
      /\ a.level[l] = NewLevel(s, p)
      /\ \A x \in LevelCells : x # l => a.level[x] = mem.level[x]
    BY LevelTakenFields
<1>2. a.level[l].side = s /\ a.level[l].price = p
    BY <1>1, BlankLevelFields
<1>3. /\ Len(ch) \in Nat
      /\ \A i \in 1 .. Len(ch) : /\ ch[i] \in LevelCells /\ ch[i] # Null
                                 /\ mem.level[ch[i]].price \in Prices
    BY ChainFacts
<1>4. \A i \in 1 .. Len(ch) : ~ Unindexed(mem, ch[i])
    BY ChainIndexed
<1>5. \A i \in 1 .. Len(ch) : a.level[ch[i]] = mem.level[ch[i]]
    BY <1>1, <1>3, <1>4
<1>6. ChainIs(a, s, ch)
  <2>1. \A i \in 1 .. Len(ch) :
           /\ SameLevel(mem.level[ch[i]], a.level[ch[i]])
           /\ a.level[ch[i]].prev = mem.level[ch[i]].prev
           /\ a.level[ch[i]].next = mem.level[ch[i]].next
    BY <1>5 DEF SameLevel
  <2>2. \A y \in Prices : a.level_index[<<s, y>>] = mem.level_index[<<s, y>>]
    BY <1>1
  <2>3. QED
    BY <1>1, <2>1, <2>2, OtherChain
<1>7. PlaceOf(a, s, ch, p, j)
    BY <1>5 DEF PlaceOf
<1> DEFINE first == a.best[s] = Null \/ Better(s, p, a.level[a.best[s]].price)
           bf == IF first THEN Null ELSE LastBetter(a, s, p)
           af == IF first THEN a.best[s] ELSE a.level[bf].next
<1>8. a.best[s] = IF ch = <<>> THEN Null ELSE ch[1]
    BY <1>6 DEF ChainIs
<1>9. first <=> j = 0
  <2>1. CASE ch = <<>>
    BY <1>8, <2>1
  <2>2. CASE ch # <<>>
    <3>1. 1 \in 1 .. Len(ch) /\ a.best[s] = ch[1] /\ ch[1] # Null
      BY <1>3, <1>8, <2>2, EmptySeq
    <3>2. first <=> Better(s, p, a.level[ch[1]].price)
      BY <3>1
    <3>3. a.level[ch[1]].price \in Prices
      BY <1>3, <1>5, <3>1
    <3> HIDE DEF first
    <3>4. CASE j = 0
      <4>1. 1 > j
        BY <3>4
      <4>2. QED
        BY <1>7, <3>1, <3>2, <3>4, <4>1 DEF PlaceOf
    <3>5. CASE j # 0
      <4>1. 1 <= j
        BY <3>5
      <4>2. Better(s, a.level[ch[1]].price, p)
        BY <1>7, <3>1, <4>1 DEF PlaceOf
      <4>3. QED
        BY <3>2, <3>3, <3>5, <4>2, BetterOrders
    <3>6. QED
      BY <3>4, <3>5
  <2>3. QED
    BY <2>1, <2>2
<1>10. bf = before
  <2>1. CASE j = 0
    BY <1>9, <2>1
  <2>2. CASE j # 0
    <3>1. j \in 1 .. Len(ch)
      BY <1>3, <2>2
    <3>2. LastBetter(a, s, p) = ch[j]
      BY <1>1, <1>6, <1>7, <3>1, LastBetterIs
    <3> HIDE DEF first
    <3>3. QED
      BY <1>9, <2>2, <3>2
  <2>3. QED
    BY <2>1, <2>2
<1>11. af = after
  <2> HIDE DEF first, bf
  <2>1. CASE j = 0
    <3>1. ch = <<>> <=> Len(ch) = 0
      BY <1>6, EmptySeq DEF ChainIs
    <3>2. QED
      BY <1>8, <1>9, <2>1, <3>1
  <2>2. CASE j # 0
    <3>1. j \in 1 .. Len(ch) /\ bf = ch[j]
      BY <1>3, <1>10, <2>2
    <3>2. a.level[ch[j]].next = IF j = Len(ch) THEN Null ELSE ch[j + 1]
      BY <1>6, <3>1 DEF ChainIs
    <3>3. QED
      BY <1>9, <2>2, <3>1, <3>2
  <2>3. QED
    BY <2>1, <2>2
<1>12. InsertLevelSorted(a, l) = [a EXCEPT !.level = Chained(a, l, bf, af),
                                          !.best[s] = IF first THEN l ELSE a.best[s]]
  <2> DEFINE z == a.level[l].side
             y == a.level[l].price
             fi == a.best[z] = Null \/ Better(z, y, a.level[a.best[z]].price)
             bb == IF fi THEN Null ELSE LastBetter(a, z, y)
             aa == IF fi THEN a.best[z] ELSE a.level[bb].next
  <2>1. InsertLevelSorted(a, l) = [a EXCEPT !.level = Chained(a, l, bb, aa),
                                           !.best[z] = IF fi THEN l ELSE a.best[z]]
    BY Zenon DEF InsertLevelSorted
  <2>2. z = s /\ y = p
    BY <1>2
  <2> HIDE DEF z, y
  <2>3. QED
    BY <2>1, <2>2, Zenon
<1>13. first <=> before = Null
  <2> HIDE DEF first
  <2>1. j # 0 => j \in 1 .. Len(ch)
    BY <1>3
  <2>2. QED
    BY <1>3, <1>9, <2>1
<1> HIDE DEF first, bf, af
<1>14. (IF first THEN l ELSE a.best[s]) = IF before = Null THEN l ELSE a.best[s]
    BY <1>13
<1>15. r = Inserted(a, l, s, p, before, after)
    BY <1>10, <1>11, <1>12, <1>14, Zenon DEF Inserted
<1>16. before \in LevelRef /\ after \in LevelRef /\ before # l /\ after # l
  <2>1. j # 0 => j \in 1 .. Len(ch)
    BY <1>3
  <2>2. j # Len(ch) => j + 1 \in 1 .. Len(ch)
    BY <1>3
  <2>3. l # Null
    BY <1>1, NullIsNoCell
  <2>4. QED
    BY <1>3, <1>4, <2>1, <2>2, <2>3 DEF LevelRef
<1>17. QED
    BY <1>15, <1>16, InsertedFields

(* Chains, index and pool of the levels agree.                             *)
LevelsSound(mem) == LevelPoolIs(mem) /\ \E chains : ChainsAre(mem, chains)

(* The levels stay sound while only their orders change.                   *)
LEMMA SameLevels ==
    ASSUME NEW mem, NEW r, LevelsSound(mem),
           r.level_index = mem.level_index, r.level_pool = mem.level_pool, r.best = mem.best,
           \A x \in LevelCells :
              /\ r.level[x].price = mem.level[x].price /\ r.level[x].side = mem.level[x].side
              /\ r.level[x].prev = mem.level[x].prev /\ r.level[x].next = mem.level[x].next
    PROVE  LevelsSound(r)
<1>1. PICK chains : ChainsAre(mem, chains)
    BY DEF LevelsSound
<1>2. LevelPoolIs(mem)
    BY DEF LevelsSound
<1>3. ChainsAre(r, chains) /\ LevelPoolIs(r)
    BY <1>1, <1>2, SameChains
<1>4. QED
    BY <1>3 DEF LevelsSound

(* What the index finds.                                                   *)
LEMMA FoundLevel ==
    ASSUME NEW mem \in Memory, LevelsSound(mem), NEW s \in Side,
           NEW p \in Prices, NEW l, l = mem.level_index[<<s, p>>], l # Null
    PROVE  /\ l \in LevelCells /\ mem.level[l].side = s /\ mem.level[l].price = p
           /\ ~ Unindexed(mem, l)
           /\ \A k \in LevelKeys : mem.level_index[k] = l => k = <<s, p>>
<1>1. PICK chains : ChainsAre(mem, chains)
    BY DEF LevelsSound
<1>2. /\ l \in LevelCells /\ mem.level[l].side = s /\ mem.level[l].price = p
      /\ ~ Unindexed(mem, l)
    BY <1>1, IndexFacts
<1>3. ASSUME NEW t \in Side, NEW y \in Prices, mem.level_index[<<t, y>>] = l
      PROVE  <<t, y>> = <<s, p>>
  <2>1. mem.level[l].side = t /\ mem.level[l].price = y
    BY <1>1, <1>3, IndexFacts
  <2>2. QED
    BY <1>2, <2>1
<1>4. QED
    BY <1>2, <1>3 DEF LevelKeys

(* update_best changes nothing: the chain has put the best level first.    *)
LEMMA BestAlready ==
    ASSUME NEW mem \in Memory, LevelsSound(mem), NEW s \in Side,
           NEW p \in Prices, NEW l, l = mem.level_index[<<s, p>>], l # Null
    PROVE  UpdateBest(mem, s, l) = mem /\ mem.best[s] # Null
<1>1. PICK chains : ChainsAre(mem, chains)
    BY DEF LevelsSound
<1>2. PICK ch : ch = chains[s]
    OBVIOUS
<1>3. ChainIs(mem, s, ch)
    BY <1>1, <1>2 DEF ChainsAre
<1>4. PICK i \in 1 .. Len(ch) : ch[i] = l
    BY <1>1, <1>2, IndexFacts
<1>5. /\ Len(ch) \in Nat /\ ch[1] # Null
      /\ \A k \in 1 .. Len(ch) : mem.level[ch[k]].price \in Prices
  <2>1. Len(ch) \in Nat /\ \A k \in 1 .. Len(ch) : /\ ch[k] # Null
                                                   /\ mem.level[ch[k]].price \in Prices
    BY <1>3, ChainFacts
  <2>2. 1 \in 1 .. Len(ch)
    BY <1>4, <2>1
  <2>3. QED
    BY <2>1, <2>2
<1>6. mem.best[s] = ch[1] /\ 1 \in 1 .. Len(ch)
    BY <1>3, <1>4, <1>5 DEF ChainIs
<1>7. ~ Better(s, mem.level[l].price, mem.level[ch[1]].price)
  <2>1. CASE i = 1
    BY <1>4, <1>5, <2>1, BetterOrders
  <2>2. CASE i # 1
    <3>1. Better(s, mem.level[ch[1]].price, mem.level[ch[i]].price)
      <4>1. 1 < i
        BY <1>5, <2>2
      <4>2. QED
        BY <1>3, <1>6, <4>1 DEF ChainIs
    <3>2. QED
      BY <1>4, <1>5, <1>6, <3>1, BetterOrders
  <2>3. QED
    BY <2>1, <2>2
<1>8. QED
    BY <1>5, <1>6, <1>7 DEF UpdateBest

(* The memory r has a new level, cell l, for side s and price p.           *)
Created(mem, r, l, s, p) ==
    /\ l \in LevelCells /\ l # Null /\ Unindexed(mem, l)
    /\ LevelsSound(r)
    /\ \E before, after \in LevelRef : LevelMade(mem, r, l, s, p, before, after)

(* get_or_create_level makes a level the chain of its side has at its      *)
(* place.                                                                  *)
LEMMA LevelCreated ==
    ASSUME NEW mem \in Memory, LevelsSound(mem), NEW s \in Side, NEW p \in Prices,
           mem.level_index[<<s, p>>] = Null, mem.level_pool # <<>>,
           NEW l, l = Head(mem.level_pool),
           NEW a, a = LevelTaken(mem, l, s, p),
           NEW r, r = [InsertLevelSorted(a, l) EXCEPT !.level_index[<<s, p>>] = l]
    PROVE  Created(mem, r, l, s, p)
<1>1. PICK chains : ChainsAre(mem, chains)
    BY DEF LevelsSound
<1>2. LevelPoolIs(mem)
    BY DEF LevelsSound
<1>3. PICK ch : ch = chains[s]
    OBVIOUS
<1>4. ChainIs(mem, s, ch)
    BY <1>1, <1>3 DEF ChainsAre
<1>5. l \in LevelCells /\ l # Null /\ Unindexed(mem, l)
    BY <1>2, FreeLevelFacts
<1>6. /\ Len(ch) \in Nat /\ \A i \in 1 .. Len(ch) : ch[i] \in LevelCells /\ ch[i] # Null
    BY <1>4, ChainFacts
<1>7. \A i \in 1 .. Len(ch) : /\ ~ Unindexed(mem, ch[i])
                              /\ mem.level_index[<<s, mem.level[ch[i]].price>>] = ch[i]
    BY <1>4, ChainIndexed
<1>8. \A i \in 1 .. Len(ch) : mem.level[ch[i]].price # p
    BY <1>6, <1>7
<1>9. PICK j \in 0 .. Len(ch) : PlaceOf(mem, s, ch, p, j)
    BY <1>4, <1>8, PlaceExists
<1>10. PICK before : before = IF j = 0 THEN Null ELSE ch[j]
    OBVIOUS
<1>11. PICK after : after = IF j = Len(ch) THEN Null ELSE ch[j + 1]
    OBVIOUS
<1>12. before \in LevelRef /\ after \in LevelRef /\ before # l /\ after # l
  <2>1. j # 0 => j \in 1 .. Len(ch)
    BY <1>6
  <2>2. j # Len(ch) => j + 1 \in 1 .. Len(ch)
    BY <1>6
  <2>3. QED
    BY <1>5, <1>6, <1>7, <1>10, <1>11, <2>1, <2>2 DEF LevelRef
<1>14. LevelMade(mem, r, l, s, p, before, after)
    BY <1>4, <1>5, <1>9, <1>10, <1>11, InsertsAtItsPlace
<1>15. ChainsAre(r, [chains EXCEPT ![s] = Between(ch, j, l)]) /\ LevelPoolIs(r)
    BY <1>1, <1>2, <1>3, <1>9, <1>10, <1>11, <1>14, LevelMadeChains
<1>16. LevelsSound(r)
    BY <1>15 DEF LevelsSound
<1>17. QED
    BY <1>5, <1>12, <1>14, <1>16 DEF Created

(* The three outcomes of get_or_create_level.                              *)
LEMMA GetOrCreateCases ==
    ASSUME NEW mem \in Memory, LevelsSound(mem), NEW s \in Side, NEW p \in Prices,
           NEW got, got = GetOrCreateLevel(mem, s, p)
    PROVE  /\ mem.level_index[<<s, p>>] # Null =>
                 got.mem = mem /\ got.level = mem.level_index[<<s, p>>]
           /\ mem.level_index[<<s, p>>] = Null /\ mem.level_pool = <<>> =>
                 got.mem = mem /\ got.level = Null
           /\ mem.level_index[<<s, p>>] = Null /\ mem.level_pool # <<>> =>
                 Created(mem, got.mem, got.level, s, p)
<1> DEFINE l == Head(mem.level_pool)
           a == LevelTaken(mem, l, s, p)
           r == [InsertLevelSorted(a, l) EXCEPT !.level_index[<<s, p>>] = l]
<1>1. got = IF mem.level_index[<<s, p>>] # Null
            THEN [mem |-> mem, level |-> mem.level_index[<<s, p>>]]
            ELSE IF mem.level_pool = <<>> THEN [mem |-> mem, level |-> Null]
            ELSE [mem |-> r, level |-> l]
    BY Zenon DEF GetOrCreateLevel, LevelTaken, NewLevel
<1>2. ASSUME mem.level_index[<<s, p>>] = Null, mem.level_pool # <<>>
      PROVE  Created(mem, r, l, s, p)
    BY <1>2, LevelCreated
<1> HIDE DEF r, l
<1>3. QED
    BY <1>1, <1>2

(* remove_level for a level of the index.                                  *)
LEMMA LevelRemoved ==
    ASSUME NEW mem \in Memory, LevelsSound(mem), NEW s \in Side, NEW p \in Prices,
           NEW l, l = mem.level_index[<<s, p>>], l # Null,
           NEW r, r = RemoveLevel(mem, l)
    PROVE  LevelsSound(r) /\ LevelGone(mem, r, l)
<1>1. l \in LevelCells /\ mem.level[l].price = p
    BY FoundLevel
<1>2. LevelGone(mem, r, l)
    BY <1>1, RemoveLevelFields
<1>3. PICK chains : ChainsAre(mem, chains)
    BY DEF LevelsSound
<1>4. LevelPoolIs(mem)
    BY DEF LevelsSound
<1>5. (\E then : ChainsAre(r, then)) /\ LevelPoolIs(r)
    BY <1>2, <1>3, <1>4, LevelGoneChains
<1>6. QED
    BY <1>2, <1>5 DEF LevelsSound

-----------------------------------------------------------------------------
(* The memory and the book it stands for.                                  *)

(* An order that is on a level is on the one the index has for its side    *)
(* and price.                                                              *)
Filed(mem) ==
    \A c \in OrderCells : mem.order[c].level # Null =>
        /\ mem.order[c].price \in Prices
        /\ mem.level_index[<<mem.order[c].side, mem.order[c].price>>] = mem.order[c].level

(* The index of orders has the orders on a level, and at most hand, a cell *)
(* in the middle of an operation, off its level.                           *)
Indexed(mem, hand) ==
    /\ \A id \in Ids : mem.order_index[id] # Null =>
          /\ mem.order[mem.order_index[id]].id = id
          /\ mem.order[mem.order_index[id]].level # Null \/ mem.order_index[id] = hand
    /\ \A c \in OrderCells : mem.order[c].level # Null =>
          mem.order[c].id \in Ids /\ mem.order_index[mem.order[c].id] = c

(* The pool of orders has the other cells, each once.                      *)
OrderPoolIs(mem, hand) ==
    /\ \A i, j \in 1 .. Len(mem.order_pool) : mem.order_pool[i] = mem.order_pool[j] => i = j
    /\ \A c \in OrderCells : (\E i \in 1 .. Len(mem.order_pool) : mem.order_pool[i] = c)
                                <=> mem.order[c].level = Null /\ c # hand

(* Only level spare, in the middle of an operation, may be in the index    *)
(* and have no order.                                                      *)
NoneIdle(mem, lists, spare) ==
    \A l \in LevelCells : l # spare /\ lists[l] = <<>> => Unindexed(mem, l)

(* The memory in the middle of an operation: hand is the cell of an order  *)
(* that is off its level, spare a level that may have no order.            *)
Sound(mem, lists, hand, spare) ==
    /\ ListsAre(mem, lists)
    /\ LevelsSound(mem)
    /\ Filed(mem)
    /\ Indexed(mem, hand)
    /\ OrderPoolIs(mem, hand)
    /\ NoneIdle(mem, lists, spare)

(* The ids of the orders in cells cs.                                      *)
IdsOf(mem, cs) == [i \in 1 .. Len(cs) |-> mem.order[cs[i]].id]

(* The book b has the orders of the index, but for hand, and the queues of *)
(* the lists.                                                              *)
OrdersShown(mem, b, hand) ==
    \A id \in Ids : IF mem.order_index[id] = Null THEN b.orders[id] = NoOrder
                    ELSE mem.order_index[id] = hand
                         \/ b.orders[id] = OrderOf(mem.order[mem.order_index[id]])

(* The queues of b are the lists of the levels in the index.               *)
QueuesShown(mem, lists, b) ==
    \A k \in LevelKeys :
        b.queue[k] = IF mem.level_index[k] = Null THEN <<>>
                     ELSE IdsOf(mem, lists[mem.level_index[k]])

(* The inductive invariant: the memory is sound and holds the book b, but  *)
(* for the order in hand.                                                  *)
Agrees(mem, b, hand, spare) ==
    /\ mem \in Memory /\ b \in Book
    /\ \E lists : /\ Sound(mem, lists, hand, spare)
                  /\ OrdersShown(mem, b, hand)
                  /\ QueuesShown(mem, lists, b)

(* Order id is in cell c, on level l.                                      *)
Found(mem, id, c, l) == c = mem.order_index[id] /\ c # Null /\ l = mem.order[c].level

(* What is known of the cell and the level of an order that was found.     *)
OrderAt(mem, id, c, l) ==
    /\ c \in OrderCells /\ mem.order[c] \in OrderCell /\ mem.order[c].id = id
    /\ l \in LevelCells /\ l # Null /\ mem.order[c].level = l
    /\ mem.order[c].price \in Prices /\ mem.order[c].side \in Side
    /\ mem.level_index[<<mem.order[c].side, mem.order[c].price>>] = l

(* Cell c is on the list of level l.                                       *)
Listed(lists, l, c) == \E j \in 1 .. Len(lists[l]) : lists[l][j] = c

(* Where an order of the index is.                                         *)
LEMMA OrderPlace ==
    ASSUME NEW mem \in Memory, NEW lists, Sound(mem, lists, Null, Null),
           NEW id \in Ids, NEW c, NEW l, Found(mem, id, c, l)
    PROVE  OrderAt(mem, id, c, l) /\ Listed(lists, l, c)
<1>1. c \in OrderCells
    BY MemoryFields DEF Found
<1>2. mem.order[c] \in OrderCell
    BY <1>1, MemoryFields
<1>3. mem.order[c].id = id /\ mem.order[c].level = l /\ l # Null
  <2>1. Indexed(mem, Null)
    BY DEF Sound
  <2>2. QED
    BY <2>1 DEF Indexed, Found
<1>4. mem.order[c].side \in Side /\ l \in LevelCells
    BY <1>2, <1>3 DEF OrderCell
<1>5. /\ mem.order[c].price \in Prices
      /\ mem.level_index[<<mem.order[c].side, mem.order[c].price>>] = l
  <2>1. Filed(mem)
    BY DEF Sound
  <2>2. QED
    BY <1>1, <1>3, <2>1 DEF Filed
<1>6. \E j \in 1 .. Len(lists[l]) : lists[l][j] = c
  <2>1. ListsAre(mem, lists)
    BY DEF Sound
  <2>2. QED
    BY <1>1, <1>3, <2>1 DEF ListsAre
<1>7. QED
    BY <1>1, <1>2, <1>3, <1>4, <1>5, <1>6 DEF OrderAt, Listed

(* The cells of the lists of a sound memory are in the index of orders.    *)
LEMMA ListedOrder ==
    ASSUME NEW mem \in Memory, NEW lists, NEW hand, NEW spare, Sound(mem, lists, hand, spare),
           NEW l \in LevelCells, NEW i \in 1 .. Len(lists[l])
    PROVE  /\ lists[l][i] \in OrderCells /\ mem.order[lists[l][i]].level = l
           /\ mem.order[lists[l][i]].id \in Ids
           /\ mem.order_index[mem.order[lists[l][i]].id] = lists[l][i]
           /\ ~ Unindexed(mem, l)
<1>1. lists[l][i] \in OrderCells /\ mem.order[lists[l][i]].level = l
  <2>1. ListsAre(mem, lists)
    BY DEF Sound
  <2>2. QED
    BY <2>1, ListCells
<1>2. l # Null
    BY NullIsNoCell
<1>3. /\ mem.order[lists[l][i]].id \in Ids
      /\ mem.order_index[mem.order[lists[l][i]].id] = lists[l][i]
    BY <1>1, <1>2 DEF Sound, Indexed
<1>4. ~ Unindexed(mem, l)
  <2> DEFINE o == mem.order[lists[l][i]]
  <2>1. o.price \in Prices /\ mem.level_index[<<o.side, o.price>>] = l
    BY <1>1, <1>2 DEF Sound, Filed
  <2>2. o.side \in Side
    BY <1>1, MemoryFields DEF OrderCell
  <2>3. <<o.side, o.price>> \in LevelKeys
    BY <2>1, <2>2 DEF LevelKeys
  <2> HIDE DEF o
  <2>4. QED
    BY <2>1, <2>3 DEF Unindexed
<1>5. QED
    BY <1>1, <1>3, <1>4

(* The ids of a list.                                                      *)
LEMMA IdsOfFacts ==
    ASSUME NEW mem \in Memory, NEW lists, NEW hand, NEW spare, Sound(mem, lists, hand, spare),
           NEW l \in LevelCells
    PROVE  /\ IdsOf(mem, lists[l]) \in Seq(Ids)
           /\ Len(IdsOf(mem, lists[l])) = Len(lists[l]) /\ Len(lists[l]) \in Nat
           /\ \A i \in 1 .. Len(lists[l]) : IdsOf(mem, lists[l])[i] = mem.order[lists[l][i]].id
           /\ \A i, j \in 1 .. Len(lists[l]) :
                 IdsOf(mem, lists[l])[i] = IdsOf(mem, lists[l])[j] => i = j
<1>1. PICK cs : cs = lists[l]
    OBVIOUS
<1>2. cs \in Seq(OrderCells) /\ Len(cs) \in Nat
      /\ \A i, j \in 1 .. Len(cs) : cs[i] = cs[j] => i = j
  <2>1. ListsAre(mem, lists)
    BY DEF Sound
  <2>2. ListIs(mem, l, cs) /\ cs \in Seq(OrderCells)
    BY <1>1, <2>1 DEF ListsAre
  <2>3. QED
    BY <2>2 DEF ListIs
<1>3. \A i \in 1 .. Len(cs) : /\ mem.order[cs[i]].id \in Ids
                              /\ mem.order_index[mem.order[cs[i]].id] = cs[i]
    BY <1>1, ListedOrder
<1>4. /\ IdsOf(mem, cs) \in Seq(Ids) /\ Len(IdsOf(mem, cs)) = Len(cs)
      /\ \A i \in 1 .. Len(cs) : IdsOf(mem, cs)[i] = mem.order[cs[i]].id
    BY <1>2, <1>3 DEF IdsOf
<1>5. \A i, j \in 1 .. Len(cs) : IdsOf(mem, cs)[i] = IdsOf(mem, cs)[j] => i = j
    BY <1>2, <1>3, <1>4
<1>6. QED
    BY <1>1, <1>2, <1>4, <1>5

(* The ids of a list without its j-th cell, and with one cell more.        *)
LEMMA IdsOfRemoved ==
    ASSUME NEW mem, NEW r, NEW cs \in Seq(OrderCells), NEW j \in 1 .. Len(cs),
           IdsOf(mem, cs) \in Seq(Ids),
           \A x \in OrderCells : r.order[x].id = mem.order[x].id
    PROVE  IdsOf(r, RemoveAt(cs, j)) = RemoveAt(IdsOf(mem, cs), j)
<1>1. PICK n \in Nat : n = Len(cs)
    OBVIOUS
<1>2. PICK q \in Seq(Ids) : q = IdsOf(mem, cs)
    OBVIOUS
<1>3. Len(q) = n /\ \A i \in 1 .. n : q[i] = mem.order[cs[i]].id
    BY <1>1, <1>2 DEF IdsOf
<1>4. PICK ds : ds = RemoveAt(cs, j)
    OBVIOUS
<1>5. PICK w : w = RemoveAt(q, j)
    OBVIOUS
<1>6. /\ ds \in Seq(OrderCells) /\ Len(ds) = n - 1
      /\ \A i \in 1 .. n - 1 : ds[i] = IF i < j THEN cs[i] ELSE cs[i + 1]
    BY <1>1, <1>4, RemoveAtFacts
<1>7. /\ w \in Seq(Ids) /\ Len(w) = n - 1
      /\ \A i \in 1 .. n - 1 : w[i] = IF i < j THEN q[i] ELSE q[i + 1]
  <2>1. j \in 1 .. Len(q)
    BY <1>1, <1>3
  <2>2. QED
    BY <1>3, <1>5, <2>1, RemoveAtFacts
<1>8. ASSUME NEW i \in 1 .. n - 1 PROVE r.order[ds[i]].id = w[i]
  <2>1. CASE i < j
    <3>1. i \in 1 .. n /\ cs[i] \in OrderCells
      BY <1>1
    <3>2. ds[i] = cs[i] /\ w[i] = mem.order[cs[i]].id
      BY <1>3, <1>6, <1>7, <2>1, <3>1
    <3>3. QED
      BY <3>1, <3>2
  <2>2. CASE ~ (i < j)
    <3>1. i + 1 \in 1 .. n /\ cs[i + 1] \in OrderCells
      BY <1>1
    <3>2. ds[i] = cs[i + 1] /\ w[i] = mem.order[cs[i + 1]].id
      BY <1>3, <1>6, <1>7, <2>2, <3>1
    <3>3. QED
      BY <3>1, <3>2
  <2>3. QED
    BY <2>1, <2>2
<1>9. IdsOf(r, ds) = [i \in 1 .. n - 1 |-> w[i]]
    BY <1>6, <1>8 DEF IdsOf
<1>10. w = [i \in 1 .. n - 1 |-> w[i]]
    BY <1>1, <1>7
<1>11. QED
    BY <1>2, <1>4, <1>5, <1>9, <1>10

(* Lists whose cells keep their ids show the same queues.                  *)
LEMMA IdsOfSame ==
    ASSUME NEW mem, NEW r, NEW cs \in Seq(OrderCells),
           \A x \in OrderCells : r.order[x].id = mem.order[x].id
    PROVE  IdsOf(r, cs) = IdsOf(mem, cs)
<1>1. \A i \in 1 .. Len(cs) : cs[i] \in OrderCells
    OBVIOUS
<1>2. QED
    BY <1>1 DEF IdsOf

(* The queue of level k, and the others.                                   *)
LEMMA QueueChanged ==
    ASSUME NEW mem \in Memory, NEW lists, ListsAre(mem, lists), LevelsSound(mem),
           NEW b, QueuesShown(mem, lists, b),
           NEW s \in Side, NEW p \in Prices, NEW l, l = mem.level_index[<<s, p>>], l # Null,
           NEW r, r.level_index = mem.level_index,
           \A x \in OrderCells : r.order[x].id = mem.order[x].id,
           NEW ds, NEW c, c.queue[<<s, p>>] = IdsOf(r, ds),
           \A h \in LevelKeys : h # <<s, p>> => c.queue[h] = b.queue[h]
    PROVE  QueuesShown(r, [lists EXCEPT ![l] = ds], c)
<1>1. PICK k : k = <<s, p>>
    OBVIOUS
<1>2. l \in LevelCells /\ \A g \in LevelKeys : mem.level_index[g] = l => g = k
    BY <1>1, FoundLevel
<1>3. k \in LevelKeys
    BY <1>1 DEF LevelKeys
<1>4. lists \in [LevelCells -> Seq(OrderCells)]
    BY DEF ListsAre
<1>5. PICK then : then = [lists EXCEPT ![l] = ds]
    OBVIOUS
<1>6. then[l] = ds /\ \A x \in LevelCells : x # l => then[x] = lists[x]
    BY <1>2, <1>4, <1>5
<1>7. ASSUME NEW h \in LevelKeys
      PROVE  c.queue[h] = IF r.level_index[h] = Null THEN <<>>
                          ELSE IdsOf(r, then[r.level_index[h]])
  <2>1. CASE h = k
    BY <1>1, <1>6, <2>1
  <2>2. CASE h # k
    <3>1. PICK x : x = mem.level_index[h]
      OBVIOUS
    <3>2. c.queue[h] = IF x = Null THEN <<>> ELSE IdsOf(mem, lists[x])
      BY <1>1, <2>2, <3>1 DEF QueuesShown
    <3>3. ASSUME x # Null PROVE IdsOf(mem, lists[x]) = IdsOf(r, then[x])
      <4>1. x \in LevelCells /\ x # l
        BY <1>2, <2>2, <3>1, <3>3, MemoryFields
      <4>2. then[x] = lists[x] /\ lists[x] \in Seq(OrderCells)
        BY <1>4, <1>6, <4>1
      <4>3. IdsOf(r, lists[x]) = IdsOf(mem, lists[x])
        BY <4>2, IdsOfSame
      <4>4. QED
        BY <4>2, <4>3
    <3>4. QED
      BY <3>1, <3>2, <3>3
  <2>3. QED
    BY <2>1, <2>2
<1>8. QED
    BY <1>5, <1>7 DEF QueuesShown

(* Taking an order off its list is taking its id out of the queue.         *)
LEMMA UnlinkQueue ==
    ASSUME NEW mem \in Memory, NEW lists, Sound(mem, lists, Null, Null),
           NEW b \in Book, OrdersShown(mem, b, Null), QueuesShown(mem, lists, b),
           NEW id \in Ids, NEW c, NEW l, Found(mem, id, c, l), NEW j \in 1 .. Len(lists[l]), lists[l][j] = c,
           NEW r, \A x \in OrderCells : r.order[x].id = mem.order[x].id,
           r.level_index = mem.level_index
    PROVE  /\ QueuesShown(r, [lists EXCEPT ![l] = RemoveAt(lists[l], j)], OffLevel(b, id))
           /\ OffLevel(b, id) \in Book /\ OffLevel(b, id).orders = b.orders
<1>1. /\ c \in OrderCells /\ mem.order[c].id = id /\ l \in LevelCells /\ l # Null
      /\ mem.order[c].price \in Prices /\ mem.order[c].side \in Side
      /\ mem.level_index[<<mem.order[c].side, mem.order[c].price>>] = l
  <2>1. OrderAt(mem, id, c, l)
    BY OrderPlace
  <2>2. QED
    BY <2>1 DEF OrderAt
<1>19. PICK s \in Side, p \in Prices : s = mem.order[c].side /\ p = mem.order[c].price
    BY <1>1
<1>2. PICK k : k = <<s, p>>
    OBVIOUS
<1>3. PICK cs : cs = lists[l]
    OBVIOUS
<1>4. /\ c \in OrderCells /\ mem.order[c].id = id
      /\ l \in LevelCells /\ l # Null
      /\ mem.level_index[k] = l
    BY <1>1, <1>2, <1>19
<1>5. k \in LevelKeys
    BY <1>2 DEF LevelKeys
<1>6. LevelOf(b.orders[id]) = k
  <2>1. b.orders[id] = OrderOf(mem.order[c])
    BY NullIsNoCell DEF OrdersShown, Found
  <2>2. QED
    BY <1>2, <1>19, <2>1 DEF LevelOf, OrderOf
<1>7. PICK q : q = IdsOf(mem, cs)
    OBVIOUS
<1>8. b.queue[k] = q
    BY <1>3, <1>4, <1>5, <1>7 DEF QueuesShown
<1>9. cs \in Seq(OrderCells)
    BY <1>3, <1>4 DEF Sound, ListsAre
<1>10. /\ q \in Seq(Ids) /\ Len(q) = Len(cs)
       /\ \A i \in 1 .. Len(cs) : q[i] = mem.order[cs[i]].id
       /\ \A i, h \in 1 .. Len(cs) : q[i] = q[h] => i = h
  <2>1. /\ IdsOf(mem, lists[l]) \in Seq(Ids)
        /\ Len(IdsOf(mem, lists[l])) = Len(lists[l])
        /\ \A i \in 1 .. Len(lists[l]) : IdsOf(mem, lists[l])[i] = mem.order[lists[l][i]].id
        /\ \A i, h \in 1 .. Len(lists[l]) :
              IdsOf(mem, lists[l])[i] = IdsOf(mem, lists[l])[h] => i = h
    BY <1>4, IdsOfFacts, Zenon
  <2>2. QED
    BY <1>3, <1>7, <2>1, Zenon
<1>11. WithoutId(q, id) = RemoveAt(q, j)
  <2>1. j \in 1 .. Len(q) /\ q[j] = id
    <3>1. j \in 1 .. Len(cs) /\ cs[j] = c
      BY <1>3
    <3>2. QED
      BY <1>4, <1>10, <3>1
  <2>2. \A i \in 1 .. Len(q) : q[i] = id => i = j
    BY <1>10, <2>1
  <2>3. QED
    BY <2>1, <2>2, WithoutIdIsRemoveAt
<1>12. RemoveAt(q, j) = IdsOf(r, RemoveAt(cs, j))
  <2>1. j \in 1 .. Len(cs) /\ IdsOf(mem, cs) \in Seq(Ids)
    BY <1>3, <1>7, <1>10, Zenon
  <2>2. IdsOf(r, RemoveAt(cs, j)) = RemoveAt(IdsOf(mem, cs), j)
    BY <1>9, <2>1, IdsOfRemoved
  <2>3. QED
    BY <1>7, <2>2
<1>13. PICK off : off = OffLevel(b, id)
    OBVIOUS
<1>14. off.queue = [b.queue EXCEPT ![k] = WithoutId(q, id)]
  <2>1. off = [b EXCEPT !.queue[LevelOf(b.orders[id])] = WithoutId(b.queue[LevelOf(b.orders[id])], id)]
    BY <1>13, Zenon DEF OffLevel
  <2>2. off = [b EXCEPT !.queue[k] = WithoutId(q, id)]
    BY <1>6, <1>8, <2>1
  <2>3. QED
    BY <2>2 DEF Book
<1>15. /\ off.queue[k] = IdsOf(r, RemoveAt(cs, j))
       /\ \A h \in LevelKeys : h # k => off.queue[h] = b.queue[h]
  <2>1. b.queue \in [LevelKeys -> Seq(Ids)]
    BY DEF Book
  <2>2. QED
    BY <1>5, <1>11, <1>12, <1>14, <2>1
<1>16. QueuesShown(r, [lists EXCEPT ![l] = RemoveAt(cs, j)], off)
  <2>1. ListsAre(mem, lists) /\ LevelsSound(mem)
    BY DEF Sound
  <2>2. QED
    BY <1>2, <1>4, <1>15, <2>1, QueueChanged
<1>17. off \in Book /\ off.orders = b.orders
  <2>1. WithoutId(q, id) \in Seq(Ids)
    <3>4. j \in 1 .. Len(cs)
      BY <1>3
    <3>1. j \in 1 .. Len(q)
      BY <1>10, <3>4
    <3>2. RemoveAt(q, j) \in Seq(Ids)
      BY <1>10, <3>1, RemoveAtFacts
    <3>3. QED
      BY <1>11, <3>2
  <2>2. off = [b EXCEPT !.queue[LevelOf(b.orders[id])] = WithoutId(b.queue[LevelOf(b.orders[id])], id)]
    BY <1>13, Zenon DEF OffLevel
  <2>3. off = [b EXCEPT !.queue[k] = WithoutId(q, id)]
    BY <1>6, <1>8, <2>2
  <2>4. QED
    BY <2>1, <2>3 DEF Book
<1>18. QED
    BY <1>3, <1>13, <1>16, <1>17

(* What an operation in the middle knows of the order it has in hand.      *)
InHand(mem, c, id, s, p) ==
    /\ c \in OrderCells /\ mem.order[c] \in OrderCell
    /\ mem.order[c].level = Null /\ mem.order[c].prev = Null /\ mem.order[c].next = Null
    /\ mem.order[c].id = id /\ mem.order[c].side = s /\ mem.order[c].price = p

(* The memory r is mem but for the lists, which c is no longer on.         *)
OffItsList(mem, r, id, c) ==
    /\ InHand(r, c, id, mem.order[c].side, mem.order[c].price)
    /\ r.order[c].qty = mem.order[c].qty
    /\ r.order_index = mem.order_index /\ r.level_index = mem.level_index
    /\ r.best = mem.best

(* unlink, and what of the memory it leaves alone.                         *)
LEMMA UnlinkAgrees ==
    ASSUME NEW mem, NEW b, Agrees(mem, b, Null, Null),
           NEW id \in Ids, NEW c, NEW l, Found(mem, id, c, l), NEW r, r = Unlink(mem, l, c)
    PROVE  /\ Agrees(r, OffLevel(b, id), c, l)
           /\ OffItsList(mem, r, id, c)
<1>1. PICK lists : Sound(mem, lists, Null, Null) /\ QueuesShown(mem, lists, b)
    BY DEF Agrees
<1>2. mem \in Memory /\ b \in Book /\ OrdersShown(mem, b, Null)
    BY DEF Agrees
<1>20. OrderAt(mem, id, c, l) /\ Listed(lists, l, c)
    BY <1>1, <1>2, OrderPlace
<1>3. /\ c \in OrderCells /\ mem.order[c].id = id /\ l \in LevelCells /\ l # Null
    BY <1>20 DEF OrderAt
<1>4. PICK j \in 1 .. Len(lists[l]) : lists[l][j] = c
    BY <1>20 DEF Listed
<1>5. PICK then : then = [lists EXCEPT ![l] = RemoveAt(lists[l], j)]
    OBVIOUS
<1>6. ListsAre(mem, lists) /\ LevelsSound(mem)
    BY <1>1 DEF Sound
<1>7. ListsAre(r, then) /\ mem.level[l].order_count > 0
    BY <1>2, <1>3, <1>4, <1>5, <1>6, UnlinkLists
<1>8. /\ r \in Memory
      /\ r.order_pool = mem.order_pool /\ r.level_pool = mem.level_pool
      /\ r.order_index = mem.order_index /\ r.level_index = mem.level_index
      /\ r.best = mem.best
      /\ \A x \in OrderCells :
            /\ r.order[x].id = mem.order[x].id /\ r.order[x].price = mem.order[x].price
            /\ r.order[x].qty = mem.order[x].qty /\ r.order[x].side = mem.order[x].side
            /\ r.order[x].level = IF x = c THEN Null ELSE mem.order[x].level
            /\ x = c => r.order[x].prev = Null /\ r.order[x].next = Null
      /\ \A x \in LevelCells :
            /\ r.level[x].price = mem.level[x].price /\ r.level[x].side = mem.level[x].side
            /\ r.level[x].prev = mem.level[x].prev /\ r.level[x].next = mem.level[x].next
    BY <1>2, <1>3, <1>7, UnlinkFields
<1>9. LevelsSound(r)
    BY <1>6, <1>8, SameLevels
<1>10. Filed(r)
  <2>1. Filed(mem)
    BY <1>1 DEF Sound
  <2>2. QED
    BY <1>8, <2>1 DEF Filed
<1>11. Indexed(r, c)
  <2>1. Indexed(mem, Null)
    BY <1>1 DEF Sound
  <2>2. ASSUME NEW x \in Ids, r.order_index[x] # Null
        PROVE  /\ r.order[r.order_index[x]].id = x
               /\ r.order[r.order_index[x]].level # Null \/ r.order_index[x] = c
    <3>1. PICK y \in OrderCells : y = mem.order_index[x]
      BY <1>2, <1>8, <2>2, MemoryFields
    <3>2. mem.order[y].id = x /\ mem.order[y].level # Null
      BY <1>8, <2>1, <2>2, <3>1 DEF Indexed
    <3>3. QED
      BY <1>8, <3>1, <3>2
  <2>3. ASSUME NEW x \in OrderCells, r.order[x].level # Null
        PROVE  r.order[x].id \in Ids /\ r.order_index[r.order[x].id] = x
    <3>1. mem.order[x].level # Null
      BY <1>8, <2>3
    <3>2. QED
      BY <1>8, <2>1, <3>1 DEF Indexed
  <2>4. QED
    BY <2>2, <2>3 DEF Indexed
<1>12. OrderPoolIs(r, c)
  <2>1. OrderPoolIs(mem, Null)
    BY <1>1 DEF Sound
  <2>2. \A x \in OrderCells : x # Null
    BY NullIsNoCell
  <2>5. mem.order[c].level # Null
    BY <1>3 DEF Found
  <2>3. \A x \in OrderCells : r.order[x].level = Null /\ x # c <=> mem.order[x].level = Null /\ x # Null
    BY <1>8, <2>2, <2>5
  <2>4. QED
    BY <1>8, <2>1, <2>3 DEF OrderPoolIs
<1>13. NoneIdle(r, then, l)
  <2>1. NoneIdle(mem, lists, Null)
    BY <1>1 DEF Sound
  <2>2. \A x \in LevelCells : x # l => then[x] = lists[x]
    BY <1>3, <1>5, <1>6 DEF ListsAre
  <2>3. \A x \in LevelCells : x # Null /\ (Unindexed(mem, x) => Unindexed(r, x))
    BY <1>8, NullIsNoCell DEF Unindexed
  <2>4. QED
    BY <2>1, <2>2, <2>3 DEF NoneIdle
<1>14. Sound(r, then, c, l)
    BY <1>7, <1>9, <1>10, <1>11, <1>12, <1>13 DEF Sound
<1>15. QueuesShown(r, then, OffLevel(b, id)) /\ OffLevel(b, id) \in Book
       /\ OffLevel(b, id).orders = b.orders
  <2>1. /\ QueuesShown(r, [lists EXCEPT ![l] = RemoveAt(lists[l], j)], OffLevel(b, id))
        /\ OffLevel(b, id) \in Book /\ OffLevel(b, id).orders = b.orders
    BY <1>1, <1>2, <1>4, <1>8, UnlinkQueue
  <2>2. QED
    BY <1>5, <2>1
<1>16. OrdersShown(r, OffLevel(b, id), c)
  <2>1. ASSUME NEW x \in Ids, mem.order_index[x] # Null
        PROVE  OrderOf(r.order[mem.order_index[x]]) = OrderOf(mem.order[mem.order_index[x]])
    <3>1. mem.order_index[x] \in OrderCells
      BY <1>2, <2>1, MemoryFields
    <3>2. QED
      BY <1>8, <3>1 DEF OrderOf
  <2>2. QED
    BY <1>2, <1>8, <1>15, <2>1 DEF OrdersShown
<1>17. Agrees(r, OffLevel(b, id), c, l)
    BY <1>8, <1>14, <1>15, <1>16 DEF Agrees
<1>18. r.order[c] \in OrderCell
    BY <1>3, <1>8, MemoryFields
<1>19. QED
    BY <1>3, <1>8, <1>17, <1>18 DEF InHand, OffItsList

(* Where the level of an indexed order is.                                 *)
LEMMA AgreesOrder ==
    ASSUME NEW mem, NEW b, Agrees(mem, b, Null, Null),
           NEW id \in Ids, NEW c, NEW l, Found(mem, id, c, l)
    PROVE  /\ OrderAt(mem, id, c, l)
           /\ b.orders[id] = OrderOf(mem.order[c]) /\ id \in Resting(b)
<1>1. PICK lists : Sound(mem, lists, Null, Null)
    BY DEF Agrees
<1>2. mem \in Memory /\ b \in Book /\ OrdersShown(mem, b, Null)
    BY DEF Agrees
<1>3. OrderAt(mem, id, c, l)
    BY <1>1, <1>2, OrderPlace
<1>4. /\ mem.order[c].qty \in Int /\ mem.order[c].price \in Prices
      /\ mem.order[c].side \in Side
    BY <1>3 DEF OrderAt, OrderCell
<1>5. b.orders[id] = OrderOf(mem.order[c])
    BY <1>2 DEF OrdersShown, Found
<1>6. OrderOf(mem.order[c]) \in Order
    BY <1>4 DEF OrderOf, Order
<1>7. id \in Resting(b)
    BY <1>5, <1>6, BookAssumption DEF Resting
<1>8. QED
    BY <1>3, <1>5, <1>7

(* A level without orders.                                                 *)
LEMMA EmptyList ==
    ASSUME NEW mem, NEW l
    PROVE  /\ IdsOf(mem, <<>>) = <<>>
           /\ ListIs(mem, l, <<>>) <=>
                 /\ mem.level[l].order_count = 0 /\ mem.level[l].total_qty = 0
                 /\ mem.level[l].head = Null /\ mem.level[l].tail = Null
<1>1. IdsOf(mem, <<>>) = <<>> /\ QtysOf(mem, <<>>) = <<>>
    BY DEF IdsOf, QtysOf
<1>2. Len(<<>>) = 0 /\ Total(<<>>) = 0
    BY TotalOfNone
<1>3. QED
    BY <1>1, <1>2 DEF ListIs

(* Level l is the one the index has for side s and price p.                *)
LevelAt(mem, s, p, l) == l = mem.level_index[<<s, p>>] /\ l # Null

(* What is known of the level of side s and price p.                       *)
LEMMA LevelAtFacts ==
    ASSUME NEW mem \in Memory, LevelsSound(mem), NEW s \in Side, NEW p \in Prices,
           NEW l, LevelAt(mem, s, p, l)
    PROVE  /\ l \in LevelCells /\ l # Null /\ mem.level[l].side = s /\ mem.level[l].price = p
           /\ ~ Unindexed(mem, l)
           /\ \A k \in LevelKeys : mem.level_index[k] = l => k = <<s, p>>
BY FoundLevel DEF LevelAt

(* What the end of a list does to its level.                               *)
Tidied(mem, r, s, p, l) ==
    /\ r.order = mem.order /\ r.order_pool = mem.order_pool /\ r.order_index = mem.order_index
    /\ EmptyLevel(mem, l) => r.level_pool # <<>> /\ r.level_index[<<s, p>>] = Null
    /\ ~ EmptyLevel(mem, l) => r = mem

(* remove_level after an unlink that left no order.                        *)
LEMMA EmptyLevelRemoved ==
    ASSUME NEW mem, NEW b, NEW hand, NEW l, Agrees(mem, b, hand, l),
           NEW s \in Side, NEW p \in Prices, LevelAt(mem, s, p, l), EmptyLevel(mem, l),
           NEW r, r = RemoveLevel(mem, l)
    PROVE  Agrees(r, b, hand, Null) /\ Tidied(mem, r, s, p, l)
<1>1. PICK lists : Sound(mem, lists, hand, l) /\ QueuesShown(mem, lists, b)
                   /\ OrdersShown(mem, b, hand)
    BY DEF Agrees
<1>2. mem \in Memory /\ b \in Book
    BY DEF Agrees
<1>3. /\ ListsAre(mem, lists) /\ LevelsSound(mem) /\ Filed(mem) /\ Indexed(mem, hand)
      /\ OrderPoolIs(mem, hand) /\ NoneIdle(mem, lists, l)
    BY <1>1 DEF Sound
<1>4. /\ l \in LevelCells /\ l # Null /\ mem.level[l].side = s /\ mem.level[l].price = p
      /\ \A k \in LevelKeys : mem.level_index[k] = l => k = <<s, p>>
    BY <1>2, <1>3, LevelAtFacts
<1>5. lists[l] = <<>>
    BY <1>3, <1>4, ListCells DEF EmptyLevel
<1>6. LevelsSound(r) /\ LevelGone(mem, r, l)
    BY <1>2, <1>3, LevelRemoved DEF LevelAt
<1>7. /\ r \in Memory
      /\ r.order = mem.order /\ r.order_pool = mem.order_pool /\ r.order_index = mem.order_index
      /\ r.level_pool = Cons(l, mem.level_pool)
      /\ r.level_index = [mem.level_index EXCEPT ![<<s, p>>] = Null]
      /\ r.level[l] = FreeLevel(s)
      /\ \A x \in LevelCells : x # l => SameLevel(mem.level[x], r.level[x])
    BY <1>4, <1>6 DEF LevelGone
<1>8. /\ <<s, p>> \in LevelKeys /\ r.level_index[<<s, p>>] = Null
      /\ \A k \in LevelKeys : k # <<s, p>> => r.level_index[k] = mem.level_index[k]
  <2>1. <<s, p>> \in LevelKeys
    BY DEF LevelKeys
  <2>2. mem.level_index \in [LevelKeys -> LevelCells \union {Null}]
    BY <1>2, MemoryFields
  <2>3. QED
    BY <1>7, <2>1, <2>2
<1>9. ListsAre(r, lists)
  <2>1. ListIs(mem, l, <<>>)
    BY <1>3, <1>4, <1>5 DEF ListsAre
  <2>2. /\ mem.level[l].order_count = 0 /\ mem.level[l].total_qty = 0
        /\ mem.level[l].head = Null /\ mem.level[l].tail = Null
    BY <2>1, EmptyList
  <2>3. /\ r.level[l].order_count = 0 /\ r.level[l].total_qty = 0
        /\ r.level[l].head = Null /\ r.level[l].tail = Null
    BY <1>7, BlankLevelFields
  <2>4. \A x \in LevelCells :
           /\ r.level[x].head = mem.level[x].head /\ r.level[x].tail = mem.level[x].tail
           /\ r.level[x].order_count = mem.level[x].order_count
           /\ r.level[x].total_qty = mem.level[x].total_qty
    BY <1>7, <2>2, <2>3 DEF SameLevel
  <2>5. QED
    BY <1>3, <1>7, <2>4, SameLists
<1>10. ASSUME NEW c \in OrderCells, mem.order[c].level # Null PROVE mem.order[c].level # l
  <2>1. \E i \in 1 .. Len(lists[mem.order[c].level]) : lists[mem.order[c].level][i] = c
    BY <1>3, <1>10 DEF ListsAre
  <2>2. QED
    BY <1>5, <2>1
<1>11. Filed(r)
  <2>1. ASSUME NEW c \in OrderCells, mem.order[c].level # Null
        PROVE  /\ mem.order[c].price \in Prices
               /\ r.level_index[<<mem.order[c].side, mem.order[c].price>>] = mem.order[c].level
    <3>1. /\ mem.order[c].price \in Prices
          /\ mem.level_index[<<mem.order[c].side, mem.order[c].price>>] = mem.order[c].level
      BY <1>3, <2>1 DEF Filed
    <3>2. mem.order[c].side \in Side
      BY <1>2, MemoryFields DEF OrderCell
    <3>3. <<mem.order[c].side, mem.order[c].price>> \in LevelKeys
      BY <3>1, <3>2 DEF LevelKeys
    <3>4. <<mem.order[c].side, mem.order[c].price>> # <<s, p>>
      <4>1. mem.level_index[<<s, p>>] = l
        BY DEF LevelAt
      <4>2. QED
        BY <1>10, <2>1, <3>1, <4>1
    <3>5. QED
      BY <1>8, <3>1, <3>3, <3>4
  <2>2. QED
    BY <1>7, <2>1 DEF Filed
<1>12. Indexed(r, hand) /\ OrderPoolIs(r, hand)
    BY <1>3, <1>7 DEF Indexed, OrderPoolIs
<1>13. NoneIdle(r, lists, Null)
  <2>1. ASSUME NEW x \in LevelCells, lists[x] = <<>> PROVE Unindexed(r, x)
    <3>1. x # Null
      BY NullIsNoCell
    <3>2. CASE x = l
      BY <1>4, <1>8, <3>1, <3>2 DEF Unindexed
    <3>3. CASE x # l
      <4>1. Unindexed(mem, x)
        BY <1>3, <2>1, <3>3 DEF NoneIdle
      <4>2. QED
        BY <1>8, <3>1, <4>1 DEF Unindexed
    <3>4. QED
      BY <3>2, <3>3
  <2>2. QED
    BY <2>1 DEF NoneIdle
<1>14. Sound(r, lists, hand, Null)
    BY <1>6, <1>9, <1>11, <1>12, <1>13 DEF Sound
<1>15. QueuesShown(r, lists, b)
  <2>1. b.queue[<<s, p>>] = <<>>
    <3>1. b.queue[<<s, p>>] = IdsOf(mem, lists[l])
      BY <1>1, <1>8 DEF QueuesShown, LevelAt
    <3>2. QED
      BY <1>5, <3>1, EmptyList
  <2>2. ASSUME NEW k \in LevelKeys, k # <<s, p>>
        PROVE  b.queue[k] = IF r.level_index[k] = Null THEN <<>>
                            ELSE IdsOf(r, lists[r.level_index[k]])
    <3>1. r.level_index[k] = mem.level_index[k]
      BY <1>8, <2>2
    <3>2. \A cs : IdsOf(r, cs) = IdsOf(mem, cs)
      BY <1>7 DEF IdsOf
    <3>3. QED
      BY <1>1, <3>1, <3>2 DEF QueuesShown
  <2>3. QED
    BY <1>8, <2>1, <2>2 DEF QueuesShown
<1>16. OrdersShown(r, b, hand)
    BY <1>1, <1>7 DEF OrdersShown
<1>17. r.level_pool # <<>>
  <2>1. Len(Cons(l, mem.level_pool)) = Len(mem.level_pool) + 1 /\ Len(mem.level_pool) \in Nat
    BY <1>2, <1>4, MemoryFields, ConsFacts
  <2>2. QED
    BY <1>7, <2>1
<1>18. QED
    BY <1>2, <1>7, <1>8, <1>14, <1>15, <1>16, <1>17 DEF Agrees, Tidied

(* A level without orders is taken away; the book stays.                   *)
LEMMA RemoveIfEmptyAgrees ==
    ASSUME NEW mem, NEW b, NEW hand, NEW l, Agrees(mem, b, hand, l),
           NEW s \in Side, NEW p \in Prices, LevelAt(mem, s, p, l),
           NEW r, r = RemoveIfEmpty(mem, l)
    PROVE  Agrees(r, b, hand, Null) /\ Tidied(mem, r, s, p, l)
<1>1. CASE EmptyLevel(mem, l)
  <2>1. r = RemoveLevel(mem, l)
    BY <1>1 DEF RemoveIfEmpty
  <2>2. QED
    BY <1>1, <2>1, EmptyLevelRemoved
<1>2. CASE ~ EmptyLevel(mem, l)
  <2>1. r = mem
    BY <1>2 DEF RemoveIfEmpty
  <2>2. PICK lists : Sound(mem, lists, hand, l) /\ QueuesShown(mem, lists, b)
                     /\ OrdersShown(mem, b, hand)
    BY DEF Agrees
  <2>3. mem \in Memory /\ b \in Book
    BY DEF Agrees
  <2>4. LevelsSound(mem) /\ ListsAre(mem, lists)
    BY <2>2 DEF Sound
  <2>5. l \in LevelCells
    BY <2>3, <2>4, LevelAtFacts
  <2>6. lists[l] # <<>>
    BY <1>2, <2>4, <2>5, ListCells DEF EmptyLevel
  <2>7. NoneIdle(mem, lists, Null)
    BY <2>2, <2>6 DEF Sound, NoneIdle
  <2>8. Sound(mem, lists, hand, Null)
    BY <2>2, <2>7 DEF Sound
  <2>9. Agrees(mem, b, hand, Null)
    BY <2>2, <2>3, <2>8 DEF Agrees
  <2>10. QED
    BY <1>2, <2>1, <2>9 DEF Tidied
<1>3. QED
    BY <1>1, <1>2

(* The memory r and the level l that get_or_create_level came to.          *)
GotLevel(mem, r, l, s, p) ==
    /\ r.order = mem.order /\ r.order_pool = mem.order_pool /\ r.order_index = mem.order_index
    /\ IF l = Null THEN r = mem /\ mem.level_pool = <<>> /\ mem.level_index[<<s, p>>] = Null
       ELSE LevelAt(r, s, p, l) /\ (mem.level_index[<<s, p>>] # Null \/ mem.level_pool # <<>>)

(* A new level without orders changes no queue.                            *)
LEMMA CreatedAgrees ==
    ASSUME NEW mem, NEW b, NEW hand, Agrees(mem, b, hand, Null),
           NEW s \in Side, NEW p \in Prices, mem.level_index[<<s, p>>] = Null,
           mem.level_pool # <<>>, NEW r, NEW l, Created(mem, r, l, s, p)
    PROVE  Agrees(r, b, hand, l) /\ GotLevel(mem, r, l, s, p)
<1>1. PICK lists : Sound(mem, lists, hand, Null) /\ QueuesShown(mem, lists, b)
                   /\ OrdersShown(mem, b, hand)
    BY DEF Agrees
<1>2. mem \in Memory /\ b \in Book
    BY DEF Agrees
<1>3. /\ ListsAre(mem, lists) /\ Filed(mem) /\ Indexed(mem, hand)
      /\ OrderPoolIs(mem, hand) /\ NoneIdle(mem, lists, Null)
    BY <1>1 DEF Sound
<1>4. l \in LevelCells /\ l # Null /\ Unindexed(mem, l) /\ LevelsSound(r)
    BY DEF Created
<1>5. lists[l] = <<>>
  <2>1. lists[l] \in Seq(OrderCells) /\ Len(lists[l]) \in Nat
    BY <1>3, <1>4, ListCells
  <2>2. \A i \in 1 .. Len(lists[l]) : FALSE
    BY <1>1, <1>2, <1>4, ListedOrder
  <2>3. QED
    BY <2>1, <2>2, EmptySeq
<1>7. /\ r \in Memory
      /\ r.order = mem.order /\ r.order_pool = mem.order_pool /\ r.order_index = mem.order_index
      /\ r.level_index = [mem.level_index EXCEPT ![<<s, p>>] = l]
      /\ SameLevel(NewLevel(s, p), r.level[l])
      /\ \A x \in LevelCells : x # l => SameLevel(mem.level[x], r.level[x])
  <2>1. PICK before, after \in LevelRef : LevelMade(mem, r, l, s, p, before, after)
    BY DEF Created
  <2>2. QED
    BY <2>1 DEF LevelMade
<1>8. /\ <<s, p>> \in LevelKeys /\ r.level_index[<<s, p>>] = l
      /\ \A k \in LevelKeys : k # <<s, p>> => r.level_index[k] = mem.level_index[k]
  <2>1. <<s, p>> \in LevelKeys
    BY DEF LevelKeys
  <2>2. mem.level_index \in [LevelKeys -> LevelCells \union {Null}]
    BY <1>2, MemoryFields
  <2>3. QED
    BY <1>7, <2>1, <2>2
<1>9. ListsAre(r, lists)
  <2>1. ListIs(mem, l, <<>>)
    BY <1>3, <1>4, <1>5 DEF ListsAre
  <2>2. /\ mem.level[l].order_count = 0 /\ mem.level[l].total_qty = 0
        /\ mem.level[l].head = Null /\ mem.level[l].tail = Null
    BY <2>1, EmptyList
  <2>3. /\ r.level[l].order_count = 0 /\ r.level[l].total_qty = 0
        /\ r.level[l].head = Null /\ r.level[l].tail = Null
    <3>1. /\ NewLevel(s, p).order_count = 0 /\ NewLevel(s, p).total_qty = 0
          /\ NewLevel(s, p).head = Null /\ NewLevel(s, p).tail = Null
      BY BlankLevelFields
    <3>2. QED
      BY <1>7, <3>1 DEF SameLevel
  <2>4. \A x \in LevelCells :
           /\ r.level[x].head = mem.level[x].head /\ r.level[x].tail = mem.level[x].tail
           /\ r.level[x].order_count = mem.level[x].order_count
           /\ r.level[x].total_qty = mem.level[x].total_qty
    BY <1>7, <2>2, <2>3 DEF SameLevel
  <2>5. QED
    BY <1>3, <1>7, <2>4, SameLists
<1>11. Filed(r)
  <2>1. ASSUME NEW c \in OrderCells, mem.order[c].level # Null
        PROVE  /\ mem.order[c].price \in Prices
               /\ r.level_index[<<mem.order[c].side, mem.order[c].price>>] = mem.order[c].level
    <3>1. /\ mem.order[c].price \in Prices
          /\ mem.level_index[<<mem.order[c].side, mem.order[c].price>>] = mem.order[c].level
      BY <1>3, <2>1 DEF Filed
    <3>2. mem.order[c].side \in Side
      BY <1>2, MemoryFields DEF OrderCell
    <3>3. <<mem.order[c].side, mem.order[c].price>> \in LevelKeys
      BY <3>1, <3>2 DEF LevelKeys
    <3>4. <<mem.order[c].side, mem.order[c].price>> # <<s, p>>
      BY <2>1, <3>1
    <3>5. QED
      BY <1>8, <3>1, <3>3, <3>4
  <2>2. QED
    BY <1>7, <2>1 DEF Filed
<1>12. Indexed(r, hand) /\ OrderPoolIs(r, hand)
    BY <1>3, <1>7 DEF Indexed, OrderPoolIs
<1>13. NoneIdle(r, lists, l)
  <2>1. ASSUME NEW x \in LevelCells, x # l, lists[x] = <<>> PROVE Unindexed(r, x)
    <3>1. x # Null
      BY NullIsNoCell
    <3>2. Unindexed(mem, x)
      BY <1>3, <2>1, <3>1 DEF NoneIdle
    <3>3. QED
      BY <1>8, <2>1, <3>2 DEF Unindexed
  <2>2. QED
    BY <2>1 DEF NoneIdle
<1>14. Sound(r, lists, hand, l)
    BY <1>4, <1>9, <1>11, <1>12, <1>13 DEF Sound
<1>15. QueuesShown(r, lists, b)
  <2>1. b.queue[<<s, p>>] = <<>> /\ IdsOf(r, lists[l]) = <<>>
    <3>1. b.queue[<<s, p>>] = <<>>
      BY <1>1, <1>8 DEF QueuesShown
    <3>2. QED
      BY <1>5, <3>1, EmptyList
  <2>2. ASSUME NEW k \in LevelKeys, k # <<s, p>>
        PROVE  b.queue[k] = IF r.level_index[k] = Null THEN <<>>
                            ELSE IdsOf(r, lists[r.level_index[k]])
    <3>1. r.level_index[k] = mem.level_index[k]
      BY <1>8, <2>2
    <3>2. \A cs : IdsOf(r, cs) = IdsOf(mem, cs)
      BY <1>7 DEF IdsOf
    <3>3. QED
      BY <1>1, <3>1, <3>2 DEF QueuesShown
  <2>3. QED
    BY <1>4, <1>8, <2>1, <2>2 DEF QueuesShown
<1>16. OrdersShown(r, b, hand)
    BY <1>1, <1>7 DEF OrdersShown
<1>17. GotLevel(mem, r, l, s, p)
    BY <1>4, <1>7, <1>8 DEF GotLevel, LevelAt
<1>18. QED
    BY <1>2, <1>7, <1>14, <1>15, <1>16, <1>17 DEF Agrees

(* Any level may be the one that is allowed to be empty.                   *)
LEMMA AgreesSparing ==
    ASSUME NEW mem, NEW b, NEW hand, Agrees(mem, b, hand, Null), NEW l
    PROVE  Agrees(mem, b, hand, l)
<1>1. PICK lists : Sound(mem, lists, hand, Null) /\ QueuesShown(mem, lists, b)
                   /\ OrdersShown(mem, b, hand)
    BY DEF Agrees
<1>2. NoneIdle(mem, lists, l)
  <2>1. \A x \in LevelCells : x # Null
    BY NullIsNoCell
  <2>2. NoneIdle(mem, lists, Null)
    BY <1>1 DEF Sound
  <2>3. QED
    BY <2>1, <2>2 DEF NoneIdle
<1>3. Sound(mem, lists, hand, l)
    BY <1>1, <1>2 DEF Sound
<1>4. QED
    BY <1>1, <1>3 DEF Agrees

(* get_or_create_level shows in no queue.                                  *)
LEMMA GetOrCreateAgrees ==
    ASSUME NEW mem, NEW b, NEW hand, Agrees(mem, b, hand, Null),
           NEW s \in Side, NEW p \in Prices,
           NEW got, got = GetOrCreateLevel(mem, s, p)
    PROVE  Agrees(got.mem, b, hand, got.level) /\ GotLevel(mem, got.mem, got.level, s, p)
<1>1. mem \in Memory /\ LevelsSound(mem)
    BY DEF Agrees, Sound
<1>2. /\ mem.level_index[<<s, p>>] # Null =>
            got.mem = mem /\ got.level = mem.level_index[<<s, p>>]
      /\ mem.level_index[<<s, p>>] = Null /\ mem.level_pool = <<>> =>
            got.mem = mem /\ got.level = Null
      /\ mem.level_index[<<s, p>>] = Null /\ mem.level_pool # <<>> =>
            Created(mem, got.mem, got.level, s, p)
    BY <1>1, GetOrCreateCases
<1>3. CASE mem.level_index[<<s, p>>] # Null
  <2>1. got.mem = mem /\ got.level = mem.level_index[<<s, p>>]
    BY <1>2, <1>3
  <2>2. Agrees(mem, b, hand, got.level)
    BY AgreesSparing
  <2>3. QED
    BY <1>3, <2>1, <2>2 DEF GotLevel, LevelAt
<1>4. CASE mem.level_index[<<s, p>>] = Null /\ mem.level_pool = <<>>
  <2>1. got.mem = mem /\ got.level = Null
    BY <1>2, <1>4
  <2>2. QED
    BY <1>4, <2>1 DEF GotLevel
<1>5. CASE mem.level_index[<<s, p>>] = Null /\ mem.level_pool # <<>>
    BY <1>2, <1>5, CreatedAgrees
<1>6. QED
    BY <1>3, <1>4, <1>5

-----------------------------------------------------------------------------
(* A pool of free cells, taken from and given back to at the front.        *)

-----------------------------------------------------------------------------
(* The cell in hand.                                                       *)

(* r is mem with another pool of orders.                                   *)
Repooled(mem, r, Q) ==
    /\ r \in Memory /\ r.order_pool = Q
    /\ r.order = mem.order /\ r.level = mem.level /\ r.level_pool = mem.level_pool
    /\ r.order_index = mem.order_index /\ r.level_index = mem.level_index
    /\ r.best = mem.best

(* Nothing a book is made of changed but the pool.                         *)
LEMMA RepooledAgrees ==
    ASSUME NEW mem, NEW b, NEW hand, Agrees(mem, b, hand, Null), NEW r, NEW Q, Repooled(mem, r, Q),
           NEW other, OrderPoolIs(r, other), Indexed(r, other), OrdersShown(mem, b, other)
    PROVE  Agrees(r, b, other, Null)
<1>1. PICK lists : Sound(mem, lists, hand, Null) /\ QueuesShown(mem, lists, b)
    BY DEF Agrees
<1>2. /\ r \in Memory
      /\ r.order = mem.order /\ r.level = mem.level /\ r.level_pool = mem.level_pool
      /\ r.order_index = mem.order_index /\ r.level_index = mem.level_index
      /\ r.best = mem.best
    BY DEF Repooled
<1>3. ListsAre(r, lists)
  <2>1. ListsAre(mem, lists)
    BY <1>1 DEF Sound
  <2>2. QED
    BY <1>2, <2>1, SameLists
<1>4. LevelsSound(r)
  <2>1. LevelsSound(mem)
    BY <1>1 DEF Sound
  <2>2. QED
    BY <1>2, <2>1, SameLevels
<1>5. Filed(r) /\ NoneIdle(r, lists, Null)
    BY <1>1, <1>2 DEF Sound, Filed, NoneIdle, Unindexed
<1>6. Sound(r, lists, other, Null)
    BY <1>3, <1>4, <1>5 DEF Sound
<1>7. OrdersShown(r, b, other) /\ QueuesShown(r, lists, b)
    BY <1>1, <1>2 DEF OrdersShown, QueuesShown, IdsOf
<1>8. QED
    BY <1>2, <1>6, <1>7 DEF Agrees

(* Acquiring the first free cell.                                          *)
LEMMA TakenAgrees ==
    ASSUME NEW mem, NEW b, Agrees(mem, b, Null, Null), mem.order_pool # <<>>,
           NEW c, c = Head(mem.order_pool), NEW r, Repooled(mem, r, Tail(mem.order_pool))
    PROVE  /\ Agrees(r, b, c, Null)
           /\ c \in OrderCells /\ r.order[c].level = Null
           /\ \A x \in Ids : r.order_index[x] # c
<1>1. /\ mem \in Memory /\ OrdersShown(mem, b, Null)
      /\ OrderPoolIs(mem, Null) /\ Indexed(mem, Null)
    BY DEF Agrees, Sound
<1>2. PICK w \in Seq(OrderCells) : w = mem.order_pool
    BY <1>1, MemoryFields
<1>3. /\ NoRepeat(w) /\ w # <<>> /\ c = Head(w)
      /\ \A x \in OrderCells : Has(w, x) <=> mem.order[x].level = Null
  <2>1. \A x \in OrderCells : x # Null
    BY NullIsNoCell
  <2>2. QED
    BY <1>1, <1>2, <2>1 DEF OrderPoolIs, NoRepeat, Has
<1>4. PICK q : q = Tail(w)
    OBVIOUS
<1>5. /\ c \in OrderCells /\ Has(w, c)
      /\ q \in Seq(OrderCells) /\ NoRepeat(q)
      /\ \A x : Has(q, x) <=> Has(w, x) /\ x # c
    BY <1>3, <1>4, PoolTail
<1>6. /\ r.order_pool = q /\ r.order = mem.order /\ r.order_index = mem.order_index
    BY <1>2, <1>4 DEF Repooled
<1>7. OrderPoolIs(r, c)
  <2>1. \A x \in OrderCells : Has(q, x) <=> r.order[x].level = Null /\ x # c
    BY <1>3, <1>5, <1>6
  <2>2. QED
    BY <1>5, <1>6, <2>1 DEF OrderPoolIs, NoRepeat, Has
<1>8. r.order[c].level = Null /\ c # Null
    BY <1>3, <1>5, <1>6, NullIsNoCell
<1>9. \A x \in Ids : r.order_index[x] # c
    BY <1>1, <1>6, <1>8, NullIsNoCell DEF Indexed
<1>10. Indexed(r, c)
  <2>1. \A x \in OrderCells : x # Null
    BY NullIsNoCell
  <2>2. mem.order_index \in [Ids -> OrderCells \union {Null}]
    BY <1>1, MemoryFields
  <2>3. QED
    BY <1>1, <1>6, <2>1, <2>2 DEF Indexed
<1>11. OrdersShown(mem, b, c)
    BY <1>1 DEF OrdersShown
<1>12. Agrees(r, b, c, Null)
    BY <1>7, <1>10, <1>11, RepooledAgrees
<1>13. QED
    BY <1>5, <1>8, <1>9, <1>12

(* Giving the cell in hand back.                                           *)
LEMMA ReleasedAgrees ==
    ASSUME NEW mem, NEW b, NEW c \in OrderCells, Agrees(mem, b, c, Null),
           mem.order[c].level = Null,
           \A x \in Ids : mem.order_index[x] # c,
           NEW r, Repooled(mem, r, Cons(c, mem.order_pool))
    PROVE  Agrees(r, b, Null, Null)
<1>1. /\ mem \in Memory /\ OrdersShown(mem, b, c)
      /\ OrderPoolIs(mem, c) /\ Indexed(mem, c)
    BY DEF Agrees, Sound
<1>2. PICK w \in Seq(OrderCells) : w = mem.order_pool
    BY <1>1, MemoryFields
<1>3. /\ NoRepeat(w)
      /\ \A x \in OrderCells : Has(w, x) <=> mem.order[x].level = Null /\ x # c
    BY <1>1, <1>2 DEF OrderPoolIs, NoRepeat, Has
<1>4. PICK q : q = Cons(c, w)
    OBVIOUS
<1>5. NoRepeat(q) /\ \A x : Has(q, x) <=> Has(w, x) \/ x = c
    BY <1>3, <1>4, PoolCons
<1>6. /\ r.order_pool = q /\ r.order = mem.order /\ r.order_index = mem.order_index
    BY <1>2, <1>4 DEF Repooled
<1>7. OrderPoolIs(r, Null)
  <2>1. \A x \in OrderCells : x # Null
    BY NullIsNoCell
  <2>2. \A x \in OrderCells : Has(q, x) <=> r.order[x].level = Null /\ x # Null
    BY <1>3, <1>5, <1>6, <2>1
  <2>3. QED
    BY <1>5, <1>6, <2>2 DEF OrderPoolIs, NoRepeat, Has
<1>8. Indexed(r, Null)
    BY <1>1, <1>6 DEF Indexed
<1>9. OrdersShown(mem, b, Null)
    BY <1>1 DEF OrdersShown
<1>10. QED
    BY <1>7, <1>8, <1>9, RepooledAgrees

-----------------------------------------------------------------------------

(* r is mem with the cell in hand written over.                            *)
HandWritten(mem, r, c, o) ==
    /\ c \in OrderCells /\ mem.order[c].level = Null
    /\ o \in OrderCell /\ o.level = Null /\ o.prev = Null /\ o.next = Null
    /\ \A x \in Ids : mem.order_index[x] = c => o.id = x
    /\ r \in Memory /\ r.order = [mem.order EXCEPT ![c] = o]
    /\ r.level = mem.level /\ r.best = mem.best
    /\ r.order_pool = mem.order_pool /\ r.level_pool = mem.level_pool
    /\ r.order_index = mem.order_index /\ r.level_index = mem.level_index

(* What is written to a cell that no list has is not seen.                 *)
LEMMA WriteHandAgrees ==
    ASSUME NEW mem, NEW b, NEW c, NEW spare, Agrees(mem, b, c, spare),
           NEW r, NEW o, HandWritten(mem, r, c, o)
    PROVE  Agrees(r, b, c, spare)
<1>1. PICK lists : Sound(mem, lists, c, spare) /\ QueuesShown(mem, lists, b)
                   /\ OrdersShown(mem, b, c)
    BY DEF Agrees
<1>2. mem \in Memory /\ b \in Book
    BY DEF Agrees
<1>3. /\ ListsAre(mem, lists) /\ LevelsSound(mem) /\ Filed(mem) /\ Indexed(mem, c)
      /\ OrderPoolIs(mem, c) /\ NoneIdle(mem, lists, spare)
    BY <1>1 DEF Sound
<1>4. /\ c \in OrderCells /\ mem.order[c].level = Null
      /\ o.level = Null /\ o.prev = Null /\ o.next = Null
      /\ \A x \in Ids : mem.order_index[x] = c => o.id = x
      /\ r \in Memory /\ r.order = [mem.order EXCEPT ![c] = o]
      /\ r.level = mem.level /\ r.best = mem.best
      /\ r.order_pool = mem.order_pool /\ r.level_pool = mem.level_pool
      /\ r.order_index = mem.order_index /\ r.level_index = mem.level_index
    BY DEF HandWritten
<1>5. r.order[c] = o /\ \A x \in OrderCells : x # c => r.order[x] = mem.order[x]
    BY <1>2, <1>4, MemoryFields
<1>6. mem.order[c].prev = Null /\ mem.order[c].next = Null
    BY <1>3, <1>4 DEF ListsAre
<1>7. \A x \in OrderCells :
         /\ r.order[x].level = mem.order[x].level
         /\ r.order[x].prev = mem.order[x].prev /\ r.order[x].next = mem.order[x].next
         /\ mem.order[x].level # Null => r.order[x] = mem.order[x]
    BY <1>4, <1>5, <1>6
<1>8. ListsAre(r, lists)
  <2>1. \A x \in OrderCells : mem.order[x].level # Null => r.order[x].qty = mem.order[x].qty
    BY <1>7
  <2>2. \A x \in OrderCells :
           /\ r.order[x].level = mem.order[x].level
           /\ r.order[x].prev = mem.order[x].prev /\ r.order[x].next = mem.order[x].next
    BY <1>7
  <2>3. r.level = mem.level
    BY <1>4
  <2>4. QED
    BY <1>3, <2>1, <2>2, <2>3, SameLists
<1>9. LevelsSound(r)
    BY <1>3, <1>4, SameLevels
<1>10. Filed(r)
    BY <1>3, <1>4, <1>7 DEF Filed
<1>11. Indexed(r, c)
  <2>1. ASSUME NEW x \in Ids, r.order_index[x] # Null
        PROVE  /\ r.order[r.order_index[x]].id = x
               /\ r.order[r.order_index[x]].level # Null \/ r.order_index[x] = c
    <3>1. PICK y \in OrderCells : y = mem.order_index[x]
      BY <1>2, <1>4, <2>1, MemoryFields
    <3>2. mem.order[y].id = x /\ (mem.order[y].level # Null \/ y = c)
      BY <1>3, <1>4, <2>1, <3>1 DEF Indexed
    <3>3. CASE y = c
      BY <1>4, <1>5, <3>1, <3>3
    <3>4. CASE y # c
      <4>1. r.order[y] = mem.order[y]
        BY <1>5, <3>4
      <4>2. QED
        BY <1>4, <3>1, <3>2, <3>4, <4>1
    <3>5. QED
      BY <3>3, <3>4
  <2>2. ASSUME NEW x \in OrderCells, r.order[x].level # Null
        PROVE  r.order[x].id \in Ids /\ r.order_index[r.order[x].id] = x
    <3>1. mem.order[x].level # Null /\ r.order[x] = mem.order[x]
      BY <1>7, <2>2
    <3>2. QED
      BY <1>3, <1>4, <3>1 DEF Indexed
  <2>3. QED
    BY <2>1, <2>2 DEF Indexed
<1>12. OrderPoolIs(r, c)
    BY <1>3, <1>4, <1>7 DEF OrderPoolIs
<1>13. NoneIdle(r, lists, spare)
    BY <1>3, <1>4 DEF NoneIdle, Unindexed
<1>14. Sound(r, lists, c, spare)
    BY <1>8, <1>9, <1>10, <1>11, <1>12, <1>13 DEF Sound
<1>15. OrdersShown(r, b, c)
  <2>1. ASSUME NEW x \in Ids, mem.order_index[x] # Null, mem.order_index[x] # c
        PROVE  r.order[mem.order_index[x]] = mem.order[mem.order_index[x]]
    <3>1. mem.order_index[x] \in OrderCells
      BY <1>2, <2>1, MemoryFields
    <3>2. QED
      BY <1>5, <2>1, <3>1
  <2>2. QED
    BY <1>1, <1>4, <2>1 DEF OrdersShown
<1>16. QueuesShown(r, lists, b)
  <2>1. ASSUME NEW k \in LevelKeys, mem.level_index[k] # Null
        PROVE  IdsOf(r, lists[mem.level_index[k]]) = IdsOf(mem, lists[mem.level_index[k]])
    <3>1. PICK l \in LevelCells : l = mem.level_index[k]
      BY <1>2, <2>1, MemoryFields
    <3>2. ASSUME NEW i \in 1 .. Len(lists[l])
          PROVE  r.order[lists[l][i]].id = mem.order[lists[l][i]].id
      <4>1. lists[l][i] \in OrderCells /\ mem.order[lists[l][i]].level = l
        BY <1>1, <1>2, ListedOrder
      <4>2. l # Null
        BY NullIsNoCell
      <4>3. r.order[lists[l][i]] = mem.order[lists[l][i]]
        BY <1>7, <4>1, <4>2
      <4>4. QED
        BY <4>3
    <3>3. IdsOf(r, lists[l]) = IdsOf(mem, lists[l])
      BY <3>2 DEF IdsOf
    <3>4. QED
      BY <3>1, <3>3
  <2>2. QED
    BY <1>1, <1>4, <2>1 DEF QueuesShown
<1>17. QED
    BY <1>2, <1>4, <1>14, <1>15, <1>16 DEF Agrees

(* The ids of a list with one cell more.                                   *)
LEMMA IdsOfAppended ==
    ASSUME NEW mem, NEW r, NEW cs \in Seq(OrderCells), NEW c \in OrderCells,
           NEW id, r.order[c].id = id,
           \A x \in OrderCells : r.order[x].id = mem.order[x].id
    PROVE  IdsOf(r, Append(cs, c)) = Append(IdsOf(mem, cs), id)
<1>1. PICK n \in Nat : n = Len(cs)
    OBVIOUS
<1>2. PICK ds : ds = Append(cs, c)
    OBVIOUS
<1>3. /\ Len(ds) = n + 1 /\ ds[n + 1] = c
      /\ \A i \in 1 .. n : ds[i] = cs[i] /\ cs[i] \in OrderCells
    BY <1>1, <1>2
<1>4. IdsOf(r, ds) = [i \in 1 .. n + 1 |-> IF i = n + 1 THEN id ELSE mem.order[cs[i]].id]
  <2>1. ASSUME NEW i \in 1 .. n + 1
        PROVE  r.order[ds[i]].id = IF i = n + 1 THEN id ELSE mem.order[cs[i]].id
    <3>1. CASE i = n + 1
      BY <1>3, <3>1
    <3>2. CASE i # n + 1
      <4>1. i \in 1 .. n
        BY <3>2
      <4>2. QED
        BY <1>3, <3>2, <4>1
    <3>3. QED
      BY <3>1, <3>2
  <2>2. QED
    BY <1>3, <2>1 DEF IdsOf
<1>5. Append(IdsOf(mem, cs), id) = [i \in 1 .. n + 1 |-> IF i = n + 1 THEN id ELSE mem.order[cs[i]].id]
    BY <1>1 DEF IdsOf
<1>6. QED
    BY <1>2, <1>4, <1>5

-----------------------------------------------------------------------------
(* The cell in hand on a list again.                                       *)

(* The index has no cell but c for order id.                               *)
Unheld(mem, id, c) == mem.order_index[id] = Null \/ mem.order_index[id] = c

(* r is mem with order id, in cell c, behind the others of level l.        *)
Placed(mem, r, l, c, id) == r = [PushBack(mem, l, c) EXCEPT !.order_index[id] = c]

(* What r has of mem then.                                                 *)
PlacedFrom(mem, r, l, c, id) ==
    /\ r \in Memory
    /\ r.order_pool = mem.order_pool /\ r.level_pool = mem.level_pool
    /\ r.level_index = mem.level_index /\ r.best = mem.best
    /\ r.order_index = [mem.order_index EXCEPT ![id] = c]
    /\ \A x \in OrderCells :
          /\ r.order[x].id = mem.order[x].id /\ r.order[x].price = mem.order[x].price
          /\ r.order[x].qty = mem.order[x].qty /\ r.order[x].side = mem.order[x].side
          /\ r.order[x].level = IF x = c THEN l ELSE mem.order[x].level
    /\ \A x \in LevelCells :
          /\ r.level[x].price = mem.level[x].price /\ r.level[x].side = mem.level[x].side
          /\ r.level[x].prev = mem.level[x].prev /\ r.level[x].next = mem.level[x].next

(* The lists once the cell in hand is at the back of level l.              *)
LEMMA PlacedLists ==
    ASSUME NEW mem \in Memory, NEW lists, ListsAre(mem, lists), NEW l \in LevelCells,
           NEW c \in OrderCells, mem.order[c].level = Null, NEW id \in Ids,
           NEW r, Placed(mem, r, l, c, id)
    PROVE  /\ PlacedFrom(mem, r, l, c, id)
           /\ ListsAre(r, [lists EXCEPT ![l] = Append(lists[l], c)])
<1>1. PICK q : q = PushBack(mem, l, c)
    OBVIOUS
<1>2. PICK t : t = mem.level[l].tail
    OBVIOUS
<1>3. /\ q \in Memory
      /\ q.order_pool = mem.order_pool /\ q.level_pool = mem.level_pool
      /\ q.order_index = mem.order_index /\ q.level_index = mem.level_index
      /\ q.best = mem.best
      /\ \A x \in OrderCells :
            /\ q.order[x].id = mem.order[x].id /\ q.order[x].price = mem.order[x].price
            /\ q.order[x].qty = mem.order[x].qty /\ q.order[x].side = mem.order[x].side
            /\ q.order[x].level = IF x = c THEN l ELSE mem.order[x].level
      /\ \A x \in LevelCells :
            /\ q.level[x].price = mem.level[x].price /\ q.level[x].side = mem.level[x].side
            /\ q.level[x].prev = mem.level[x].prev /\ q.level[x].next = mem.level[x].next
    BY <1>1, <1>2, PushBackFields
<1>4. PICK then : then = [lists EXCEPT ![l] = Append(lists[l], c)]
    OBVIOUS
<1>5. ListsAre(q, then)
  <2>1. ListsAre(q, [lists EXCEPT ![l] = Append(lists[l], c)])
    BY <1>1, PushBackLists
  <2>2. QED
    BY <1>4, <2>1
<1>6. PICK I : I = [q.order_index EXCEPT ![id] = c]
    OBVIOUS
<1>7. I \in [Ids -> OrderCells \union {Null}]
    BY <1>3, <1>6, MemoryFields
<1>8. r = [q EXCEPT !.order_index = I]
  <2>1. r = [q EXCEPT !.order_index[id] = c]
    BY <1>1 DEF Placed
  <2>2. QED
    BY <1>6, <2>1
<1>9. /\ r \in Memory
      /\ r.order = q.order /\ r.level = q.level
      /\ r.order_pool = q.order_pool /\ r.level_pool = q.level_pool
      /\ r.level_index = q.level_index /\ r.best = q.best
      /\ r.order_index = I
    BY <1>3, <1>7, <1>8 DEF Memory
<1>10. ListsAre(r, then)
    BY <1>5, <1>9, SameLists
<1>11. r.order_index = [mem.order_index EXCEPT ![id] = c]
    BY <1>3, <1>6, <1>9
<1>12. PlacedFrom(mem, r, l, c, id)
    BY <1>3, <1>9, <1>11 DEF PlacedFrom
<1>13. QED
    BY <1>4, <1>10, <1>12

(* The index and the pool of orders then hold every cell between them.     *)
LEMMA PlacedIndexed ==
    ASSUME NEW mem \in Memory, NEW c, NEW l, Indexed(mem, c), OrderPoolIs(mem, c),
           NEW id \in Ids, NEW s, NEW p, InHand(mem, c, id, s, p), Unheld(mem, id, c),
           l \in LevelCells, NEW r, PlacedFrom(mem, r, l, c, id)
    PROVE  Indexed(r, Null) /\ OrderPoolIs(r, Null)
<1>1. /\ c \in OrderCells /\ mem.order[c].level = Null /\ mem.order[c].id = id
    BY DEF InHand
<1>2. /\ r.order_pool = mem.order_pool
      /\ \A x \in OrderCells :
            /\ r.order[x].id = mem.order[x].id
            /\ r.order[x].level = IF x = c THEN l ELSE mem.order[x].level
    BY DEF PlacedFrom
<1>3. r.order_index[id] = c /\ \A x \in Ids : x # id => r.order_index[x] = mem.order_index[x]
  <2>1. r.order_index = [mem.order_index EXCEPT ![id] = c]
    BY DEF PlacedFrom
  <2>2. mem.order_index \in [Ids -> OrderCells \union {Null}]
    BY MemoryFields
  <2>3. QED
    BY <2>1, <2>2
<1>4. \A x \in OrderCells : x # Null
    BY NullIsNoCell
<1>5. l # Null
    BY NullIsNoCell
<1>6. ASSUME NEW x \in Ids, r.order_index[x] # Null
      PROVE  r.order[r.order_index[x]].id = x /\ r.order[r.order_index[x]].level # Null
  <2>1. CASE x = id
    BY <1>1, <1>2, <1>3, <1>5, <2>1
  <2>2. CASE x # id
    <3>1. PICK y \in OrderCells : y = mem.order_index[x]
      BY <1>3, <1>6, <2>2, MemoryFields
    <3>2. mem.order[y].id = x /\ (mem.order[y].level # Null \/ y = c)
      BY <1>3, <1>6, <2>2, <3>1 DEF Indexed
    <3>3. y # c
      BY <1>1, <2>2, <3>2
    <3>4. r.order_index[x] = y
      BY <1>3, <2>2, <3>1
    <3>5. QED
      BY <1>2, <3>2, <3>3, <3>4
  <2>3. QED
    BY <2>1, <2>2
<1>7. ASSUME NEW x \in OrderCells, r.order[x].level # Null
      PROVE  r.order[x].id \in Ids /\ r.order_index[r.order[x].id] = x
  <2>1. CASE x = c
    BY <1>1, <1>2, <1>3, <2>1
  <2>2. CASE x # c
    <3>1. mem.order[x].level # Null
      BY <1>2, <1>7, <2>2
    <3>2. mem.order[x].id \in Ids /\ mem.order_index[mem.order[x].id] = x
      BY <3>1 DEF Indexed
    <3>3. PICK y \in Ids : y = mem.order[x].id
      BY <3>2
    <3>4. y # id
      <4>1. mem.order_index[y] = x
        BY <3>2, <3>3
      <4>2. QED
        BY <1>4, <2>2, <4>1 DEF Unheld
    <3>5. r.order_index[y] = x
      BY <1>3, <3>2, <3>3, <3>4
    <3>6. QED
      BY <1>2, <3>3, <3>5
  <2>3. QED
    BY <2>1, <2>2
<1>8. Indexed(r, Null)
    BY <1>6, <1>7 DEF Indexed
<1>9. \A x \in OrderCells : r.order[x].level = Null /\ x # Null <=> mem.order[x].level = Null /\ x # c
    BY <1>2, <1>4, <1>5
<1>10. OrderPoolIs(r, Null)
    BY <1>2, <1>9 DEF OrderPoolIs
<1>11. QED
    BY <1>8, <1>10

(* add_order, and modify_order at another price: behind the others.        *)
LEMMA PlaceAgrees ==
    ASSUME NEW mem, NEW b, NEW c, NEW l, Agrees(mem, b, c, l),
           NEW id \in Ids, NEW s \in Side, NEW p \in Prices, InHand(mem, c, id, s, p),
           Unheld(mem, id, c), LevelAt(mem, s, p, l), NEW r, Placed(mem, r, l, c, id)
    PROVE  /\ Agrees(r, AppendOrder(b, id, OrderOf(mem.order[c])), Null, Null)
           /\ LevelAt(r, s, p, l)
<1>1. PICK lists : Sound(mem, lists, c, l) /\ QueuesShown(mem, lists, b)
                   /\ OrdersShown(mem, b, c)
    BY DEF Agrees
<1>2. mem \in Memory /\ b \in Book
    BY DEF Agrees
<1>3. /\ ListsAre(mem, lists) /\ LevelsSound(mem) /\ Filed(mem) /\ Indexed(mem, c)
      /\ OrderPoolIs(mem, c) /\ NoneIdle(mem, lists, l)
    BY <1>1 DEF Sound
<1>4. l \in LevelCells /\ l # Null
    BY <1>2, <1>3, LevelAtFacts
<1>5. /\ c \in OrderCells /\ mem.order[c] \in OrderCell /\ mem.order[c].level = Null
      /\ mem.order[c].id = id /\ mem.order[c].side = s /\ mem.order[c].price = p
    BY DEF InHand
<1>6. PICK then : then = [lists EXCEPT ![l] = Append(lists[l], c)]
    OBVIOUS
<1>7. PlacedFrom(mem, r, l, c, id) /\ ListsAre(r, then)
  <2>1. /\ PlacedFrom(mem, r, l, c, id)
        /\ ListsAre(r, [lists EXCEPT ![l] = Append(lists[l], c)])
    BY <1>2, <1>3, <1>4, <1>5, PlacedLists
  <2>2. QED
    BY <1>6, <2>1
<1>8. /\ r \in Memory
      /\ r.order_pool = mem.order_pool /\ r.level_pool = mem.level_pool
      /\ r.level_index = mem.level_index /\ r.best = mem.best
      /\ \A x \in OrderCells :
            /\ r.order[x].id = mem.order[x].id /\ r.order[x].price = mem.order[x].price
            /\ r.order[x].qty = mem.order[x].qty /\ r.order[x].side = mem.order[x].side
            /\ r.order[x].level = IF x = c THEN l ELSE mem.order[x].level
      /\ \A x \in LevelCells :
            /\ r.level[x].price = mem.level[x].price /\ r.level[x].side = mem.level[x].side
            /\ r.level[x].prev = mem.level[x].prev /\ r.level[x].next = mem.level[x].next
    BY <1>7 DEF PlacedFrom
<1>9. LevelsSound(r)
    BY <1>3, <1>8, SameLevels
<1>10. Filed(r)
  <2>1. ASSUME NEW x \in OrderCells, r.order[x].level # Null
        PROVE  /\ r.order[x].price \in Prices
               /\ r.level_index[<<r.order[x].side, r.order[x].price>>] = r.order[x].level
    <3>1. CASE x = c
      <4>1. r.order[x].side = s /\ r.order[x].price = p /\ r.order[x].level = l
        BY <1>5, <1>8, <3>1
      <4>2. r.level_index[<<s, p>>] = l
        BY <1>8 DEF LevelAt
      <4>3. QED
        BY <4>1, <4>2
    <3>2. CASE x # c
      BY <1>3, <1>8, <2>1, <3>2 DEF Filed
    <3>3. QED
      BY <3>1, <3>2
  <2>2. QED
    BY <2>1 DEF Filed
<1>11. Indexed(r, Null) /\ OrderPoolIs(r, Null)
    BY <1>2, <1>3, <1>4, <1>7, PlacedIndexed
<1>12. lists \in [LevelCells -> Seq(OrderCells)]
    BY <1>3 DEF ListsAre
<1>13. NoneIdle(r, then, Null)
  <2>1. then[l] = Append(lists[l], c) /\ \A x \in LevelCells : x # l => then[x] = lists[x]
    BY <1>4, <1>6, <1>12
  <2>2. then[l] # <<>>
    <3>1. PICK cs \in Seq(OrderCells) : cs = lists[l]
      BY <1>4, <1>12
    <3>2. Append(cs, c) # <<>>
      BY <1>5, <3>1
    <3>3. QED
      BY <2>1, <3>1, <3>2
  <2>3. ASSUME NEW x \in LevelCells, then[x] = <<>> PROVE Unindexed(r, x)
    <3>1. x # l /\ lists[x] = <<>>
      BY <2>1, <2>2, <2>3
    <3>2. Unindexed(mem, x)
      BY <1>3, <3>1 DEF NoneIdle
    <3>3. QED
      BY <1>8, <3>2 DEF Unindexed
  <2>4. QED
    BY <2>3 DEF NoneIdle
<1>14. Sound(r, then, Null, Null)
    BY <1>7, <1>9, <1>10, <1>11, <1>13 DEF Sound
<1>15. PICK o : o = OrderOf(mem.order[c])
    OBVIOUS
<1>16. o \in Order /\ LevelOf(o) = <<s, p>>
  <2>1. mem.order[c].qty \in Int
    BY <1>5 DEF OrderCell
  <2>2. QED
    BY <1>5, <1>15, <2>1 DEF OrderOf, Order, LevelOf
<1>17. PICK app : app = AppendOrder(b, id, o)
    OBVIOUS
<1>18. /\ app \in Book
       /\ app.orders[id] = o
       /\ \A x \in Ids : x # id => app.orders[x] = b.orders[x]
       /\ app.queue[<<s, p>>] = Append(b.queue[<<s, p>>], id)
       /\ \A k \in LevelKeys : k # <<s, p>> => app.queue[k] = b.queue[k]
  <2>1. /\ app \in Book
        /\ app.orders[id] = o
        /\ \A x \in Ids : x # id => app.orders[x] = b.orders[x]
        /\ app.queue[LevelOf(o)] = Append(b.queue[LevelOf(o)], id)
        /\ \A k \in LevelKeys : k # LevelOf(o) => app.queue[k] = b.queue[k]
    <3>1. b \in Book
      BY <1>2
    <3>2. o \in Order
      BY <1>16
    <3>3. QED
      BY ONLY id \in Ids, <1>17, <3>1, <3>2, AppendOrderFacts, SMTT(60)
  <2>2. LevelOf(o) = <<s, p>>
    BY <1>16
  <2>3. QED
    BY <2>1, <2>2
<1>19. OrdersShown(r, app, Null)
  <2>1. r.order_index[id] = c /\ \A x \in Ids : x # id => r.order_index[x] = mem.order_index[x]
    <3>1. r.order_index = [mem.order_index EXCEPT ![id] = c]
      BY <1>7 DEF PlacedFrom
    <3>2. mem.order_index \in [Ids -> OrderCells \union {Null}]
      BY <1>2, MemoryFields
    <3>3. QED
      BY <3>1, <3>2
  <2>2. ASSUME NEW x \in OrderCells PROVE OrderOf(r.order[x]) = OrderOf(mem.order[x])
    BY <1>8 DEF OrderOf
  <2>3. ASSUME NEW x \in Ids
        PROVE  IF r.order_index[x] = Null THEN app.orders[x] = NoOrder
               ELSE app.orders[x] = OrderOf(r.order[r.order_index[x]])
    <3>1. CASE x = id
      <4>1. r.order_index[x] = c /\ c # Null
        BY <1>5, <2>1, <3>1, NullIsNoCell
      <4>2. OrderOf(r.order[c]) = o
        BY <1>5, <1>15, <2>2
      <4>3. QED
        BY <1>18, <3>1, <4>1, <4>2
    <3>2. CASE x # id
      <4>1. PICK y \in OrderCells \union {Null} : y = mem.order_index[x]
        BY <1>2, MemoryFields
      <4>2. r.order_index[x] = y /\ app.orders[x] = b.orders[x]
        BY <1>18, <2>1, <3>2, <4>1
      <4>3. CASE y = Null
        BY <1>1, <4>1, <4>2, <4>3 DEF OrdersShown
      <4>4. CASE y # Null
        <5>1. y # c
          <6>1. mem.order[y].id = x
            BY <1>3, <4>1, <4>4 DEF Indexed
          <6>2. QED
            BY <1>5, <3>2, <6>1
        <5>2. b.orders[x] = OrderOf(mem.order[y])
          BY <1>1, <4>1, <4>4, <5>1 DEF OrdersShown
        <5>3. QED
          BY <2>2, <4>2, <4>4, <5>2
      <4>5. QED
        BY <4>3, <4>4
    <3>3. QED
      BY <3>1, <3>2
  <2>4. QED
    BY <2>3 DEF OrdersShown
<1>20. QueuesShown(r, then, app)
  <2>1. PICK cs \in Seq(OrderCells) : cs = lists[l]
    BY <1>4, <1>12
  <2>2. b.queue[<<s, p>>] = IdsOf(mem, cs)
    <3>1. <<s, p>> \in LevelKeys /\ mem.level_index[<<s, p>>] = l
      BY DEF LevelKeys, LevelAt
    <3>2. QED
      BY <1>1, <1>4, <2>1, <3>1 DEF QueuesShown
  <2>3. IdsOf(r, Append(cs, c)) = Append(IdsOf(mem, cs), id)
    <3>1. c \in OrderCells /\ r.order[c].id = id
      BY <1>5, <1>8
    <3>2. \A x \in OrderCells : r.order[x].id = mem.order[x].id
      BY <1>8
    <3>3. QED
      BY <3>1, <3>2, IdsOfAppended
  <2>4. app.queue[<<s, p>>] = IdsOf(r, Append(cs, c))
    BY <1>18, <2>2, <2>3
  <2>5. QueuesShown(r, [lists EXCEPT ![l] = Append(cs, c)], app)
    <3>1. PICK k : k = <<s, p>>
      OBVIOUS
    <3>2. l \in LevelCells /\ l # Null /\ mem.level_index[k] = l
      BY <1>4, <3>1 DEF LevelAt
    <3>3. ListsAre(mem, lists) /\ LevelsSound(mem)
      BY <1>3
    <3>4. r.level_index = mem.level_index /\ \A x \in OrderCells : r.order[x].id = mem.order[x].id
      BY <1>8
    <3>7. PICK ds : ds = Append(cs, c)
      OBVIOUS
    <3>5. /\ app.queue[k] = IdsOf(r, ds)
          /\ \A h \in LevelKeys : h # k => app.queue[h] = b.queue[h]
      BY <1>18, <2>4, <3>1, <3>7
    <3>6. QueuesShown(r, [lists EXCEPT ![l] = ds], app)
      BY <1>1, <1>2, <3>1, <3>2, <3>3, <3>4, <3>5, QueueChanged
    <3>8. QED
      BY <3>7, <3>6
  <2>6. QED
    BY <1>6, <2>1, <2>5
<1>21. Agrees(r, app, Null, Null)
    BY <1>8, <1>14, <1>18, <1>19, <1>20 DEF Agrees
<1>22. LevelAt(r, s, p, l)
    BY <1>8 DEF LevelAt
<1>23. QED
    BY <1>15, <1>17, <1>21, <1>22

-----------------------------------------------------------------------------

(* Another quantity for an order.                                          *)
LEMMA ResizedIs ==
    ASSUME NEW b \in Book, NEW id \in Resting(b), NEW qty \in Int,
           NEW o, o = b.orders[id], NEW re, re = Resized(b, id, qty)
    PROVE  /\ re \in Book /\ re.queue = b.queue
           /\ re.orders[id] = [side |-> o.side, price |-> o.price, qty |-> qty]
           /\ \A x \in Ids : x # id => re.orders[x] = b.orders[x]
<1>1. id \in Ids /\ o \in Order
    BY RestingTyped
<1>2. PICK w : w = [side |-> o.side, price |-> o.price, qty |-> qty]
    OBVIOUS
<1>3. w \in Order /\ [o EXCEPT !.qty = qty] = w
    BY <1>1, <1>2 DEF Order
<1>4. re = [b EXCEPT !.orders = [b.orders EXCEPT ![id] = w]]
  <2>1. re = [b EXCEPT !.orders[id].qty = qty]
    BY DEF Resized
  <2>2. re = [b EXCEPT !.orders = [b.orders EXCEPT ![id] = [b.orders[id] EXCEPT !.qty = qty]]]
    BY <2>1
  <2>3. QED
    BY <1>3, <2>2
<1>5. PICK O : O = [b.orders EXCEPT ![id] = w]
    OBVIOUS
<1>6. /\ O \in [Ids -> Order \union {NoOrder}] /\ O[id] = w
      /\ \A x \in Ids : x # id => O[x] = b.orders[x]
    BY <1>1, <1>3, <1>5 DEF Book
<1>7. re \in Book /\ re.queue = b.queue /\ re.orders = O
    BY <1>4, <1>5, <1>6 DEF Book
<1>8. QED
    BY <1>2, <1>6, <1>7

(* set_qty is Resized.                                                     *)
LEMMA SetQtyAgrees ==
    ASSUME NEW mem, NEW b, Agrees(mem, b, Null, Null), NEW id \in Ids, NEW c, NEW l,
           Found(mem, id, c, l), NEW qty \in Int, NEW r, r = SetQty(mem, c, qty)
    PROVE  Agrees(r, Resized(b, id, qty), Null, Null)
<1>1. PICK lists : Sound(mem, lists, Null, Null) /\ QueuesShown(mem, lists, b)
                   /\ OrdersShown(mem, b, Null)
    BY DEF Agrees
<1>2. mem \in Memory /\ b \in Book
    BY DEF Agrees
<1>3. /\ ListsAre(mem, lists) /\ LevelsSound(mem) /\ Filed(mem) /\ Indexed(mem, Null)
      /\ OrderPoolIs(mem, Null) /\ NoneIdle(mem, lists, Null)
    BY <1>1 DEF Sound
<1>4. OrderAt(mem, id, c, l) /\ Listed(lists, l, c)
    BY <1>1, <1>2, OrderPlace
<1>5. /\ c \in OrderCells /\ l \in LevelCells /\ l = mem.order[c].level
    BY <1>4 DEF OrderAt
<1>6. PICK j \in 1 .. Len(lists[l]) : lists[l][j] = c
    BY <1>4 DEF Listed
<1>7. ListsAre(r, lists)
    BY <1>2, <1>3, <1>5, <1>6, SetQtyLists
<1>8. QtySet(mem, r, c, l, qty)
    BY <1>2, <1>5, SetQtyFields
<1>9. /\ r \in Memory
      /\ r.order_pool = mem.order_pool /\ r.level_pool = mem.level_pool
      /\ r.order_index = mem.order_index /\ r.level_index = mem.level_index
      /\ r.best = mem.best
      /\ \A x \in OrderCells :
            /\ r.order[x].id = mem.order[x].id /\ r.order[x].price = mem.order[x].price
            /\ r.order[x].side = mem.order[x].side /\ r.order[x].level = mem.order[x].level
            /\ r.order[x].qty = IF x = c THEN qty ELSE mem.order[x].qty
      /\ \A x \in LevelCells :
            /\ r.level[x].price = mem.level[x].price /\ r.level[x].side = mem.level[x].side
            /\ r.level[x].prev = mem.level[x].prev /\ r.level[x].next = mem.level[x].next
    BY <1>8 DEF QtySet
<1>10. LevelsSound(r)
    BY <1>3, <1>9, SameLevels
<1>11. Filed(r)
    BY <1>3, <1>9 DEF Filed
<1>12. Indexed(r, Null)
  <2>1. ASSUME NEW x \in Ids, r.order_index[x] # Null
        PROVE  r.order[r.order_index[x]].id = x /\ r.order[r.order_index[x]].level # Null
    <3>1. PICK y \in OrderCells : y = mem.order_index[x]
      BY <1>2, <1>9, <2>1, MemoryFields
    <3>2. mem.order[y].id = x /\ mem.order[y].level # Null
      BY <1>3, <1>9, <2>1, <3>1 DEF Indexed
    <3>3. QED
      BY <1>9, <3>1, <3>2
  <2>2. \A x \in OrderCells : r.order[x].level # Null =>
            r.order[x].id \in Ids /\ r.order_index[r.order[x].id] = x
    BY <1>3, <1>9 DEF Indexed
  <2>3. QED
    BY <2>1, <2>2 DEF Indexed
<1>13. OrderPoolIs(r, Null)
    BY <1>3, <1>9 DEF OrderPoolIs
<1>14. NoneIdle(r, lists, Null)
    BY <1>3, <1>9 DEF NoneIdle, Unindexed
<1>15. Sound(r, lists, Null, Null)
    BY <1>7, <1>10, <1>11, <1>12, <1>13, <1>14 DEF Sound
<1>16. PICK re : re = Resized(b, id, qty)
    OBVIOUS
<1>17. b.orders[id] = OrderOf(mem.order[c]) /\ id \in Resting(b)
    BY AgreesOrder
<1>18. /\ re \in Book /\ re.queue = b.queue
       /\ re.orders[id] = [side |-> mem.order[c].side, price |-> mem.order[c].price, qty |-> qty]
       /\ \A x \in Ids : x # id => re.orders[x] = b.orders[x]
  <2>1. PICK o : o = OrderOf(mem.order[c])
    OBVIOUS
  <2>2. o.side = mem.order[c].side /\ o.price = mem.order[c].price
    BY <2>1 DEF OrderOf
  <2>3. o = b.orders[id]
    BY <1>17, <2>1
  <2>4. /\ re \in Book /\ re.queue = b.queue
        /\ re.orders[id] = [side |-> o.side, price |-> o.price, qty |-> qty]
        /\ \A x \in Ids : x # id => re.orders[x] = b.orders[x]
    BY <1>2, <1>16, <1>17, <2>3, ResizedIs
  <2>5. QED
    BY <2>2, <2>4
<1>19. OrdersShown(r, re, Null)
  <2>1. ASSUME NEW x \in Ids
        PROVE  IF r.order_index[x] = Null THEN re.orders[x] = NoOrder
               ELSE re.orders[x] = OrderOf(r.order[r.order_index[x]])
    <3>1. PICK y \in OrderCells \union {Null} : y = mem.order_index[x]
      BY <1>2, MemoryFields
    <3>2. r.order_index[x] = y
      BY <1>9, <3>1
    <3>3. CASE x = id
      <4>1. y = c /\ c # Null
        BY <3>1, <3>3 DEF Found
      <4>2. OrderOf(r.order[c]) = [side |-> mem.order[c].side, price |-> mem.order[c].price, qty |-> qty]
        BY <1>5, <1>9 DEF OrderOf
      <4>3. QED
        BY <1>18, <3>2, <3>3, <4>1, <4>2
    <3>4. CASE x # id /\ y = Null
      <4>1. b.orders[x] = NoOrder
        BY <1>1, <3>1, <3>4 DEF OrdersShown
      <4>2. QED
        BY <1>18, <3>2, <3>4, <4>1
    <3>5. CASE x # id /\ y # Null
      <4>1. b.orders[x] = OrderOf(mem.order[y])
        BY <1>1, <3>1, <3>5 DEF OrdersShown
      <4>2. y # c
        <5>1. mem.order[y].id = x
          BY <1>3, <3>1, <3>5 DEF Indexed
        <5>2. mem.order[c].id = id
          BY <1>4 DEF OrderAt
        <5>3. QED
          BY <3>5, <5>1, <5>2
      <4>3. OrderOf(r.order[y]) = OrderOf(mem.order[y])
        BY <1>9, <3>5, <4>2 DEF OrderOf
      <4>4. QED
        BY <1>18, <3>2, <3>5, <4>1, <4>3
    <3>6. QED
      BY <3>3, <3>4, <3>5
  <2>2. QED
    BY <2>1 DEF OrdersShown
<1>20. QueuesShown(r, lists, re)
  <2>1. ASSUME NEW k \in LevelKeys, mem.level_index[k] # Null
        PROVE  IdsOf(r, lists[mem.level_index[k]]) = IdsOf(mem, lists[mem.level_index[k]])
    <3>1. PICK x \in LevelCells : x = mem.level_index[k]
      BY <1>2, <2>1, MemoryFields
    <3>2. lists[x] \in Seq(OrderCells)
      BY <1>3 DEF ListsAre
    <3>3. \A y \in OrderCells : r.order[y].id = mem.order[y].id
      BY <1>9
    <3>4. IdsOf(r, lists[x]) = IdsOf(mem, lists[x])
      BY <3>2, <3>3, IdsOfSame
    <3>5. QED
      BY <3>1, <3>4
  <2>2. r.level_index = mem.level_index
    BY <1>9
  <2>3. QED
    BY <1>1, <1>18, <2>1, <2>2 DEF QueuesShown
<1>21. Agrees(r, re, Null, Null)
    BY <1>9, <1>15, <1>18, <1>19, <1>20 DEF Agrees
<1>22. QED
    BY <1>16, <1>21

-----------------------------------------------------------------------------

(* The order in hand out of the index: r is mem without id in it.          *)
Unnamed(mem, r, id) == r = [mem EXCEPT !.order_index[id] = Null]

(* Cell c is in the index under no id.                                     *)
NotInIndex(mem, c) == \A x \in Ids : mem.order_index[x] # c

(* An order in hand leaves the index, and the book.                        *)
LEMMA UnnamedAgrees ==
    ASSUME NEW mem, NEW b, NEW c, NEW spare, Agrees(mem, b, c, spare),
           NEW id \in Ids, NEW s, NEW p, InHand(mem, c, id, s, p), Unheld(mem, id, c),
           NEW r, Unnamed(mem, r, id)
    PROVE  /\ Agrees(r, [b EXCEPT !.orders[id] = NoOrder], c, spare)
           /\ NotInIndex(r, c)
           /\ r.order = mem.order /\ r.level = mem.level /\ r.level_index = mem.level_index
           /\ r.order_pool = mem.order_pool
<1>1. PICK lists : Sound(mem, lists, c, spare) /\ QueuesShown(mem, lists, b)
                   /\ OrdersShown(mem, b, c)
    BY DEF Agrees
<1>2. mem \in Memory /\ b \in Book
    BY DEF Agrees
<1>3. /\ ListsAre(mem, lists) /\ LevelsSound(mem) /\ Filed(mem) /\ Indexed(mem, c)
      /\ OrderPoolIs(mem, c) /\ NoneIdle(mem, lists, spare)
    BY <1>1 DEF Sound
<1>4. /\ c \in OrderCells /\ c # Null /\ mem.order[c].level = Null /\ mem.order[c].id = id
    BY NullIsNoCell DEF InHand
<1>5. PICK I : I = [mem.order_index EXCEPT ![id] = Null]
    OBVIOUS
<1>6. /\ I \in [Ids -> OrderCells \union {Null}] /\ I[id] = Null
      /\ \A x \in Ids : x # id => I[x] = mem.order_index[x]
    BY <1>2, <1>5, MemoryFields
<1>7. r = [mem EXCEPT !.order_index = I]
    BY <1>5 DEF Unnamed
<1>8. /\ r \in Memory
      /\ r.order = mem.order /\ r.level = mem.level /\ r.best = mem.best
      /\ r.order_pool = mem.order_pool /\ r.level_pool = mem.level_pool
      /\ r.level_index = mem.level_index /\ r.order_index = I
    BY <1>2, <1>6, <1>7 DEF Memory
<1>9. ListsAre(r, lists)
    BY <1>3, <1>8, SameLists
<1>10. LevelsSound(r)
    BY <1>3, <1>8, SameLevels
<1>11. /\ Filed(r) /\ OrderPoolIs(r, c) /\ NoneIdle(r, lists, spare)
    BY <1>3, <1>8 DEF Filed, OrderPoolIs, NoneIdle, Unindexed
<1>12. Indexed(r, c)
  <2>1. ASSUME NEW x \in Ids, I[x] # Null
        PROVE  mem.order[I[x]].id = x /\ (mem.order[I[x]].level # Null \/ I[x] = c)
    <3>1. x # id /\ I[x] = mem.order_index[x]
      BY <1>6, <2>1
    <3>2. QED
      BY <1>3, <2>1, <3>1 DEF Indexed
  <2>2. ASSUME NEW x \in OrderCells, mem.order[x].level # Null
        PROVE  mem.order[x].id \in Ids /\ I[mem.order[x].id] = x
    <3>1. mem.order[x].id \in Ids /\ mem.order_index[mem.order[x].id] = x
      BY <1>3, <2>2 DEF Indexed
    <3>2. PICK y \in Ids : y = mem.order[x].id
      BY <3>1
    <3>3. y # id
      <4>1. mem.order_index[y] = x
        BY <3>1, <3>2
      <4>2. x # Null /\ x # c
        BY <1>4, <2>2, NullIsNoCell
      <4>3. QED
        BY <4>1, <4>2 DEF Unheld
    <3>4. QED
      BY <1>6, <3>1, <3>2, <3>3
  <2>3. QED
    BY <1>8, <2>1, <2>2 DEF Indexed
<1>13. Sound(r, lists, c, spare)
    BY <1>9, <1>10, <1>11, <1>12 DEF Sound
<1>14. PICK d : d = [b EXCEPT !.orders[id] = NoOrder]
    OBVIOUS
<1>15. /\ d \in Book /\ d.queue = b.queue /\ d.orders[id] = NoOrder
       /\ \A x \in Ids : x # id => d.orders[x] = b.orders[x]
    BY <1>2, <1>14 DEF Book
<1>16. OrdersShown(r, d, c)
  <2>1. ASSUME NEW x \in Ids
        PROVE  IF I[x] = Null THEN d.orders[x] = NoOrder
               ELSE I[x] = c \/ d.orders[x] = OrderOf(mem.order[I[x]])
    <3>1. CASE x = id
      BY <1>6, <1>15, <3>1
    <3>2. CASE x # id
      <4>1. I[x] = mem.order_index[x] /\ d.orders[x] = b.orders[x]
        BY <1>6, <1>15, <3>2
      <4>2. QED
        BY <1>1, <4>1 DEF OrdersShown
    <3>3. QED
      BY <3>1, <3>2
  <2>2. QED
    BY <1>8, <2>1 DEF OrdersShown
<1>17. QueuesShown(r, lists, d)
    BY <1>1, <1>8, <1>15 DEF QueuesShown, IdsOf
<1>18. Agrees(r, d, c, spare)
    BY <1>8, <1>13, <1>15, <1>16, <1>17 DEF Agrees
<1>19. NotInIndex(r, c)
  <2>1. ASSUME NEW x \in Ids, I[x] = c PROVE FALSE
    <3>1. x # id /\ mem.order_index[x] = c
      BY <1>4, <1>6, <2>1
    <3>2. mem.order[c].id = x
      BY <1>3, <1>4, <3>1 DEF Indexed
    <3>3. QED
      BY <1>4, <3>1, <3>2
  <2>2. QED
    BY <1>8, <2>1 DEF NotInIndex
<1>20. QED
    BY <1>8, <1>14, <1>18, <1>19

-----------------------------------------------------------------------------

(* The pool of orders, as acquire and release leave it.                    *)
LEMMA ReleaseRepools ==
    ASSUME NEW mem \in Memory, NEW c \in OrderCells, NEW r, r = ReleaseOrder(mem, c)
    PROVE  Repooled(mem, r, Cons(c, mem.order_pool))
<1>1. PICK Q : Q = Cons(c, mem.order_pool)
    OBVIOUS
<1>2. Q \in Seq(OrderCells)
    BY <1>1, MemoryFields, ConsFacts
<1>3. r = [mem EXCEPT !.order_pool = Q]
    BY <1>1 DEF ReleaseOrder
<1>4. Repooled(mem, r, Q)
    BY <1>2, <1>3 DEF Repooled, Memory
<1>5. QED
    BY <1>1, <1>4

(* Acquiring a cell of an order changes the pool alone.                    *)
LEMMA TakeRepools ==
    ASSUME NEW mem \in Memory, mem.order_pool # <<>>,
           NEW r, r = [mem EXCEPT !.order_pool = Tail(mem.order_pool)]
    PROVE  Repooled(mem, r, Tail(mem.order_pool))
<1>1. PICK Q : Q = Tail(mem.order_pool)
    OBVIOUS
<1>2. Q \in Seq(OrderCells)
    BY <1>1, MemoryFields, HeadTailProperties
<1>3. r = [mem EXCEPT !.order_pool = Q]
    BY <1>1
<1>4. Repooled(mem, r, Q)
    BY <1>2, <1>3 DEF Repooled, Memory
<1>5. QED
    BY <1>1, <1>4

(* The fields of a blank order.                                            *)
LEMMA BlankOrderFields ==
    /\ BlankOrder \in OrderCell /\ BlankOrder.level = Null
    /\ BlankOrder.prev = Null /\ BlankOrder.next = Null
BY DEF BlankOrder, OrderCell, Side, Null

(* The memory with another order in cell c.                                *)
Rewritten(mem, r, c, o) ==
    /\ r \in Memory
    /\ r.order = [mem.order EXCEPT ![c] = o] /\ r.level = mem.level
    /\ r.order_pool = mem.order_pool /\ r.level_pool = mem.level_pool
    /\ r.order_index = mem.order_index /\ r.level_index = mem.level_index
    /\ r.best = mem.best

(* The fields of that memory.                                              *)
LEMMA RewrittenIs ==
    ASSUME NEW mem \in Memory, NEW c \in OrderCells, NEW o \in OrderCell,
           NEW r, r = [mem EXCEPT !.order[c] = o]
    PROVE  Rewritten(mem, r, c, o)
<1>1. PICK O : O = [mem.order EXCEPT ![c] = o]
    OBVIOUS
<1>2. O \in [OrderCells -> OrderCell]
    BY <1>1, MemoryFields
<1>3. r = [mem EXCEPT !.order = O]
    BY <1>1
<1>4. QED
    BY <1>1, <1>2, <1>3 DEF Memory, Rewritten

(* A cell in hand that no id has goes back to the pool, blank or not.      *)
LEMMA WrittenAndReleased ==
    ASSUME NEW mem, NEW b, NEW c \in OrderCells, Agrees(mem, b, c, Null),
           mem.order[c].level = Null, NotInIndex(mem, c),
           NEW o \in OrderCell, o.level = Null, o.prev = Null, o.next = Null,
           NEW r, r = ReleaseOrder([mem EXCEPT !.order[c] = o], c)
    PROVE  Agrees(r, b, Null, Null)
<1>1. PICK w : w = [mem EXCEPT !.order[c] = o]
    OBVIOUS
<1>2. mem \in Memory
    BY DEF Agrees
<1>3. /\ w \in Memory
      /\ w.order = [mem.order EXCEPT ![c] = o] /\ w.level = mem.level
      /\ w.order_pool = mem.order_pool /\ w.level_pool = mem.level_pool
      /\ w.order_index = mem.order_index /\ w.level_index = mem.level_index
      /\ w.best = mem.best
  <2>1. Rewritten(mem, w, c, o)
    BY <1>1, <1>2, RewrittenIs
  <2>2. QED
    BY <2>1 DEF Rewritten
<1>4. HandWritten(mem, w, c, o)
    BY <1>3 DEF HandWritten, NotInIndex
<1>5. Agrees(w, b, c, Null)
    BY <1>4, WriteHandAgrees
<1>6. w.order[c].level = Null
    BY <1>2, <1>3, MemoryFields
<1>7. \A x \in Ids : w.order_index[x] # c
    BY <1>3 DEF NotInIndex
<1>8. r = ReleaseOrder(w, c)
    BY <1>1
<1>9. Repooled(w, r, Cons(c, w.order_pool))
    BY <1>3, <1>8, ReleaseRepools
<1>10. QED
    BY <1>5, <1>6, <1>7, <1>9, ReleasedAgrees

(* cancel_order, and execute_order of all that is left.                    *)
LEMMA DroppedAgrees ==
    ASSUME NEW mem, NEW b, Agrees(mem, b, Null, Null), NEW id \in Ids, NEW c, NEW l,
           Found(mem, id, c, l), NEW r, r = DropOrder(mem, id)
    PROVE  Agrees(r, Dropped(b, id), Null, Null)
<1>1. OrderAt(mem, id, c, l)
    BY AgreesOrder
<1>2. c \in OrderCells /\ l \in LevelCells /\ l # Null
    BY <1>1 DEF OrderAt
<1>3. PICK s \in Side, p \in Prices : s = mem.order[c].side /\ p = mem.order[c].price
    BY <1>1 DEF OrderAt
<1>4. LevelAt(mem, s, p, l)
    BY <1>1, <1>3 DEF OrderAt, LevelAt
<1>5. PICK u : u = Unlink(mem, l, c)
    OBVIOUS
<1>6. PICK e : e = OffLevel(b, id)
    OBVIOUS
<1>7. Agrees(u, e, c, l) /\ OffItsList(mem, u, id, c)
    BY <1>5, <1>6, UnlinkAgrees
<1>8. /\ InHand(u, c, id, s, p)
      /\ u.order_index = mem.order_index /\ u.level_index = mem.level_index
    BY <1>3, <1>7 DEF OffItsList
<1>9. Unheld(u, id, c) /\ LevelAt(u, s, p, l)
    BY <1>4, <1>8 DEF Unheld, LevelAt, Found
<1>10. PICK off : off = [u EXCEPT !.order_index[id] = Null]
    OBVIOUS
<1>11. PICK d : d = [e EXCEPT !.orders[id] = NoOrder]
    OBVIOUS
<1>12. /\ Agrees(off, d, c, l) /\ NotInIndex(off, c)
       /\ off.order = u.order /\ off.level_index = u.level_index
  <2>1. Unnamed(u, off, id)
    BY <1>10 DEF Unnamed
  <2>2. /\ Agrees(off, [e EXCEPT !.orders[id] = NoOrder], c, l) /\ NotInIndex(off, c)
        /\ off.order = u.order /\ off.level_index = u.level_index
    BY <1>7, <1>8, <1>9, <2>1, UnnamedAgrees
  <2>3. QED
    BY <1>11, <2>2
<1>13. LevelAt(off, s, p, l)
    BY <1>9, <1>12 DEF LevelAt
<1>14. PICK t : t = RemoveIfEmpty(off, l)
    OBVIOUS
<1>15. Agrees(t, d, c, Null) /\ Tidied(off, t, s, p, l)
    BY <1>12, <1>13, <1>14, RemoveIfEmptyAgrees
<1>16. t.order[c].level = Null
  <2>1. off.order[c].level = Null
    BY <1>8, <1>12 DEF InHand
  <2>2. QED
    BY <1>15, <2>1 DEF Tidied
<1>17. NotInIndex(t, c)
    BY <1>12, <1>15 DEF NotInIndex, Tidied
<1>18. r = ReleaseOrder([t EXCEPT !.order[c] = BlankOrder], c)
  <2>1. c = mem.order_index[id] /\ l = mem.order[c].level
    BY DEF Found
  <2>2. QED
    BY <1>5, <1>10, <1>14, <2>1, Zenon DEF DropOrder
<1>19. Agrees(r, d, Null, Null)
    BY <1>2, <1>15, <1>16, <1>17, <1>18, BlankOrderFields, WrittenAndReleased
<1>20. d = Dropped(b, id)
    BY <1>6, <1>11 DEF Dropped
<1>21. QED
    BY <1>19, <1>20

-----------------------------------------------------------------------------
(* What the book has room for is what the pools have left.                 *)

(* The levels of the book fit the pool.                                    *)
FitsLevels(b) == IsFiniteSet(Levels(b)) /\ Cardinality(Levels(b)) <= MaxPriceLevels

(* There is room at a level of the book exactly when the index or the pool *)
(* of the memory has a level for it.                                       *)
LEMMA RoomIs ==
    ASSUME NEW mem, NEW b, NEW hand, Agrees(mem, b, hand, Null), NEW s \in Side, NEW p \in Prices
    PROVE  /\ FitsLevels(b)
           /\ RoomAtLevel(b, <<s, p>>) <=>
                 mem.level_index[<<s, p>>] # Null \/ mem.level_pool # <<>>
<1>1. PICK lists : Sound(mem, lists, hand, Null) /\ QueuesShown(mem, lists, b)
    BY DEF Agrees
<1>2. mem \in Memory /\ b \in Book
    BY DEF Agrees
<1>3. ListsAre(mem, lists) /\ LevelsSound(mem) /\ NoneIdle(mem, lists, Null)
    BY <1>1 DEF Sound
<1>4. mem.level_index \in [LevelKeys -> LevelCells \union {Null}]
    BY <1>2, MemoryFields
<1>5. ASSUME NEW k \in LevelKeys PROVE b.queue[k] # <<>> <=> mem.level_index[k] # Null
  <2>1. PICK l \in LevelCells \union {Null} : l = mem.level_index[k]
    BY <1>4
  <2>2. CASE l = Null
    BY <1>1, <2>1, <2>2 DEF QueuesShown
  <2>3. CASE l # Null
    <3>1. lists[l] # <<>>
      BY <1>3, <2>1, <2>3 DEF NoneIdle, Unindexed
    <3>2. lists[l] \in Seq(OrderCells)
      BY <1>3, <2>3 DEF ListsAre
    <3>3. Len(IdsOf(mem, lists[l])) = Len(lists[l]) /\ Len(lists[l]) # 0
      BY <3>1, <3>2, EmptySeq DEF IdsOf
    <3>4. b.queue[k] = IdsOf(mem, lists[l])
      BY <1>1, <2>1, <2>3 DEF QueuesShown
    <3>5. QED
      BY <2>1, <2>3, <3>3, <3>4
  <2>4. QED
    BY <2>2, <2>3
<1>6. PICK K : K = {k \in LevelKeys : mem.level_index[k] # Null}
    OBVIOUS
<1>7. Levels(b) = K
    BY <1>5, <1>6 DEF Levels
<1>8. PICK f : f = [k \in K |-> mem.level_index[k]]
    OBVIOUS
<1>9. f \in [K -> LevelCells] /\ \A k \in K : f[k] = mem.level_index[k]
    BY <1>4, <1>6, <1>8
<1>10. ASSUME NEW k \in K, NEW h \in K, f[k] = f[h] PROVE k = h
  <2>1. PICK t \in Side, y \in Prices : k = <<t, y>>
    BY <1>6 DEF LevelKeys
  <2>2. mem.level_index[k] # Null /\ h \in LevelKeys /\ mem.level_index[h] = mem.level_index[k]
    BY <1>6, <1>9, <1>10
  <2>3. PICK l : l = mem.level_index[k]
    OBVIOUS
  <2>4. \A g \in LevelKeys : mem.level_index[g] = l => g = <<t, y>>
    BY <1>2, <1>3, <2>1, <2>2, <2>3, FoundLevel
  <2>5. QED
    BY <2>1, <2>2, <2>3, <2>4
<1>11. MaxPriceLevels \in Nat \ {0}
    BY BookAssumption
<1>12. /\ IsFiniteSet(K) /\ Cardinality(K) \in Nat /\ Cardinality(K) <= MaxPriceLevels
       /\ Cardinality(K) < MaxPriceLevels <=> \E l \in LevelCells : \A k \in K : f[k] # l
    BY <1>9, <1>10, <1>11, InjectionFits DEF LevelCells
<1>13. \A l \in LevelCells : Unindexed(mem, l) <=> \A k \in K : f[k] # l
    BY <1>6, <1>9, NullIsNoCell DEF Unindexed
<1>14. PICK w \in Seq(LevelCells) : w = mem.level_pool
    BY <1>2, MemoryFields
<1>15. \A l \in LevelCells : Unindexed(mem, l) <=> Has(w, l)
    BY <1>3, <1>14 DEF LevelsSound, LevelPoolIs, Has
<1>16. w # <<>> <=> \E l \in LevelCells : Has(w, l)
    BY PoolEmpty DEF LevelCells
<1>17. Cardinality(K) < MaxPriceLevels <=> w # <<>>
    BY <1>12, <1>13, <1>15, <1>16
<1>18. <<s, p>> \in LevelKeys
    BY DEF LevelKeys
<1>19. QED
    BY <1>5, <1>7, <1>12, <1>14, <1>17, <1>18 DEF RoomAtLevel, FitsLevels

(* An order rests exactly when the index has it, and there is room for one *)
(* more exactly when the pool has a cell.                                  *)
LEMMA RestingIs ==
    ASSUME NEW mem, NEW b, Agrees(mem, b, Null, Null)
    PROVE  /\ \A id \in Ids : id \in Resting(b) <=> mem.order_index[id] # Null
           /\ IsFiniteSet(Resting(b)) /\ Cardinality(Resting(b)) <= MaxOrders
           /\ Cardinality(Resting(b)) < MaxOrders <=> mem.order_pool # <<>>
<1>1. mem \in Memory /\ b \in Book /\ OrdersShown(mem, b, Null) /\ Indexed(mem, Null)
      /\ OrderPoolIs(mem, Null)
    BY DEF Agrees, Sound
<1>2. mem.order_index \in [Ids -> OrderCells \union {Null}]
    BY <1>1, MemoryFields
<1>3. ASSUME NEW id \in Ids PROVE id \in Resting(b) <=> mem.order_index[id] # Null
  <2>1. ASSUME mem.order_index[id] = Null PROVE id \notin Resting(b)
    BY <1>1, <2>1 DEF OrdersShown, Resting
  <2>2. ASSUME mem.order_index[id] # Null PROVE id \in Resting(b)
    <3>1. PICK c, l : c = mem.order_index[id] /\ l = mem.order[c].level
      OBVIOUS
    <3>2. Found(mem, id, c, l)
      BY <2>2, <3>1 DEF Found
    <3>3. QED
      BY <3>2, AgreesOrder
  <2>3. QED
    BY <2>1, <2>2
<1>4. PICK K : K = Resting(b)
    OBVIOUS
<1>5. \A id : id \in K <=> id \in Ids /\ mem.order_index[id] # Null
    BY <1>3, <1>4 DEF Resting
<1>6. PICK f : f = [k \in K |-> mem.order_index[k]]
    OBVIOUS
<1>7. f \in [K -> OrderCells] /\ \A k \in K : f[k] = mem.order_index[k]
    BY <1>2, <1>5, <1>6
<1>8. \A k, h \in K : f[k] = f[h] => k = h
    BY <1>1, <1>5, <1>7 DEF Indexed
<1>9. MaxOrders \in Nat \ {0}
    BY BookAssumption
<1>10. /\ IsFiniteSet(K) /\ Cardinality(K) \in Nat /\ Cardinality(K) <= MaxOrders
       /\ Cardinality(K) < MaxOrders <=> \E c \in OrderCells : \A k \in K : f[k] # c
    BY <1>7, <1>8, <1>9, InjectionFits DEF OrderCells
<1>11. ASSUME NEW c \in OrderCells
       PROVE  mem.order[c].level = Null <=> \A k \in K : f[k] # c
  <2>1. c # Null
    BY NullIsNoCell
  <2>2. ASSUME NEW k \in K, f[k] = c PROVE mem.order[c].level # Null
    BY <1>1, <1>5, <1>7, <2>2 DEF Indexed
  <2>3. ASSUME mem.order[c].level # Null PROVE \E k \in K : f[k] = c
    <3>1. PICK k \in Ids : k = mem.order[c].id /\ mem.order_index[k] = c
      BY <1>1, <2>3 DEF Indexed
    <3>2. k \in K
      BY <1>5, <2>1, <3>1
    <3>3. QED
      BY <1>7, <3>1, <3>2
  <2>4. QED
    BY <2>2, <2>3
<1>12. PICK w \in Seq(OrderCells) : w = mem.order_pool
    BY <1>1, MemoryFields
<1>13. \A c \in OrderCells : c # Null
    BY NullIsNoCell
<1>14. \A c \in OrderCells : Has(w, c) <=> mem.order[c].level = Null
    BY <1>1, <1>12, <1>13 DEF OrderPoolIs, Has
<1>15. w # <<>> <=> \E c \in OrderCells : Has(w, c)
    BY PoolEmpty DEF OrderCells
<1>16. Cardinality(K) < MaxOrders <=> w # <<>>
    BY <1>10, <1>11, <1>14, <1>15
<1>17. QED
    BY <1>3, <1>4, <1>10, <1>12, <1>16

(* update_best has nothing to do: the chain starts with the best level.    *)
LEMMA NowBest ==
    ASSUME NEW mem, NEW b, NEW hand, NEW spare, Agrees(mem, b, hand, spare),
           NEW s \in Side, NEW p \in Prices, NEW l, LevelAt(mem, s, p, l)
    PROVE  UpdateBest(mem, s, l) = mem /\ mem.best[s] # Null
<1>1. mem \in Memory /\ LevelsSound(mem)
    BY DEF Agrees, Sound
<1>2. QED
    BY <1>1, BestAlready DEF LevelAt

(* A cell off the lists points nowhere.                                    *)
LEMMA IdleCell ==
    ASSUME NEW mem, NEW b, NEW hand, NEW spare, Agrees(mem, b, hand, spare),
           NEW c \in OrderCells, mem.order[c].level = Null
    PROVE  mem.order[c].prev = Null /\ mem.order[c].next = Null
<1>1. PICK lists : ListsAre(mem, lists)
    BY DEF Agrees, Sound
<1>2. QED
    BY <1>1 DEF ListsAre

(* r is mem with its first free cell c taken and filled in.                *)
Drawn(mem, r, c, w) ==
    c = Head(mem.order_pool) /\ r = [mem EXCEPT !.order_pool = Tail(@), !.order[c] = w]

(* An order acquired and written to is in hand, and not in the book yet.   *)
LEMMA DrawnAgrees ==
    ASSUME NEW mem, NEW b, Agrees(mem, b, Null, Null), mem.order_pool # <<>>,
           NEW id \in Ids, NEW s \in Side, NEW p \in Prices, NEW c, NEW w, NEW r,
           w \in OrderCell, w.level = Null, w.prev = Null, w.next = Null,
           Drawn(mem, r, c, w)
    PROVE  /\ Agrees(r, b, c, Null) /\ c \in OrderCells /\ r.order[c] = w
           /\ r.order_index = mem.order_index
           /\ NotInIndex(r, c)
<1>1. mem \in Memory
    BY DEF Agrees
<1>2. PICK t : t = [mem EXCEPT !.order_pool = Tail(mem.order_pool)]
    OBVIOUS
<1>3. Repooled(mem, t, Tail(mem.order_pool))
    BY <1>1, <1>2, TakeRepools
<1>4. /\ Agrees(t, b, c, Null)
      /\ c \in OrderCells /\ t.order[c].level = Null
      /\ \A x \in Ids : t.order_index[x] # c
    BY <1>3, TakenAgrees DEF Drawn
<1>5. t \in Memory /\ t.order_index = mem.order_index
    BY <1>3 DEF Repooled
<1>6. r = [t EXCEPT !.order[c] = w]
    BY <1>2 DEF Drawn
<1>7. Rewritten(t, r, c, w)
    BY <1>4, <1>5, <1>6, RewrittenIs
<1>8. HandWritten(t, r, c, w)
    BY <1>4, <1>7 DEF Rewritten, HandWritten
<1>9. Agrees(r, b, c, Null)
    BY <1>4, <1>8, WriteHandAgrees
<1>10. r.order[c] = w
    BY <1>4, <1>5, <1>7, MemoryFields DEF Rewritten
<1>11. r.order_index = mem.order_index
    BY <1>5, <1>7 DEF Rewritten
<1>12. NotInIndex(r, c)
    BY <1>4, <1>5, <1>11 DEF NotInIndex
<1>13. QED
    BY <1>4, <1>9, <1>10, <1>11, <1>12

(* get_or_create_level finds a level exactly when there is room at it.     *)
LEMMA GotRoom ==
    ASSUME NEW mem, NEW b, NEW hand, Agrees(mem, b, hand, Null), NEW s \in Side, NEW p \in Prices,
           NEW got, got = GetOrCreateLevel(mem, s, p)
    PROVE  /\ Agrees(got.mem, b, hand, got.level) /\ GotLevel(mem, got.mem, got.level, s, p)
           /\ got.level = Null <=> ~ RoomAtLevel(b, <<s, p>>)
<1>1. Agrees(got.mem, b, hand, got.level) /\ GotLevel(mem, got.mem, got.level, s, p)
    BY GetOrCreateAgrees
<1>2. RoomAtLevel(b, <<s, p>>) <=> mem.level_index[<<s, p>>] # Null \/ mem.level_pool # <<>>
    BY RoomIs
<1>3. PICK l, r : l = got.level /\ r = got.mem
    OBVIOUS
<1>4. GotLevel(mem, r, l, s, p)
    BY <1>1, <1>3
<1>5. /\ l = Null => mem.level_pool = <<>> /\ mem.level_index[<<s, p>>] = Null
      /\ l # Null => mem.level_index[<<s, p>>] # Null \/ mem.level_pool # <<>>
    BY <1>4 DEF GotLevel
<1>6. QED
    BY <1>1, <1>2, <1>3, <1>5

(* The order in hand behind the others of its level, and update_best.      *)
LEMMA PlacedBest ==
    ASSUME NEW mem, NEW b, NEW c, NEW l, Agrees(mem, b, c, l),
           NEW id \in Ids, NEW s \in Side, NEW p \in Prices, InHand(mem, c, id, s, p),
           Unheld(mem, id, c), LevelAt(mem, s, p, l),
           NEW q, Placed(mem, q, l, c, id), NEW r, r = UpdateBest(q, s, l)
    PROVE  Agrees(r, AppendOrder(b, id, OrderOf(mem.order[c])), Null, Null) /\ r = q
<1>1. PICK d : d = AppendOrder(b, id, OrderOf(mem.order[c]))
    OBVIOUS
<1>2. Agrees(q, d, Null, Null) /\ LevelAt(q, s, p, l)
    BY <1>1, PlaceAgrees
<1>3. r = q
    BY <1>2, NowBest
<1>4. QED
    BY <1>1, <1>2, <1>3

(* add_order is AddOrder, with the same answer.                            *)
LEMMA AddAgrees ==
    ASSUME NEW b, Agrees(m, b, Null, Null), NEW id \in Ids, NEW s \in Side, NEW p \in Prices,
           NEW qty \in Int, LinkedAdd(id, s, p, qty), NEW r, r = AddOrder(b, id, s, p, qty)
    PROVE  Agrees(m', r.book, Null, Null) /\ answer' = r.ok
<1>1. /\ id \in Resting(b) <=> m.order_index[id] # Null
      /\ Cardinality(Resting(b)) < MaxOrders <=> m.order_pool # <<>>
    BY RestingIs
<1>2. CASE m.order_index[id] # Null \/ m.order_pool = <<>>
  <2>1. m' = m /\ answer' = FALSE
    BY <1>2, Zenon DEF LinkedAdd, Fail
  <2>2. r.book = b /\ r.ok = FALSE
    BY <1>1, <1>2 DEF AddOrder, Rejected
  <2>3. QED
    BY <2>1, <2>2, Zenon
<1>3. CASE m.order_index[id] = Null /\ m.order_pool # <<>>
  <2>1. PICK c : c = Head(m.order_pool)
    OBVIOUS
  <2>2. PICK w : w = [m.order[c] EXCEPT !.id = id, !.price = p, !.qty = qty, !.side = s]
    OBVIOUS
  <2>3. PICK f : f = [m EXCEPT !.order_pool = Tail(m.order_pool), !.order[c] = w]
    OBVIOUS
  <2>4. PICK got : got = GetOrCreateLevel(f, s, p)
    OBVIOUS
  <2>5. IF got.level = Null
        THEN m' = ReleaseOrder(got.mem, c) /\ answer' = FALSE
        ELSE /\ m' = UpdateBest([PushBack(got.mem, got.level, c) EXCEPT !.order_index[id] = c],
                                s, got.level)
             /\ answer' = TRUE
    BY <1>3, <2>1, <2>2, <2>3, <2>4, Zenon DEF LinkedAdd
  <2>6. m \in Memory
    BY DEF Agrees
  <2>7. /\ c \in OrderCells /\ m.order[c] \in OrderCell /\ m.order[c].level = Null
        /\ m.order[c].prev = Null /\ m.order[c].next = Null
    <3>1. PICK t : t = [m EXCEPT !.order_pool = Tail(m.order_pool)]
      OBVIOUS
    <3>2. Repooled(m, t, Tail(m.order_pool))
      BY <1>3, <2>6, <3>1, TakeRepools
    <3>3. c \in OrderCells /\ t.order[c].level = Null
      BY <1>3, <2>1, <3>2, TakenAgrees
    <3>4. m.order[c].level = Null
      BY <3>2, <3>3 DEF Repooled
    <3>5. m.order[c] \in OrderCell
      BY <2>6, <3>3, MemoryFields
    <3>6. QED
      BY <3>3, <3>4, <3>5, IdleCell
  <2>8. /\ w \in OrderCell /\ w.level = Null /\ w.prev = Null /\ w.next = Null
        /\ w.id = id /\ w.side = s /\ w.price = p
        /\ OrderOf(w) = [side |-> s, price |-> p, qty |-> qty]
    <3>1. PICK o : o = m.order[c]
      OBVIOUS
    <3>2. o \in OrderCell /\ o.level = Null /\ o.prev = Null /\ o.next = Null
      BY <2>7, <3>1
    <3>3. w = [o EXCEPT !.id = id, !.price = p, !.qty = qty, !.side = s]
      BY <2>2, <3>1
    <3>4. QED
        BY <3>2, <3>3 DEF OrderCell, OrderOf
  <2>9. Drawn(m, f, c, w)
    BY <2>1, <2>3 DEF Drawn
  <2>10. /\ Agrees(f, b, c, Null) /\ f.order[c] = w
         /\ f.order_index = m.order_index /\ NotInIndex(f, c)
    BY <1>3, <2>8, <2>9, DrawnAgrees
  <2>11. /\ Agrees(got.mem, b, c, got.level) /\ GotLevel(f, got.mem, got.level, s, p)
         /\ got.level = Null <=> ~ RoomAtLevel(b, <<s, p>>)
    BY <2>4, <2>10, GotRoom
  <2>12. CASE got.level = Null
    <3>1. r.book = b /\ r.ok = FALSE
      BY <2>11, <2>12 DEF AddOrder, Rejected
    <3>2. got.mem = f
      BY <2>11, <2>12 DEF GotLevel
    <3>3. Agrees(m', b, Null, Null)
      <4>1. m' = ReleaseOrder(f, c)
        BY <2>5, <2>12, <3>2
      <4>2. f \in Memory
        BY <2>10 DEF Agrees
      <4>3. Repooled(f, m', Cons(c, f.order_pool))
        BY <2>7, <4>1, <4>2, ReleaseRepools
      <4>4. f.order[c].level = Null
        BY <2>8, <2>10
      <4>5. \A x \in Ids : f.order_index[x] # c
        BY <2>10 DEF NotInIndex
      <4>6. QED
        BY <2>7, <2>10, <4>3, <4>4, <4>5, ReleasedAgrees
    <3>4. QED
      BY <2>5, <2>12, <3>1, <3>3
  <2>13. CASE got.level # Null
    <3>1. PICK mem, l : mem = got.mem /\ l = got.level
      OBVIOUS
    <3>2. r.book = AppendOrder(b, id, [side |-> s, price |-> p, qty |-> qty]) /\ r.ok = TRUE
      BY <1>1, <1>3, <2>11, <2>13 DEF AddOrder, Done
    <3>3. Agrees(mem, b, c, l) /\ mem.order = f.order /\ mem.order_index = f.order_index
          /\ LevelAt(mem, s, p, l)
      BY <2>11, <2>13, <3>1 DEF GotLevel
    <3>4. InHand(mem, c, id, s, p)
      BY <2>7, <2>8, <2>10, <3>3 DEF InHand
    <3>5. Unheld(mem, id, c)
      BY <1>3, <2>10, <3>3 DEF Unheld
    <3>6. PICK q : q = [PushBack(mem, l, c) EXCEPT !.order_index[id] = c]
      OBVIOUS
    <3>7. Placed(mem, q, l, c, id)
      BY <3>6 DEF Placed
    <3>8. m' = UpdateBest(q, s, l) /\ answer' = TRUE
      BY <2>5, <2>13, <3>1, <3>6
    <3>9. Agrees(m', AppendOrder(b, id, OrderOf(mem.order[c])), Null, Null)
      BY <3>3, <3>4, <3>5, <3>7, <3>8, PlacedBest
    <3>10. OrderOf(mem.order[c]) = [side |-> s, price |-> p, qty |-> qty]
      BY <2>8, <2>10, <3>3
    <3>11. QED
      BY <3>2, <3>8, <3>9, <3>10
  <2>14. QED
    BY <2>12, <2>13
<1>4. QED
    BY <1>2, <1>3

(* Where the index has the order already, append is all of it.             *)
LEMMA PushedIsPlaced ==
    ASSUME NEW mem \in Memory, NEW l \in LevelCells, NEW c \in OrderCells,
           NEW id \in Ids, NEW d, d = mem.order_index[id], d = c,
           NEW q, q = PushBack(mem, l, c)
    PROVE  Placed(mem, q, l, c, id)
<1>1. PICK t : t = mem.level[l].tail
    OBVIOUS
<1>2. q \in Memory /\ q.order_index = mem.order_index
    BY <1>1, PushBackFields
<1>3. q.order_index[id] = c
    BY <1>2
<1>4. PICK I : I = q.order_index
    OBVIOUS
<1>5. [I EXCEPT ![id] = c] = I
    BY <1>2, <1>3, <1>4, MemoryFields
<1>6. [q EXCEPT !.order_index = I] = q
    BY <1>2, <1>4 DEF Memory
<1>7. [q EXCEPT !.order_index[id] = c] = [q EXCEPT !.order_index = [I EXCEPT ![id] = c]]
    BY <1>4
<1>8. [q EXCEPT !.order_index[id] = c] = q
    BY <1>5, <1>6, <1>7
<1>9. QED
    BY <1>8 DEF Placed

(* An order in hand takes another price and quantity.                      *)
LEMMA PricedAgrees ==
    ASSUME NEW mem, NEW b, NEW c, NEW spare, Agrees(mem, b, c, spare), NEW id \in Ids, NEW s, NEW p0,
           InHand(mem, c, id, s, p0), NEW p \in Prices, NEW qty \in Int,
           NEW r, r = Priced(mem, c, p, qty)
    PROVE  /\ Agrees(r, b, c, spare) /\ InHand(r, c, id, s, p)
           /\ r.order[c].qty = qty
           /\ r.order_index = mem.order_index /\ r.level_index = mem.level_index
<1>1. mem \in Memory /\ Indexed(mem, c)
    BY DEF Agrees, Sound
<1>2. PICK o \in OrderCell : o = mem.order[c]
    BY DEF InHand
<1>3. /\ c \in OrderCells /\ o.level = Null /\ o.prev = Null /\ o.next = Null
      /\ o.id = id /\ o.side = s
    BY <1>2 DEF InHand
<1>4. PICK w : w = [o EXCEPT !.price = p, !.qty = qty]
    OBVIOUS
<1>5. /\ w \in OrderCell /\ w.level = Null /\ w.prev = Null /\ w.next = Null
      /\ w.id = id /\ w.side = s /\ w.price = p /\ w.qty = qty
    BY <1>3, <1>4 DEF OrderCell
<1>6. r = [mem EXCEPT !.order[c] = w]
    BY <1>2, <1>4 DEF Priced
<1>7. Rewritten(mem, r, c, w)
    BY <1>1, <1>3, <1>5, <1>6, RewrittenIs
<1>8. \A x \in Ids : mem.order_index[x] = c => w.id = x
    BY <1>1, <1>2, <1>3, <1>5, NullIsNoCell DEF Indexed
<1>9. mem.order[c].level = Null
    BY <1>2, <1>3
<1>10. HandWritten(mem, r, c, w)
    BY <1>3, <1>5, <1>7, <1>8, <1>9 DEF Rewritten, HandWritten
<1>11. Agrees(r, b, c, spare)
    BY <1>10, WriteHandAgrees
<1>12. r.order[c] = w
    BY <1>1, <1>3, <1>7, MemoryFields DEF Rewritten
<1>13. InHand(r, c, id, s, p) /\ r.order[c].qty = qty
    BY <1>3, <1>5, <1>12 DEF InHand
<1>14. r.order_index = mem.order_index /\ r.level_index = mem.level_index
    BY <1>7 DEF Rewritten
<1>15. QED
    BY <1>11, <1>13, <1>14

(* What modify_order at another price gives.                               *)
MovedTo(r, x) == Agrees(r.book, x.book, Null, Null) /\ r.ok = x.ok

(* modify_order at another price is ModifyOrder, also when it finds no     *)
(* level and puts the order back.                                          *)
LEMMA MoveAgrees ==
    ASSUME NEW mem, NEW b, Agrees(mem, b, Null, Null), NEW id \in Ids, NEW c, NEW l,
           Found(mem, id, c, l), NEW p \in Prices, p # mem.order[c].price, NEW qty \in Int,
           NEW r, r = MoveOrder(mem, c, p, qty), NEW x, x = ModifyOrder(b, id, p, qty)
    PROVE  MovedTo(r, x)
<1>1. OrderAt(mem, id, c, l) /\ b.orders[id] = OrderOf(mem.order[c]) /\ id \in Resting(b)
    BY AgreesOrder
<1>2. PICK s \in Side, p0 \in Prices : s = mem.order[c].side /\ p0 = mem.order[c].price
    BY <1>1 DEF OrderAt
<1>3. c \in OrderCells /\ l \in LevelCells /\ l # Null /\ LevelAt(mem, s, p0, l)
    BY <1>1, <1>2 DEF OrderAt, LevelAt
<1>4. PICK n : n = mem.order[c].qty
    OBVIOUS
<1>5. OrderOf(mem.order[c]) = [side |-> s, price |-> p0, qty |-> n]
    BY <1>2, <1>4 DEF OrderOf
<1>6. PICK u : u = Unlink(mem, l, c)
    OBVIOUS
<1>7. PICK e : e = OffLevel(b, id)
    OBVIOUS
<1>8. Agrees(u, e, c, l) /\ OffItsList(mem, u, id, c)
    BY <1>6, <1>7, UnlinkAgrees
<1>9. /\ InHand(u, c, id, s, p0) /\ u.order[c].qty = n
      /\ u.order_index = mem.order_index /\ LevelAt(u, s, p0, l)
    BY <1>2, <1>3, <1>4, <1>8 DEF OffItsList, LevelAt
<1>10. PICK t : t = RemoveIfEmpty(u, l)
    OBVIOUS
<1>11. Agrees(t, e, c, Null) /\ Tidied(u, t, s, p0, l)
    BY <1>8, <1>9, <1>10, RemoveIfEmptyAgrees
<1>12. /\ InHand(t, c, id, s, p0) /\ t.order[c].qty = n
       /\ t.order_index = mem.order_index
    BY <1>9, <1>11 DEF Tidied, InHand
<1>13. PICK got : got = GetOrCreateLevel(t, s, p)
    OBVIOUS
<1>14. PICK g, k : g = got.mem /\ k = got.level
    OBVIOUS
<1>15. /\ Agrees(g, e, c, k) /\ GotLevel(t, g, k, s, p)
       /\ k = Null <=> ~ RoomAtLevel(e, <<s, p>>)
    BY <1>11, <1>13, <1>14, GotRoom
<1>16. x = IF k # Null THEN Done(AppendOrder(e, id, [side |-> s, price |-> p, qty |-> qty]))
           ELSE Rejected(AppendOrder(e, id, [side |-> s, price |-> p0, qty |-> n]))
  <2>1. b.orders[id] = [side |-> s, price |-> p0, qty |-> n]
    BY <1>1, <1>5
  <2>2. PICK o : o = b.orders[id]
    OBVIOUS
  <2>3. o.side = s /\ o.price = p0 /\ p # p0 /\ o = [side |-> s, price |-> p0, qty |-> n]
    BY <1>2, <2>1, <2>2
  <2>4. x = IF RoomAtLevel(e, <<o.side, p>>)
            THEN Done(AppendOrder(e, id, [side |-> o.side, price |-> p, qty |-> qty]))
            ELSE Rejected(AppendOrder(e, id, o))
    BY <1>1, <1>7, <2>2, <2>3, Zenon DEF ModifyOrder
  <2>5. QED
    BY <1>15, <2>3, <2>4
<1>17. CASE k # Null
  <2>1. PICK v : v = Priced(g, c, p, qty)
    OBVIOUS
  <2>2. PICK q : q = PushBack(v, k, c)
    OBVIOUS
  <2>3. r = Done(UpdateBest(q, s, k))
    BY <1>2, <1>3, <1>6, <1>10, <1>13, <1>14, <1>17, <2>1, <2>2, Zenon DEF MoveOrder, Found
  <2>4. /\ g.order = t.order /\ g.order_index = mem.order_index /\ LevelAt(g, s, p, k)
    BY <1>12, <1>15, <1>17 DEF GotLevel
  <2>5. InHand(g, c, id, s, p0)
    BY <1>12, <2>4 DEF InHand
  <2>6. /\ Agrees(v, e, c, k) /\ InHand(v, c, id, s, p) /\ v.order[c].qty = qty
        /\ v.order_index = g.order_index /\ v.level_index = g.level_index
    BY <1>15, <2>1, <2>5, PricedAgrees
  <2>7. LevelAt(v, s, p, k)
    BY <2>4, <2>6 DEF LevelAt
  <2>8. v \in Memory /\ k \in LevelCells
    <3>1. v \in Memory /\ LevelsSound(v)
      BY <2>6 DEF Agrees, Sound
    <3>2. QED
      BY <2>7, <3>1, LevelAtFacts
  <2>9. Unheld(v, id, c) /\ Placed(v, q, k, c, id)
    <3>1. v.order_index[id] = c
      BY <2>4, <2>6 DEF Found
    <3>2. Placed(v, q, k, c, id)
      BY <1>3, <2>2, <2>8, <3>1, PushedIsPlaced
    <3>3. QED
      BY <3>1, <3>2 DEF Unheld
  <2>10. Agrees(UpdateBest(q, s, k), AppendOrder(e, id, OrderOf(v.order[c])), Null, Null)
    BY <2>6, <2>7, <2>9, PlacedBest
  <2>11. OrderOf(v.order[c]) = [side |-> s, price |-> p, qty |-> qty]
    BY <2>6 DEF OrderOf, InHand
  <2>12. QED
    BY <1>16, <1>17, <2>3, <2>10, <2>11 DEF MovedTo, Done
<1>18. CASE k = Null
  <2>1. t.level_pool = <<>> /\ g = t
    BY <1>15, <1>18 DEF GotLevel
  <2>2. ~ EmptyLevel(u, l) /\ t = u
    BY <1>11, <2>1 DEF Tidied
  <2>3. PICK q : q = PushBack(t, l, c)
    OBVIOUS
  <2>4. r = Rejected(UpdateBest(q, s, l)) \/ r = Rejected(q)
    <3>1. ~ EmptyLevel(u, l) /\ k = Null /\ g = t /\ l # Null
      BY <1>3, <1>18, <2>1, <2>2
    <3>2. PICK back : back = IF EmptyLevel(u, l) THEN GetOrCreateLevel(g, s, p0)
                             ELSE [mem |-> g, level |-> l]
      OBVIOUS
    <3>3. PICK y : y = PushBack(back.mem, back.level, c)
      OBVIOUS
    <3>4. r = IF k # Null THEN Done(UpdateBest(PushBack(Priced(g, c, p, qty), k, c), s, k))
              ELSE IF back.level = Null THEN Rejected(back.mem)
              ELSE Rejected(IF mem.best[s] = l \/ y.best[s] = Null
                            THEN UpdateBest(y, s, back.level) ELSE y)
      BY <1>2, <1>6, <1>10, <1>13, <1>14, <3>2, <3>3, Zenon DEF MoveOrder, Found
    <3>5. back.mem = t /\ back.level = l
      BY <3>1, <3>2
    <3>6. y = q
      BY <2>3, <3>3, <3>5
    <3>7. r = Rejected(IF mem.best[s] = l \/ q.best[s] = Null THEN UpdateBest(q, s, l) ELSE q)
      BY <3>1, <3>4, <3>5, <3>6
    <3>8. QED
      BY <3>7
  <2>5. Agrees(t, e, c, l)
    BY <1>11, AgreesSparing
  <2>6. LevelAt(t, s, p0, l)
    BY <1>9, <2>2
  <2>7. Unheld(t, id, c) /\ Placed(t, q, l, c, id)
    <3>1. t.order_index[id] = c
      BY <1>12 DEF Found
    <3>2. t \in Memory
      BY <1>11 DEF Agrees
    <3>3. Placed(t, q, l, c, id)
      BY <1>3, <2>3, <3>1, <3>2, PushedIsPlaced
    <3>4. QED
      BY <3>1, <3>3 DEF Unheld
  <2>8. PICK z : z = UpdateBest(q, s, l)
    OBVIOUS
  <2>9. Agrees(z, AppendOrder(e, id, OrderOf(t.order[c])), Null, Null) /\ z = q
    BY <1>12, <2>5, <2>6, <2>7, <2>8, PlacedBest
  <2>10. OrderOf(t.order[c]) = [side |-> s, price |-> p0, qty |-> n]
    BY <1>12 DEF OrderOf, InHand
  <2>11. r = Rejected(z)
    BY <2>4, <2>8, <2>9
  <2>12. QED
    BY <1>16, <1>18, <2>9, <2>10, <2>11 DEF MovedTo, Rejected
<1>19. QED
    BY <1>17, <1>18

(* Where an order of the index is, and that it rests.                      *)
LEMMA FoundResting ==
    ASSUME NEW mem, NEW b, Agrees(mem, b, Null, Null), NEW id \in Ids, mem.order_index[id] # Null,
           NEW c, c = mem.order_index[id]
    PROVE  \E l : /\ Found(mem, id, c, l) /\ OrderAt(mem, id, c, l)
                  /\ id \in Resting(b) /\ b.orders[id] = OrderOf(mem.order[c])
<1>1. PICK l : l = mem.order[c].level
    OBVIOUS
<1>2. Found(mem, id, c, l)
    BY <1>1 DEF Found
<1>3. QED
    BY <1>2, AgreesOrder

(* modify_order is ModifyOrder, with the same answer.                      *)
LEMMA ModifyAgrees ==
    ASSUME NEW b, Agrees(m, b, Null, Null), NEW id \in Ids, NEW p \in Prices, NEW qty \in Int,
           LinkedModify(id, p, qty), NEW x, x = ModifyOrder(b, id, p, qty)
    PROVE  Agrees(m', x.book, Null, Null) /\ answer' = x.ok
<1>1. id \in Resting(b) <=> m.order_index[id] # Null
    BY RestingIs
<1>2. CASE m.order_index[id] = Null
  <2>1. m' = m /\ answer' = FALSE
    BY <1>2, Zenon DEF LinkedModify, Fail
  <2>2. x.book = b /\ x.ok = FALSE
    BY <1>1, <1>2 DEF ModifyOrder, Rejected
  <2>3. QED
    BY <2>1, <2>2, Zenon
<1>3. CASE m.order_index[id] # Null
  <2>1. PICK c : c = m.order_index[id]
    OBVIOUS
  <2>2. PICK l : /\ Found(m, id, c, l) /\ OrderAt(m, id, c, l)
                 /\ id \in Resting(b) /\ b.orders[id] = OrderOf(m.order[c])
    BY <1>3, <2>1, FoundResting
  <2>3. c # Null
    BY <2>2 DEF Found
  <2>4. CASE p = m.order[c].price
    <3>1. m' = SetQty(m, c, qty) /\ answer' = TRUE
      BY <2>1, <2>3, <2>4, Zenon DEF LinkedModify
    <3>2. x = Done(Resized(b, id, qty))
      <4>1. p = b.orders[id].price
        BY <2>2, <2>4 DEF OrderOf
      <4>2. QED
        BY <2>2, <4>1 DEF ModifyOrder
    <3>3. Agrees(m', Resized(b, id, qty), Null, Null)
      BY <2>2, <3>1, SetQtyAgrees
    <3>4. x.book = Resized(b, id, qty) /\ x.ok = TRUE
      BY <3>2 DEF Done
    <3>5. QED
      BY <3>1, <3>3, <3>4, Zenon
  <2>5. CASE p # m.order[c].price
    <3>1. PICK r : r = MoveOrder(m, c, p, qty)
      OBVIOUS
    <3>2. m' = r.book /\ answer' = r.ok
      BY <2>1, <2>3, <2>5, <3>1, Zenon DEF LinkedModify
    <3>3. MovedTo(r, x)
      BY <2>2, <2>5, <3>1, MoveAgrees
    <3>4. QED
      BY <3>2, <3>3, Zenon DEF MovedTo
  <2>6. QED
    BY <2>4, <2>5
<1>4. QED
    BY <1>2, <1>3

(* cancel_order is CancelOrder, with the same answer.                      *)
LEMMA CancelAgrees ==
    ASSUME NEW b, Agrees(m, b, Null, Null), NEW id \in Ids, LinkedCancel(id),
           NEW x, x = CancelOrder(b, id)
    PROVE  Agrees(m', x.book, Null, Null) /\ answer' = x.ok
<1>1. id \in Resting(b) <=> m.order_index[id] # Null
    BY RestingIs
<1>2. CASE m.order_index[id] = Null
  <2>1. m' = m /\ answer' = FALSE
    BY <1>2, Zenon DEF LinkedCancel, Fail
  <2>2. x.book = b /\ x.ok = FALSE
    BY <1>1, <1>2 DEF CancelOrder, Rejected
  <2>3. QED
    BY <2>1, <2>2, Zenon
<1>3. CASE m.order_index[id] # Null
  <2>1. PICK c : c = m.order_index[id]
    OBVIOUS
  <2>2. PICK l : Found(m, id, c, l)
    BY <1>3, <2>1, FoundResting
  <2>3. m' = DropOrder(m, id) /\ answer' = TRUE
    BY <1>3, Zenon DEF LinkedCancel
  <2>4. x.book = Dropped(b, id) /\ x.ok = TRUE
    BY <1>1, <1>3 DEF CancelOrder, Done
  <2>5. Agrees(m', Dropped(b, id), Null, Null)
    BY <2>2, <2>3, DroppedAgrees
  <2>6. QED
    BY <2>3, <2>4, <2>5, Zenon
<1>4. QED
    BY <1>2, <1>3

(* execute_order is ExecuteOrder, with the same answer.                    *)
LEMMA ExecuteAgrees ==
    ASSUME NEW b, Agrees(m, b, Null, Null), NEW id \in Ids, NEW fill \in Int,
           LinkedExecute(id, fill), NEW x, x = ExecuteOrder(b, id, fill)
    PROVE  Agrees(m', x.book, Null, Null) /\ answer' = x.ok
<1>1. id \in Resting(b) <=> m.order_index[id] # Null
    BY RestingIs
<1>2. CASE m.order_index[id] = Null
  <2>1. m' = m /\ answer' = FALSE
    BY <1>2, Zenon DEF LinkedExecute, Fail
  <2>2. x.book = b /\ x.ok = FALSE
    BY <1>1, <1>2 DEF ExecuteOrder, Rejected
  <2>3. QED
    BY <2>1, <2>2, Zenon
<1>3. CASE m.order_index[id] # Null
  <2>1. PICK c : c = m.order_index[id]
    OBVIOUS
  <2>2. PICK l : /\ Found(m, id, c, l) /\ OrderAt(m, id, c, l)
                 /\ id \in Resting(b) /\ b.orders[id] = OrderOf(m.order[c])
    BY <1>3, <2>1, FoundResting
  <2>3. PICK n \in Int : n = m.order[c].qty /\ n = b.orders[id].qty
    <3>1. m.order[c].qty \in Int
      BY <2>2 DEF OrderAt, OrderCell
    <3>2. b.orders[id].qty = m.order[c].qty
      BY <2>2 DEF OrderOf
    <3>3. QED
      BY <3>1, <3>2
  <2>4. c # Null
    BY <2>2 DEF Found
  <2>5. CASE fill <= 0 \/ fill > n
    <3>1. m' = m /\ answer' = FALSE
      BY <2>1, <2>3, <2>4, <2>5, Zenon DEF LinkedExecute, Fail
    <3>2. x.book = b /\ x.ok = FALSE
      BY <2>3, <2>5 DEF ExecuteOrder, Rejected
    <3>3. QED
      BY <3>1, <3>2, Zenon
  <2>6. CASE ~ (fill <= 0 \/ fill > n) /\ fill = n
    <3>1. m' = DropOrder(m, id) /\ answer' = TRUE
      BY <2>1, <2>3, <2>4, <2>6, Zenon DEF LinkedExecute
    <3>2. x.book = Dropped(b, id) /\ x.ok = TRUE
      BY <2>2, <2>3, <2>6 DEF ExecuteOrder, Done
    <3>3. Agrees(m', Dropped(b, id), Null, Null)
      BY <2>2, <3>1, DroppedAgrees
    <3>4. QED
      BY <3>1, <3>2, <3>3, Zenon
  <2>7. CASE ~ (fill <= 0 \/ fill > n) /\ fill # n
    <3>1. m' = SetQty(m, c, n - fill) /\ answer' = TRUE
      BY <2>1, <2>3, <2>4, <2>7, Zenon DEF LinkedExecute
    <3>2. x.book = Resized(b, id, n - fill) /\ x.ok = TRUE
      BY <2>2, <2>3, <2>7 DEF ExecuteOrder, Done
    <3>3. Agrees(m', Resized(b, id, n - fill), Null, Null)
      BY <2>2, <2>3, <3>1, SetQtyAgrees
    <3>4. QED
      BY <3>1, <3>2, <3>3, Zenon
  <2>8. QED
    BY <2>5, <2>6, <2>7
<1>4. QED
    BY <1>2, <1>3

-----------------------------------------------------------------------------
(* What the memory is read as.                                             *)

(* The list of a level, read from its head.                                *)
LEMMA ReadOrders ==
    ASSUME NEW mem, NEW lists, ListsAre(mem, lists), NEW l \in LevelCells
    PROVE  OrdersAt(mem, l) = lists[l]
<1>1. PICK cs : cs = lists[l]
    OBVIOUS
<1>2. cs \in Seq(OrderCells) /\ ListIs(mem, l, cs)
    BY <1>1 DEF ListsAre
<1>3. Len(cs) <= MaxOrders
  <2>1. PICK R : R = {cs[i] : i \in 1 .. Len(cs)}
    OBVIOUS
  <2>2. \A i, j \in 1 .. Len(cs) : cs[i] = cs[j] => i = j
    BY <1>2 DEF ListIs
  <2>3. IsFiniteSet(R) /\ Cardinality(R) = Len(cs)
    BY <1>2, <2>1, <2>2, LenOfDistinct
  <2>4. R \in SUBSET (1 .. MaxOrders)
    <3>1. \A i \in 1 .. Len(cs) : cs[i] \in OrderCells
      BY <1>2
    <3>2. QED
      BY <2>1, <3>1 DEF OrderCells
  <2>5. MaxOrders \in Nat /\ IsFiniteSet(1 .. MaxOrders) /\ Cardinality(1 .. MaxOrders) = MaxOrders
    BY FS_Interval, BookAssumption
  <2>6. QED
    BY <2>3, <2>4, <2>5, FS_Subset
<1>4. PICK first : first = mem.level[l].head
    OBVIOUS
<1>5. PICK after : after = [c \in OrderCells |-> mem.order[c].next]
    OBVIOUS
<1>6. Linked(cs, first, after, Null)
  <2>1. first = IF cs = <<>> THEN Null ELSE cs[1]
    BY <1>2, <1>4 DEF ListIs
  <2>2. ASSUME NEW i \in 1 .. Len(cs)
        PROVE  after[cs[i]] = IF i = Len(cs) THEN Null ELSE cs[i + 1]
    <3>1. cs[i] \in OrderCells
      BY <1>2
    <3>2. mem.order[cs[i]].next = IF i = Len(cs) THEN Null ELSE cs[i + 1]
      BY <1>2 DEF ListIs
    <3>3. QED
      BY <1>5, <3>1, <3>2
  <2>3. QED
    BY <2>1, <2>2 DEF Linked
<1>7. Walk(first, after, Null, MaxOrders) = cs
    BY <1>2, <1>3, <1>6, NullIsNoCell, BookAssumption, WalkReads
<1>8. QED
    BY <1>1, <1>4, <1>5, <1>7 DEF OrdersAt

(* The chain of a side, read from its best level.                          *)
LEMMA ReadLevels ==
    ASSUME NEW mem \in Memory, NEW s \in Side, NEW ch, ChainIs(mem, s, ch)
    PROVE  LevelsOf(mem, s) = ch
<1>1. /\ ch \in Seq(LevelCells) /\ Len(ch) <= MaxPriceLevels
    BY ChainFacts
<1>2. PICK first : first = mem.best[s]
    OBVIOUS
<1>3. PICK after : after = [l \in LevelCells |-> mem.level[l].next]
    OBVIOUS
<1>4. Linked(ch, first, after, Null)
  <2>1. first = IF ch = <<>> THEN Null ELSE ch[1]
    BY <1>2 DEF ChainIs
  <2>2. ASSUME NEW i \in 1 .. Len(ch)
        PROVE  after[ch[i]] = IF i = Len(ch) THEN Null ELSE ch[i + 1]
    <3>1. ch[i] \in LevelCells
      BY <1>1
    <3>2. mem.level[ch[i]].next = IF i = Len(ch) THEN Null ELSE ch[i + 1]
      BY DEF ChainIs
    <3>3. QED
      BY <1>3, <3>1, <3>2
  <2>3. QED
    BY <2>1, <2>2 DEF Linked
<1>5. Walk(first, after, Null, MaxPriceLevels) = ch
    BY <1>1, <1>4, NullIsNoCell, BookAssumption, WalkReads
<1>6. QED
    BY <1>2, <1>3, <1>5 DEF LevelsOf

(* The memory is read as the book it agrees with.                          *)
LEMMA ReadBook ==
    ASSUME NEW mem, NEW b, Agrees(mem, b, Null, Null)
    PROVE  BookIn(mem) = b
<1>1. PICK lists : Sound(mem, lists, Null, Null) /\ QueuesShown(mem, lists, b)
                   /\ OrdersShown(mem, b, Null)
    BY DEF Agrees
<1>2. mem \in Memory /\ b \in Book /\ ListsAre(mem, lists)
    BY <1>1 DEF Agrees, Sound
<1>3. PICK O : O = [id \in Ids |-> IF mem.order_index[id] = Null THEN NoOrder
                                   ELSE OrderOf(mem.order[mem.order_index[id]])]
    OBVIOUS
<1>4. PICK Q : Q = [k \in LevelKeys |-> IF mem.level_index[k] = Null THEN <<>>
                                        ELSE IdsAt(mem, mem.level_index[k])]
    OBVIOUS
<1>5. BookIn(mem) = [orders |-> O, queue |-> Q]
    BY <1>3, <1>4 DEF BookIn
<1>6. ASSUME NEW id \in Ids PROVE O[id] = b.orders[id]
    BY <1>1, <1>3 DEF OrdersShown
<1>7. ASSUME NEW k \in LevelKeys PROVE Q[k] = b.queue[k]
  <2>1. PICK l \in LevelCells \union {Null} : l = mem.level_index[k]
    BY <1>2, MemoryFields
  <2>2. Q[k] = IF l = Null THEN <<>> ELSE IdsAt(mem, l)
    BY <1>4, <2>1
  <2>3. b.queue[k] = IF l = Null THEN <<>> ELSE IdsOf(mem, lists[l])
    BY <1>1, <2>1 DEF QueuesShown
  <2>4. ASSUME l # Null PROVE IdsAt(mem, l) = IdsOf(mem, lists[l])
    <3>1. OrdersAt(mem, l) = lists[l]
      BY <1>2, <2>4, ReadOrders
    <3>2. QED
      BY <3>1 DEF IdsAt, IdsOf
  <2>5. QED
    BY <2>2, <2>3, <2>4
<1>8. b.orders = O
  <2>1. b.orders \in [Ids -> Order \union {NoOrder}]
    BY <1>2 DEF Book
  <2>2. O = [id \in Ids |-> O[id]]
    BY <1>3
  <2>3. QED
    BY <1>6, <2>1, <2>2
<1>9. b.queue = Q
  <2>1. b.queue \in [LevelKeys -> Seq(Ids)]
    BY <1>2 DEF Book
  <2>2. Q = [k \in LevelKeys |-> Q[k]]
    BY <1>4
  <2>3. QED
    BY <1>7, <2>1, <2>2
<1>10. b = [orders |-> O, queue |-> Q]
    BY <1>2, <1>8, <1>9 DEF Book
<1>11. QED
    BY <1>5, <1>10

-----------------------------------------------------------------------------
(* No cell lost or handed out twice, and links that mirror each other.     *)

(* Every cell is in its pool or held by its index, once.                   *)
LEMMA PoolsAccount ==
    ASSUME NEW b, Agrees(m, b, Null, Null)
    PROVE  PoolsAccountForEveryCell
<1>1. /\ m \in Memory /\ LevelsSound(m) /\ LevelPoolIs(m) /\ Indexed(m, Null)
      /\ OrderPoolIs(m, Null)
    BY DEF Agrees, Sound, LevelsSound
<1>2. ASSUME NEW c \in OrderCells
      PROVE  Cardinality({i \in DOMAIN m.order_pool : m.order_pool[i] = c})
               + Cardinality(Holds(m.order_index, Ids, c)) = 1
  <2>1. PICK w \in Seq(OrderCells) : w = m.order_pool
    BY <1>1, MemoryFields
  <2>2. PICK H : H = Holds(m.order_index, Ids, c)
    OBVIOUS
  <2>3. c # Null
    BY NullIsNoCell
  <2>4. NoRepeat(w) /\ (Has(w, c) <=> m.order[c].level = Null)
    BY <1>1, <2>1, <2>3 DEF OrderPoolIs, NoRepeat, Has
  <2>5. Cardinality({i \in DOMAIN w : w[i] = c}) = IF Has(w, c) THEN 1 ELSE 0
    BY <2>4, CountedIn
  <2>6. \A x : x \in H <=> x \in Ids /\ m.order_index[x] = c
    BY <2>2 DEF Holds
  <2>7. \A x, y \in H : x = y
    BY <1>1, <2>3, <2>6 DEF Indexed
  <2>8. H = {} <=> m.order[c].level = Null
    <3>1. \A x \in H : m.order[c].level # Null
      BY <1>1, <2>3, <2>6 DEF Indexed
    <3>2. ASSUME m.order[c].level # Null PROVE \E x \in H : TRUE
      BY <1>1, <2>6, <3>2 DEF Indexed
    <3>3. QED
      BY <3>1, <3>2
  <2>9. Cardinality(H) = IF H = {} THEN 0 ELSE 1
    BY <2>7, OneOrNone
  <2>10. QED
    BY <2>1, <2>2, <2>4, <2>5, <2>8, <2>9
<1>3. ASSUME NEW l \in LevelCells
      PROVE  Cardinality({i \in DOMAIN m.level_pool : m.level_pool[i] = l})
               + Cardinality(Holds(m.level_index, LevelKeys, l)) = 1
  <2>1. PICK w \in Seq(LevelCells) : w = m.level_pool
    BY <1>1, MemoryFields
  <2>2. PICK H : H = Holds(m.level_index, LevelKeys, l)
    OBVIOUS
  <2>3. l # Null
    BY NullIsNoCell
  <2>4. NoRepeat(w) /\ (Has(w, l) <=> Unindexed(m, l))
    BY <1>1, <2>1 DEF LevelPoolIs, NoRepeat, Has
  <2>5. Cardinality({i \in DOMAIN w : w[i] = l}) = IF Has(w, l) THEN 1 ELSE 0
    BY <2>4, CountedIn
  <2>6. \A x : x \in H <=> x \in LevelKeys /\ m.level_index[x] = l
    BY <2>2 DEF Holds
  <2>7. ASSUME NEW x \in H, NEW y \in H PROVE x = y
    <3>1. PICK s \in Side, p \in Prices : x = <<s, p>>
      BY <2>6 DEF LevelKeys
    <3>2. l = m.level_index[<<s, p>>]
      BY <2>6, <3>1
    <3>3. \A k \in LevelKeys : m.level_index[k] = l => k = <<s, p>>
      BY <1>1, <2>3, <3>2, FoundLevel
    <3>4. QED
      BY <2>6, <3>1, <3>3
  <2>8. H = {} <=> Unindexed(m, l)
    BY <2>6 DEF Unindexed
  <2>9. Cardinality(H) = IF H = {} THEN 0 ELSE 1
    BY <2>7, OneOrNone
  <2>10. QED
    BY <2>1, <2>2, <2>4, <2>5, <2>8, <2>9
<1>4. QED
    BY <1>2, <1>3 DEF PoolsAccountForEveryCell

(* The links of lists and chains mirror each other.                        *)
LEMMA LinksMirror ==
    ASSUME NEW b, Agrees(m, b, Null, Null)
    PROVE  LinksMirrored
<1>1. PICK lists : Sound(m, lists, Null, Null)
    BY DEF Agrees
<1>2. /\ m \in Memory /\ ListsAre(m, lists) /\ LevelsSound(m) /\ NoneIdle(m, lists, Null)
    BY <1>1 DEF Agrees, Sound
<1>3. PICK chains : ChainsAre(m, chains)
    BY <1>2 DEF LevelsSound
<1>4. ASSUME NEW c \in OrderCells
      PROVE  /\ m.order[c].next # Null => m.order[m.order[c].next].prev = c
             /\ m.order[c].level = Null => m.order[c].prev = Null /\ m.order[c].next = Null
             /\ m.order[c].level # Null =>
                   /\ m.order[c].prev = Null <=> m.level[m.order[c].level].head = c
                   /\ m.order[c].next = Null <=> m.level[m.order[c].level].tail = c
  <2>1. CASE m.order[c].level = Null
    BY <1>2, <2>1 DEF ListsAre
  <2>2. CASE m.order[c].level # Null
    <3>1. PICK l \in LevelCells : l = m.order[c].level
      <4>1. m.order[c] \in OrderCell
        BY <1>2, MemoryFields
      <4>2. QED
        BY <2>2, <4>1 DEF OrderCell
    <3>2. PICK cs : cs = lists[l]
      OBVIOUS
    <3>3. PICK i \in 1 .. Len(cs) : cs[i] = c
      BY <1>2, <2>2, <3>1, <3>2 DEF ListsAre
    <3>4. cs \in Seq(OrderCells) /\ ListIs(m, l, cs)
      BY <1>2, <3>2 DEF ListsAre
    <3>5. \A j \in 1 .. Len(cs) : cs[j] \in OrderCells /\ cs[j] # Null
      BY <3>4, NullIsNoCell
    <3>6. Len(cs) \in Nat /\ 1 \in 1 .. Len(cs) /\ Len(cs) \in 1 .. Len(cs) /\ cs # <<>>
      BY <3>3, <3>4
    <3>7. m.order[c].prev = Null <=> i = 1
      <4>1. m.order[c].prev = IF i = 1 THEN Null ELSE cs[i - 1]
        BY <3>3, <3>4 DEF ListIs
      <4>2. i # 1 => i - 1 \in 1 .. Len(cs)
        BY <3>6
      <4>3. QED
        BY <3>5, <4>1, <4>2
    <3>8. PICK n : n = m.order[c].next
      OBVIOUS
    <3>9. n = IF i = Len(cs) THEN Null ELSE cs[i + 1]
      BY <3>3, <3>4, <3>8 DEF ListIs
    <3>10. i # Len(cs) => i + 1 \in 1 .. Len(cs) /\ i + 1 # 1 /\ (i + 1) - 1 = i
      BY <3>6
    <3>11. n = Null <=> i = Len(cs)
      BY <3>5, <3>9, <3>10
    <3>12. n # Null => m.order[n].prev = c
      <4>1. ASSUME i # Len(cs) PROVE m.order[cs[i + 1]].prev = cs[(i + 1) - 1]
        BY <3>4, <3>10, <4>1 DEF ListIs
      <4>2. QED
        BY <3>3, <3>9, <3>10, <3>11, <4>1
    <3>13. \A j, k \in 1 .. Len(cs) : cs[j] = cs[k] => j = k
      BY <3>4 DEF ListIs
    <3>14. m.level[l].head = cs[1] /\ m.level[l].tail = cs[Len(cs)]
      BY <3>4, <3>6 DEF ListIs
    <3>15. (m.level[l].head = c <=> i = 1) /\ (m.level[l].tail = c <=> i = Len(cs))
      BY <3>3, <3>6, <3>13, <3>14
    <3>16. QED
      BY <2>2, <3>1, <3>7, <3>8, <3>11, <3>12, <3>15
  <2>3. QED
    BY <2>1, <2>2
<1>5. ASSUME NEW l \in LevelCells
      PROVE  /\ m.level[l].next # Null => m.level[m.level[l].next].prev = l
             /\ m.level[l].prev = Null =>
                  (m.level[l].order_count > 0 <=> m.best[m.level[l].side] = l)
  <2>1. PICK s \in Side : s = m.level[l].side
    <3>1. m.level[l] \in LevelCell
      BY <1>2, MemoryFields
    <3>2. QED
      BY <3>1 DEF LevelCell
  <2>2. PICK ch : ch = chains[s]
    OBVIOUS
  <2>3. ChainIs(m, s, ch)
    BY <1>3, <2>2 DEF ChainsAre
  <2>4. /\ Len(ch) \in Nat /\ \A i \in 1 .. Len(ch) : ch[i] # Null
        /\ \A i, j \in 1 .. Len(ch) : ch[i] = ch[j] => i = j
    BY <1>2, <2>3, ChainFacts
  <2>5. m.level[l].order_count = Len(lists[l]) /\ Len(lists[l]) \in Nat
        /\ (m.level[l].order_count = 0 <=> lists[l] = <<>>)
    BY <1>2, ListCells
  <2>6. l # Null
    BY NullIsNoCell
  <2>7. CASE Unindexed(m, l)
    <3>1. m.level[l].next = Null
      BY <1>3, <2>7 DEF ChainsAre
    <3>2. ~ (m.level[l].order_count > 0)
      <4>1. ASSUME m.level[l].order_count > 0 PROVE FALSE
        <5>1. 1 \in 1 .. Len(lists[l])
          BY <2>5, <4>1
        <5>2. QED
          BY <1>1, <1>2, <2>7, <5>1, ListedOrder
      <4>2. QED
        BY <4>1
    <3>3. m.best[s] # l
      <4>1. m.best[s] = IF ch = <<>> THEN Null ELSE ch[1]
        BY <2>3 DEF ChainIs
      <4>2. ASSUME ch # <<>> PROVE ch[1] # l
        <5>1. ch \in Seq(LevelCells)
          BY <2>3 DEF ChainIs
        <5>2. 1 \in 1 .. Len(ch)
          BY <4>2, <5>1, EmptySeq
        <5>3. ~ Unindexed(m, ch[1])
          BY <1>2, <2>3, <5>2, ChainIndexed
        <5>4. QED
          BY <2>7, <5>3
      <4>3. QED
        BY <2>6, <4>1, <4>2
    <3>4. QED
      BY <2>1, <3>1, <3>2, <3>3
  <2>8. CASE ~ Unindexed(m, l)
    <3>1. PICK t \in Side, p \in Prices : m.level_index[<<t, p>>] = l
      BY <2>8 DEF Unindexed, LevelKeys
    <3>2. m.level[l].side = t /\ \E i \in 1 .. Len(chains[t]) : chains[t][i] = l
      BY <1>2, <1>3, <2>6, <3>1, IndexFacts
    <3>3. t = s
      BY <2>1, <3>2
    <3>4. PICK i \in 1 .. Len(ch) : ch[i] = l
      BY <2>2, <3>2, <3>3
    <3>5. 1 \in 1 .. Len(ch) /\ ch # <<>>
      BY <2>4, <3>4
    <3>6. PICK n : n = m.level[l].next
      OBVIOUS
    <3>7. n = IF i = Len(ch) THEN Null ELSE ch[i + 1]
      BY <2>3, <3>4, <3>6 DEF ChainIs
    <3>8. i # Len(ch) => i + 1 \in 1 .. Len(ch) /\ i + 1 # 1 /\ (i + 1) - 1 = i
      BY <2>4
    <3>9. n # Null => m.level[n].prev = l
      <4>1. ASSUME i # Len(ch) PROVE m.level[ch[i + 1]].prev = ch[(i + 1) - 1]
        BY <2>3, <3>8, <4>1 DEF ChainIs
      <4>2. QED
        BY <3>4, <3>7, <3>8, <4>1
    <3>10. m.level[l].prev = Null => i = 1
      <4>1. m.level[l].prev = IF i = 1 THEN Null ELSE ch[i - 1]
        BY <2>3, <3>4 DEF ChainIs
      <4>2. i # 1 => i - 1 \in 1 .. Len(ch)
        BY <2>4
      <4>3. QED
        BY <2>4, <4>1, <4>2
    <3>11. m.best[s] = ch[1]
      BY <2>3, <3>5 DEF ChainIs
    <3>12. m.level[l].order_count > 0
      <4>1. lists[l] # <<>>
        BY <1>2, <2>6, <2>8 DEF NoneIdle
      <4>2. QED
        BY <2>5, <4>1
    <3>13. QED
      BY <2>1, <3>4, <3>6, <3>9, <3>10, <3>11, <3>12
  <2>9. QED
    BY <2>7, <2>8
<1>6. QED
    BY <1>4, <1>5 DEF LinksMirrored

-----------------------------------------------------------------------------
(* What readers and the matcher are told.                                  *)

(* The queue of an indexed level: its orders, their quantities, the front. *)
LevelRead(mem, b, k, l) ==
    /\ b.queue[k] # <<>> /\ Len(b.queue[k]) = mem.level[l].order_count
    /\ LevelQty(b, k) = mem.level[l].total_qty
    /\ Head(b.queue[k]) = mem.order[mem.level[l].head].id

(* What a level in the index caches is right.                              *)
LEMMA QueueRead ==
    ASSUME NEW mem, NEW b, NEW lists, mem \in Memory, b \in Book,
           Sound(mem, lists, Null, Null), OrdersShown(mem, b, Null), QueuesShown(mem, lists, b),
           NEW k \in LevelKeys, NEW l, l = mem.level_index[k], l # Null
    PROVE  LevelRead(mem, b, k, l)
<1>1. l \in LevelCells
    BY MemoryFields
<1>2. PICK cs : cs = lists[l]
    OBVIOUS
<1>3. ListsAre(mem, lists) /\ NoneIdle(mem, lists, Null)
    BY DEF Sound
<1>4. cs \in Seq(OrderCells) /\ ListIs(mem, l, cs) /\ cs # <<>>
  <2>1. cs \in Seq(OrderCells) /\ ListIs(mem, l, cs)
    BY <1>1, <1>2, <1>3 DEF ListsAre
  <2>2. ~ Unindexed(mem, l)
    BY DEF Unindexed
  <2>3. QED
    BY <1>1, <1>2, <1>3, <2>1, <2>2 DEF NoneIdle
<1>5. PICK q : q = b.queue[k]
    OBVIOUS
<1>6. q = IdsOf(mem, cs)
    BY <1>2, <1>5 DEF QueuesShown
<1>7. /\ q \in Seq(Ids) /\ Len(q) = Len(cs) /\ Len(cs) \in Nat
      /\ \A i \in 1 .. Len(cs) : q[i] = mem.order[cs[i]].id
  <2>1. /\ IdsOf(mem, lists[l]) \in Seq(Ids)
        /\ Len(IdsOf(mem, lists[l])) = Len(lists[l]) /\ Len(lists[l]) \in Nat
        /\ \A i \in 1 .. Len(lists[l]) : IdsOf(mem, lists[l])[i] = mem.order[lists[l][i]].id
    BY <1>1, IdsOfFacts
  <2>2. QED
    BY <1>2, <1>6, <2>1
<1>8. Len(cs) # 0 /\ 1 \in 1 .. Len(cs)
    BY <1>4, <1>7, EmptySeq
<1>9. q # <<>> /\ Len(q) = mem.level[l].order_count
  <2>1. mem.level[l].order_count = Len(cs)
    BY <1>4 DEF ListIs
  <2>2. QED
    BY <1>7, <1>8, <2>1
<1>10. LevelQty(b, k) = mem.level[l].total_qty
  <2>1. ASSUME NEW i \in 1 .. Len(cs) PROVE b.orders[q[i]].qty = mem.order[cs[i]].qty
    <3>1. PICK c : c = cs[i]
      OBVIOUS
    <3>2. PICK id : id = mem.order[c].id
      OBVIOUS
    <3>3. c \in OrderCells /\ id \in Ids /\ mem.order_index[id] = c
      BY <1>1, <1>2, <3>1, <3>2, ListedOrder
    <3>4. b.orders[id] = OrderOf(mem.order[c])
      BY <3>3, NullIsNoCell DEF OrdersShown
    <3>5. q[i] = id
      BY <1>7, <3>1, <3>2
    <3>6. QED
      BY <3>1, <3>4, <3>5 DEF OrderOf
  <2>2. [i \in 1 .. Len(q) |-> b.orders[q[i]].qty] = QtysOf(mem, cs)
    BY <1>7, <2>1 DEF QtysOf
  <2>3. LevelQty(b, k) = Total(QtysOf(mem, cs))
    BY <1>5, <2>2 DEF LevelQty
  <2>4. QED
    BY <1>4, <2>3 DEF ListIs
<1>11. Head(q) = mem.order[mem.level[l].head].id
  <2>1. mem.level[l].head = cs[1]
    BY <1>4 DEF ListIs
  <2>2. Head(q) = q[1]
    BY <1>7, <1>8
  <2>3. QED
    BY <1>7, <1>8, <2>1, <2>2
<1>12. QED
    BY <1>5, <1>9, <1>10, <1>11 DEF LevelRead

(* The chain of a side has its prices, best first.                         *)
ChainShows(mem, b, s, ch) ==
    /\ ch \in Seq(LevelCells) /\ Len(ch) \in Nat
    /\ \A i \in 1 .. Len(ch) : mem.level[ch[i]].price \in SidePrices(b, s)
    /\ \A p \in SidePrices(b, s) : \E i \in 1 .. Len(ch) : mem.level[ch[i]].price = p
    /\ \A i, j \in 1 .. Len(ch) :
          i < j => Better(s, mem.level[ch[i]].price, mem.level[ch[j]].price)
    /\ mem.best[s] = IF ch = <<>> THEN Null ELSE ch[1]
    /\ \A i \in 1 .. Len(ch) : /\ mem.level_index[<<s, mem.level[ch[i]].price>>] = ch[i]
                               /\ ch[i] # Null

(* Such a chain is what is read from the best level on.                    *)
LEMMA ChainRead ==
    ASSUME NEW mem, NEW b, Agrees(mem, b, Null, Null), NEW s \in Side
    PROVE  \E ch : ChainShows(mem, b, s, ch) /\ LevelsOf(mem, s) = ch
<1>1. PICK lists : Sound(mem, lists, Null, Null) /\ QueuesShown(mem, lists, b)
                   /\ OrdersShown(mem, b, Null)
    BY DEF Agrees
<1>2. mem \in Memory /\ b \in Book
    BY DEF Agrees
<1>3. PICK chains : ChainsAre(mem, chains)
    BY <1>1 DEF Sound, LevelsSound
<1>4. PICK ch : ch = chains[s]
    OBVIOUS
<1>5. ChainIs(mem, s, ch)
    BY <1>3, <1>4 DEF ChainsAre
<1>6. /\ ch \in Seq(LevelCells) /\ Len(ch) \in Nat
      /\ \A i \in 1 .. Len(ch) : ch[i] # Null /\ mem.level[ch[i]].price \in Prices
    BY <1>2, <1>5, ChainFacts
<1>7. ASSUME NEW i \in 1 .. Len(ch) PROVE mem.level[ch[i]].price \in SidePrices(b, s)
  <2>1. PICK p \in Prices : p = mem.level[ch[i]].price
    BY <1>6
  <2>2. mem.level_index[<<s, p>>] = ch[i] /\ ch[i] # Null
    BY <1>5, <1>6, <2>1 DEF ChainIs
  <2>3. PICK k \in LevelKeys : k = <<s, p>>
    BY DEF LevelKeys
  <2>4. PICK l : l = mem.level_index[k]
    OBVIOUS
  <2>5. l # Null
    BY <2>2, <2>3, <2>4
  <2>6. b.queue[k] # <<>>
    <3>1. LevelRead(mem, b, k, l)
      BY <1>1, <1>2, <2>4, <2>5, QueueRead
    <3>2. QED
      BY <3>1 DEF LevelRead
  <2>7. QED
    BY <2>1, <2>3, <2>6 DEF SidePrices
<1>8. ASSUME NEW p \in SidePrices(b, s) PROVE \E i \in 1 .. Len(ch) : mem.level[ch[i]].price = p
  <2>1. p \in Prices /\ b.queue[<<s, p>>] # <<>>
    BY DEF SidePrices
  <2>2. <<s, p>> \in LevelKeys
    BY <2>1 DEF LevelKeys
  <2>3. mem.level_index[<<s, p>>] # Null
    BY <1>1, <2>1, <2>2 DEF QueuesShown
  <2>4. QED
    BY <1>3, <1>4, <2>1, <2>3 DEF ChainsAre
<1>9. ChainShows(mem, b, s, ch)
    BY <1>5, <1>6, <1>7, <1>8 DEF ChainIs, ChainShows
<1>10. LevelsOf(mem, s) = ch
    BY <1>2, <1>5, ReadLevels
<1>11. QED
    BY <1>9, <1>10

(* The prices along the chain of a side, and the level each one is at.     *)
ChainPrices(mem, ch) == [i \in 1 .. Len(ch) |-> mem.level[ch[i]].price]

(* The prices along the chain are those of the side, best first.           *)
LEMMA ChainRanks ==
    ASSUME NEW mem, NEW b, NEW s \in Side, NEW ch, ChainShows(mem, b, s, ch)
    PROVE  /\ Ranked(s, ChainPrices(mem, ch), SidePrices(b, s))
           /\ Len(ChainPrices(mem, ch)) = Len(ch) /\ Len(ch) \in Nat
           /\ \A i \in 1 .. Len(ch) : ChainPrices(mem, ch)[i] = mem.level[ch[i]].price
<1>1. PICK w : w = ChainPrices(mem, ch)
    OBVIOUS
<1>2. PICK n \in Nat : n = Len(ch)
    BY DEF ChainShows
<1>3. \A i \in 1 .. n : mem.level[ch[i]].price \in SidePrices(b, s)
    BY <1>2 DEF ChainShows
<1>4. w = [i \in 1 .. n |-> mem.level[ch[i]].price]
    BY <1>1, <1>2 DEF ChainPrices
<1>5. w \in Seq(Prices) /\ Len(w) = n
  <2>1. \A i \in 1 .. n : mem.level[ch[i]].price \in Prices
    BY <1>3 DEF SidePrices
  <2>2. w \in [1 .. n -> Prices]
    BY <1>4, <2>1
  <2>3. QED
    BY <2>2
<1>6. \A i \in 1 .. n : w[i] = mem.level[ch[i]].price
    BY <1>4
<1>7. SidePrices(b, s) = {w[i] : i \in 1 .. Len(w)}
  <2>1. ASSUME NEW p \in SidePrices(b, s) PROVE p \in {w[i] : i \in 1 .. Len(w)}
    <3>1. PICK i \in 1 .. n : mem.level[ch[i]].price = p
      BY <1>2 DEF ChainShows
    <3>2. w[i] = p /\ i \in 1 .. Len(w)
      BY <1>5, <1>6, <3>1
    <3>3. QED
      BY <3>2
  <2>2. ASSUME NEW i \in 1 .. Len(w) PROVE w[i] \in SidePrices(b, s)
    BY <1>3, <1>5, <1>6
  <2>3. QED
    BY <2>1, <2>2
<1>8. \A i, j \in 1 .. Len(w) : i < j => Better(s, w[i], w[j])
  <2>1. \A i, j \in 1 .. n :
          i < j => Better(s, mem.level[ch[i]].price, mem.level[ch[j]].price)
    BY <1>2 DEF ChainShows
  <2>2. QED
    BY <1>5, <1>6, <2>1
<1>9. Ranked(s, w, SidePrices(b, s))
    BY <1>5, <1>7, <1>8 DEF Ranked
<1>10. QED
    BY <1>1, <1>2, <1>5, <1>6, <1>9

(* The best level and its front.                                           *)
LEMMA BestRead ==
    ASSUME NEW mem, NEW b, Agrees(mem, b, Null, Null), NEW s \in Side
    PROVE  /\ SidePrices(b, s) = {} <=> mem.best[s] = Null
           /\ CachedBest(mem, s) = BestPrice(b, s)
           /\ SidePrices(b, s) # {} => CachedFront(mem, s) = FrontAtBest(b, s)
<1>1. PICK ch : ChainShows(mem, b, s, ch)
    BY ChainRead
<1>2. PICK w : w = ChainPrices(mem, ch)
    OBVIOUS
<1>3. /\ Ranked(s, w, SidePrices(b, s)) /\ Len(w) = Len(ch) /\ Len(ch) \in Nat
      /\ \A i \in 1 .. Len(ch) : w[i] = mem.level[ch[i]].price
    BY <1>1, <1>2, ChainRanks
<1>4. SidePrices(b, s) = {} <=> Len(ch) = 0
    BY <1>3, RankOf
<1>5. ch \in Seq(LevelCells) /\ mem.best[s] = IF ch = <<>> THEN Null ELSE ch[1]
    BY <1>1 DEF ChainShows
<1>6. CASE Len(ch) = 0
  <2>1. ch = <<>> /\ mem.best[s] = Null /\ SidePrices(b, s) = {}
    BY <1>4, <1>5, <1>6, EmptySeq
  <2>2. QED
    BY <2>1 DEF CachedBest, BestPrice
<1>7. CASE Len(ch) # 0
  <2>1. 1 \in 1 .. Len(ch) /\ ch # <<>>
    BY <1>3, <1>7, EmptySeq
  <2>2. PICK l : l = ch[1]
    OBVIOUS
  <2>3. l # Null /\ mem.best[s] = l /\ SidePrices(b, s) # {}
    BY <1>1, <1>4, <1>5, <1>7, <2>1, <2>2 DEF ChainShows
  <2>4. PICK p : p = mem.level[l].price
    OBVIOUS
  <2>5. w[1] = p
    BY <1>3, <2>1, <2>2, <2>4
  <2>6. (CHOOSE x \in SidePrices(b, s) : \A q \in SidePrices(b, s) : ~ Better(s, q, x)) = w[1]
    BY <1>3, <1>7, RankedBest
  <2>7. BestPrice(b, s) = p
    BY <2>3, <2>5, <2>6 DEF BestPrice
  <2>8. CachedBest(mem, s) = p
    BY <2>3, <2>4 DEF CachedBest
  <2>9. p \in Prices /\ mem.level_index[<<s, p>>] = l
    <3>1. p \in SidePrices(b, s) /\ mem.level_index[<<s, p>>] = l
      BY <1>1, <2>1, <2>2, <2>4 DEF ChainShows
    <3>2. QED
      BY <3>1 DEF SidePrices
  <2>10. PICK k \in LevelKeys : k = <<s, p>>
    BY <2>9 DEF LevelKeys
  <2>11. PICK lists : Sound(mem, lists, Null, Null) /\ QueuesShown(mem, lists, b)
                      /\ OrdersShown(mem, b, Null) /\ mem \in Memory /\ b \in Book
    BY DEF Agrees
  <2>12. PICK v : v = mem.level_index[k]
    OBVIOUS
  <2>13. v # Null /\ v = l
    BY <2>3, <2>9, <2>10, <2>12
  <2>14. Head(b.queue[k]) = mem.order[mem.level[v].head].id
    <3>1. LevelRead(mem, b, k, v)
      BY <2>11, <2>12, <2>13, QueueRead
    <3>2. QED
      BY <3>1 DEF LevelRead
  <2>15. FrontAtBest(b, s) = mem.order[mem.level[l].head].id
    BY <2>7, <2>10, <2>13, <2>14 DEF FrontAtBest
  <2>16. CachedFront(mem, s) = mem.order[mem.level[l].head].id
    BY <2>3 DEF CachedFront
  <2>17. QED
    BY <2>3, <2>7, <2>8, <2>15, <2>16
<1>8. QED
    BY <1>6, <1>7

(* The rows of a side.                                                     *)
LEMMA SideRead ==
    ASSUME NEW mem, NEW b, Agrees(mem, b, Null, Null), NEW s \in Side, NEW depth \in Nat
    PROVE  CachedSide(mem, s, depth) = L2Side(b, s, depth)
<1>1. PICK ch : ChainShows(mem, b, s, ch) /\ LevelsOf(mem, s) = ch
    BY ChainRead
<1>2. PICK w : w = ChainPrices(mem, ch)
    OBVIOUS
<1>3. /\ Ranked(s, w, SidePrices(b, s)) /\ Len(w) = Len(ch)
      /\ \A i \in 1 .. Len(ch) : w[i] = mem.level[ch[i]].price
    BY <1>1, <1>2, ChainRanks
<1>4. PICK n \in Nat : n = Len(ch)
    BY <1>1, <1>2, ChainRanks
<1>5. Cardinality(SidePrices(b, s)) = n
    BY <1>3, <1>4, RankOf
<1>6. PICK d \in Nat : d = IF depth < n THEN depth ELSE n
    OBVIOUS
<1>7. PICK lists : Sound(mem, lists, Null, Null) /\ QueuesShown(mem, lists, b)
                   /\ OrdersShown(mem, b, Null) /\ mem \in Memory /\ b \in Book
    BY DEF Agrees
<1> DEFINE told(l) == [price |-> mem.level[l].price, qty |-> mem.level[l].total_qty,
                       count |-> mem.level[l].order_count]
           row(p) == [price |-> p, qty |-> LevelQty(b, <<s, p>>),
                      count |-> Len(b.queue[<<s, p>>])]
<1>8. ASSUME NEW i \in 1 .. d PROVE told(ch[i]) = row(RowPrice(b, s, i))
  <2>1. i \in 1 .. n /\ i \in 1 .. Len(ch) /\ i \in 1 .. Len(w)
    BY <1>3, <1>4, <1>6
  <2>2. PICK l : l = ch[i]
    OBVIOUS
  <2>3. PICK p : p = mem.level[l].price
    OBVIOUS
  <2>4. RowAt(SidePrices(b, s), s, i) = w[i]
    BY <1>3, <2>1, RankedRow
  <2>5. RowPrice(b, s, i) = p
    BY <1>3, <2>1, <2>2, <2>3, <2>4 DEF RowPrice, RowAt
  <2>6. p \in Prices /\ mem.level_index[<<s, p>>] = l /\ l # Null
    <3>1. p \in SidePrices(b, s) /\ mem.level_index[<<s, p>>] = l /\ l # Null
      BY <1>1, <2>1, <2>2, <2>3 DEF ChainShows
    <3>2. QED
      BY <3>1 DEF SidePrices
  <2>7. PICK k \in LevelKeys : k = <<s, p>>
    BY <2>6 DEF LevelKeys
  <2>8. PICK v : v = mem.level_index[k]
    OBVIOUS
  <2>9. v # Null /\ v = l
    BY <2>6, <2>7, <2>8
  <2>10. Len(b.queue[k]) = mem.level[v].order_count /\ LevelQty(b, k) = mem.level[v].total_qty
    <3>1. LevelRead(mem, b, k, v)
      BY <1>7, <2>8, <2>9, QueueRead
    <3>2. QED
      BY <3>1 DEF LevelRead
  <2>11. row(p) = told(l)
    BY <2>3, <2>7, <2>9, <2>10
  <2> HIDE DEF row, told
  <2>12. QED
    BY <2>2, <2>5, <2>11
<1>9. CachedSide(mem, s, depth) = [i \in 1 .. d |-> told(ch[i])]
    BY <1>1, <1>4, <1>6 DEF CachedSide
<1>10. L2Side(b, s, depth) = [i \in 1 .. d |-> row(RowPrice(b, s, i))]
    BY <1>5, <1>6 DEF L2Side
<1> HIDE DEF row, told
<1>11. QED
    BY <1>8, <1>9, <1>10

(* build_l2_snapshot is L2Snapshot.                                        *)
LEMMA SnapshotRead ==
    ASSUME NEW mem, NEW b, Agrees(mem, b, Null, Null), NEW depth \in Nat
    PROVE  BuildL2Snapshot(mem, depth) = L2Snapshot(b, depth)
<1>1. "Bid" \in Side /\ "Ask" \in Side
    BY DEF Side
<1>2. /\ CachedSide(mem, "Bid", depth) = L2Side(b, "Bid", depth)
      /\ CachedSide(mem, "Ask", depth) = L2Side(b, "Ask", depth)
    BY <1>1, SideRead
<1>3. CachedBest(mem, "Bid") = BestPrice(b, "Bid") /\ CachedBest(mem, "Ask") = BestPrice(b, "Ask")
    BY <1>1, BestRead
<1>4. QED
    BY <1>2, <1>3 DEF BuildL2Snapshot, L2Snapshot

(* A memory that agrees with a book answers every query as the book does.  *)
LEMMA QueriesAgree ==
    ASSUME NEW b, Agrees(m, b, Null, Null)
    PROVE  QueriesMatchOrders
<1>1. AbstractBook = b
    BY ReadBook DEF AbstractBook
<1>2. \A depth \in 1 .. MaxPriceLevels + 1 : BuildL2Snapshot(m, depth) = L2Snapshot(b, depth)
  <2> TAKE depth \in 1 .. MaxPriceLevels + 1
  <2>1. depth \in Nat
    BY BookAssumption
  <2>2. QED
    BY <2>1, SnapshotRead
<1>3. ASSUME NEW s \in Side
      PROVE  CachedFront(m, s) = IF SidePrices(b, s) = {} THEN NoOrder ELSE FrontAtBest(b, s)
  <2>1. CASE SidePrices(b, s) = {}
    <3>1. m.best[s] = Null
      BY <2>1, BestRead
    <3>2. QED
      BY <2>1, <3>1 DEF CachedFront
  <2>2. CASE SidePrices(b, s) # {}
    BY <2>2, BestRead
  <2>3. QED
    BY <2>1, <2>2
<1>4. ASSUME NEW s \in Side, NEW p \in Prices
      PROVE  CachedWouldCross(m, s, p) <=> WouldCross(b, s, p)
  <2>1. PICK x \in Side : x = Opposite(s)
    BY DEF Side, Opposite
  <2>2. (SidePrices(b, x) = {} <=> m.best[x] = Null) /\ CachedBest(m, x) = BestPrice(b, x)
    BY BestRead
  <2>3. QED
    BY <2>1, <2>2 DEF CachedWouldCross, WouldCross
<1>5. QED
    BY <1>1, <1>2, <1>3, <1>4 DEF QueriesMatchOrders

-----------------------------------------------------------------------------
(* The first memory: nothing in it, every cell in its pool.                *)

(* The fields of the first memory.                                         *)
LEMMA BlankFields ==
    /\ Blank \in Memory
    /\ \A c \in OrderCells : Blank.order[c] = BlankOrder
    /\ \A l \in LevelCells : Blank.level[l] = BlankLevel
    /\ Blank.order_pool = [i \in 1 .. MaxOrders |-> i]
    /\ Blank.level_pool = [i \in 1 .. MaxPriceLevels |-> i]
    /\ \A id \in Ids : Blank.order_index[id] = Null
    /\ \A k \in LevelKeys : Blank.level_index[k] = Null
    /\ \A s \in Side : Blank.best[s] = Null
<1>1. BlankOrder \in OrderCell
    BY DEF BlankOrder, OrderCell, Side
<1>2. BlankLevel \in LevelCell
    BY DEF BlankLevel, LevelCell, Side
<1>3. MaxOrders \in Nat /\ MaxPriceLevels \in Nat
    BY BookAssumption
<1>4. /\ [i \in OrderCells |-> i] \in Seq(OrderCells)
      /\ [i \in LevelCells |-> i] \in Seq(LevelCells)
  <2>1. [i \in 1 .. MaxOrders |-> i] \in [1 .. MaxOrders -> 1 .. MaxOrders]
    OBVIOUS
  <2>2. [i \in 1 .. MaxPriceLevels |-> i] \in [1 .. MaxPriceLevels -> 1 .. MaxPriceLevels]
    OBVIOUS
  <2>3. QED
    BY <1>3, <2>1, <2>2 DEF OrderCells, LevelCells
<1>5. /\ [c \in OrderCells |-> BlankOrder] \in [OrderCells -> OrderCell]
      /\ [l \in LevelCells |-> BlankLevel] \in [LevelCells -> LevelCell]
    BY <1>1, <1>2
<1>6. Blank \in Memory
    BY <1>4, <1>5 DEF Blank, Memory
<1>7. QED
    BY <1>6 DEF Blank, OrderCells, LevelCells

(* It holds the empty book.                                                *)
LEMMA BlankAgrees == Agrees(Blank, EmptyBook, Null, Null)
<1>1. PICK mem : mem = Blank
    OBVIOUS
<1>2. /\ mem \in Memory
      /\ \A c \in OrderCells : mem.order[c] = BlankOrder
      /\ \A l \in LevelCells : mem.level[l] = BlankLevel
      /\ mem.order_pool = [i \in 1 .. MaxOrders |-> i]
      /\ mem.level_pool = [i \in 1 .. MaxPriceLevels |-> i]
      /\ \A id \in Ids : mem.order_index[id] = Null
      /\ \A k \in LevelKeys : mem.level_index[k] = Null
      /\ \A s \in Side : mem.best[s] = Null
    BY <1>1, BlankFields
<1>3. /\ EmptyBook \in Book
      /\ \A id \in Ids : EmptyBook.orders[id] = NoOrder
      /\ \A k \in LevelKeys : EmptyBook.queue[k] = <<>>
    BY DEF EmptyBook, Book
<1>4. MaxOrders \in Nat /\ MaxPriceLevels \in Nat
    BY BookAssumption
<1>5. /\ BlankOrder.level = Null /\ BlankOrder.prev = Null /\ BlankOrder.next = Null
      /\ BlankLevel.prev = Null /\ BlankLevel.next = Null /\ BlankLevel.head = Null
      /\ BlankLevel.tail = Null /\ BlankLevel.total_qty = 0 /\ BlankLevel.order_count = 0
    BY DEF BlankOrder, BlankLevel
<1>6. PICK lists : lists = [l \in LevelCells |-> <<>>]
    OBVIOUS
<1>7. ListsAre(mem, lists)
  <2>1. lists \in [LevelCells -> Seq(OrderCells)] /\ \A l \in LevelCells : lists[l] = <<>>
    BY <1>6
  <2>2. ASSUME NEW l \in LevelCells PROVE ListIs(mem, l, <<>>)
    <3>1. Len(<<>>) = 0 /\ \A i \in 1 .. Len(<<>>) : FALSE
      OBVIOUS
    <3>2. QtysOf(mem, <<>>) = <<>>
      BY <3>1 DEF QtysOf
    <3>3. Total(QtysOf(mem, <<>>)) = 0
      BY <3>2, TotalOfNone
    <3>4. mem.level[l] = BlankLevel
      BY <1>2
    <3>5. QED
      BY <1>5, <3>1, <3>3, <3>4 DEF ListIs
  <2>3. QED
    BY <1>2, <1>5, <2>1, <2>2 DEF ListsAre
<1>8. LevelsSound(mem)
  <2>1. PICK chains : chains = [s \in Side |-> <<>>]
    OBVIOUS
  <2>2. chains \in [Side -> Seq(LevelCells)] /\ \A s \in Side : chains[s] = <<>>
    BY <2>1
  <2>3. ASSUME NEW s \in Side PROVE ChainIs(mem, s, <<>>)
    <3>1. \A i \in 1 .. Len(<<>>) : FALSE
      OBVIOUS
    <3>2. mem.best[s] = Null
      BY <1>2
    <3>3. QED
      BY <3>1, <3>2 DEF ChainIs
  <2>4. \A s \in Side, p \in Prices : mem.level_index[<<s, p>>] = Null
    BY <1>2 DEF LevelKeys
  <2>5. ChainsAre(mem, chains)
    BY <1>2, <1>5, <2>2, <2>3, <2>4 DEF ChainsAre
  <2>6. PICK q : q = mem.level_pool
    OBVIOUS
  <2>7. /\ \A i, j \in 1 .. Len(q) : q[i] = q[j] => i = j
        /\ \A l \in LevelCells : \E i \in 1 .. Len(q) : q[i] = l
    BY <1>2, <1>4, <2>6, AllOfThem DEF LevelCells
  <2>8. \A l \in LevelCells : Unindexed(mem, l)
    BY <1>2, NullIsNoCell DEF Unindexed
  <2>9. LevelPoolIs(mem)
    BY <2>6, <2>7, <2>8 DEF LevelPoolIs
  <2>10. QED
    BY <2>5, <2>9 DEF LevelsSound
<1>9. Filed(mem)
    BY <1>2, <1>5 DEF Filed
<1>10. Indexed(mem, Null)
    BY <1>2, <1>5 DEF Indexed
<1>11. OrderPoolIs(mem, Null)
  <2>1. PICK q : q = mem.order_pool
    OBVIOUS
  <2>2. /\ \A i, j \in 1 .. Len(q) : q[i] = q[j] => i = j
        /\ \A c \in OrderCells : \E i \in 1 .. Len(q) : q[i] = c
    BY <1>2, <1>4, <2>1, AllOfThem DEF OrderCells
  <2>3. \A c \in OrderCells : mem.order[c].level = Null /\ c # Null
    BY <1>2, <1>5, NullIsNoCell
  <2>4. QED
    BY <2>1, <2>2, <2>3 DEF OrderPoolIs
<1>12. NoneIdle(mem, lists, Null)
    BY <1>2, NullIsNoCell DEF NoneIdle, Unindexed
<1>13. OrdersShown(mem, EmptyBook, Null)
    BY <1>2, <1>3 DEF OrdersShown
<1>14. QueuesShown(mem, lists, EmptyBook)
    BY <1>2, <1>3 DEF QueuesShown
<1>15. Agrees(mem, EmptyBook, Null, Null)
    BY <1>2, <1>3, <1>7, <1>8, <1>9, <1>10, <1>11, <1>12, <1>13, <1>14 DEF Agrees, Sound
<1>16. QED
    BY <1>1, <1>15

-----------------------------------------------------------------------------
(* The linked book on its own, and both books side by side.                *)

(* The invariant of the linked book on its own.                            *)
LinkedInv == Agrees(m, AbstractBook, Null, Null) /\ answer \in BOOLEAN

(* The memory is read as the book it agrees with.                          *)
LEMMA ReadAgain ==
    ASSUME NEW b, Agrees(m, b, Null, Null)
    PROVE  AbstractBook = b
BY ReadBook DEF AbstractBook

(* And so is the memory after a step.                                      *)
LEMMA ReadAgainAfter ==
    ASSUME NEW b, Agrees(m', b, Null, Null)
    PROVE  AbstractBook' = b
BY ReadBook DEF AbstractBook

(* The invariant holds at first.                                           *)
LEMMA LinkedInitInv == LinkedInit => LinkedInv /\ AbstractBook = EmptyBook /\ answer = TRUE
<1> SUFFICES ASSUME LinkedInit PROVE LinkedInv /\ AbstractBook = EmptyBook /\ answer = TRUE
    OBVIOUS
<1>1. Agrees(m, EmptyBook, Null, Null) /\ answer = TRUE
    BY BlankAgrees DEF LinkedInit
<1>2. AbstractBook = EmptyBook
    BY <1>1, ReadAgain
<1>3. QED
    BY <1>1, <1>2 DEF LinkedInv

(* The answers of the price-time book.                                     *)
LEMMA AnswersAreBoolean ==
    ASSUME NEW b, NEW id, NEW s, NEW p, NEW qty
    PROVE  /\ AddOrder(b, id, s, p, qty).ok \in BOOLEAN
           /\ ModifyOrder(b, id, p, qty).ok \in BOOLEAN
           /\ CancelOrder(b, id).ok \in BOOLEAN
           /\ ExecuteOrder(b, id, qty).ok \in BOOLEAN
<1>1. \A x : Done(x).ok = TRUE /\ Rejected(x).ok = FALSE
    BY DEF Done, Rejected
<1>2. AddOrder(b, id, s, p, qty).ok \in BOOLEAN
    BY <1>1 DEF AddOrder
<1>3. ModifyOrder(b, id, p, qty).ok \in BOOLEAN
    BY <1>1 DEF ModifyOrder
<1>4. CancelOrder(b, id).ok \in BOOLEAN
    BY <1>1 DEF CancelOrder
<1>5. ExecuteOrder(b, id, qty).ok \in BOOLEAN
    BY <1>1 DEF ExecuteOrder
<1>6. QED
    BY <1>2, <1>3, <1>4, <1>5

(* Every call of the linked book is that call of the book it is read as.   *)
Same(r) == Agrees(m', r.book, Null, Null) /\ answer' = r.ok /\ answer' \in BOOLEAN

(* Each call of the linked book is the same call of the book it agrees     *)
(* with.                                                                   *)
LEMMA LinkedSteps ==
    ASSUME NEW b, Agrees(m, b, Null, Null), NEW id \in Ids
    PROVE  /\ \A s \in Side, p \in Prices, qty \in Quantities :
                 LinkedAdd(id, s, p, qty) => Same(AddOrder(b, id, s, p, qty))
           /\ \A p \in Prices, qty \in Quantities :
                 LinkedModify(id, p, qty) => Same(ModifyOrder(b, id, p, qty))
           /\ LinkedCancel(id) => Same(CancelOrder(b, id))
           /\ \A fill \in Quantities : LinkedExecute(id, fill) => Same(ExecuteOrder(b, id, fill))
<1>1. ASSUME NEW s \in Side, NEW p \in Prices, NEW qty \in Quantities, LinkedAdd(id, s, p, qty)
      PROVE  Same(AddOrder(b, id, s, p, qty))
  <2>1. PICK r : r = AddOrder(b, id, s, p, qty)
    OBVIOUS
  <2>2. qty \in Int
    BY BookAssumption
  <2>3. Agrees(m', r.book, Null, Null) /\ answer' = r.ok
    BY <1>1, <2>1, <2>2, AddAgrees, Zenon
  <2>4. r.ok \in BOOLEAN
    BY <2>1, AnswersAreBoolean
  <2>5. QED
    BY <2>1, <2>3, <2>4, Zenon DEF Same
<1>2. ASSUME NEW p \in Prices, NEW qty \in Quantities, LinkedModify(id, p, qty)
      PROVE  Same(ModifyOrder(b, id, p, qty))
  <2>1. PICK r : r = ModifyOrder(b, id, p, qty)
    OBVIOUS
  <2>2. qty \in Int
    BY BookAssumption
  <2>3. Agrees(m', r.book, Null, Null) /\ answer' = r.ok
    BY <1>2, <2>1, <2>2, ModifyAgrees, Zenon
  <2>4. r.ok \in BOOLEAN
    BY <2>1, AnswersAreBoolean
  <2>5. QED
    BY <2>1, <2>3, <2>4, Zenon DEF Same
<1>3. ASSUME LinkedCancel(id)
      PROVE  Same(CancelOrder(b, id))
  <2>1. PICK r : r = CancelOrder(b, id)
    OBVIOUS
  <2>2. Agrees(m', r.book, Null, Null) /\ answer' = r.ok
    BY <1>3, <2>1, CancelAgrees, Zenon
  <2>3. r.ok \in BOOLEAN
    BY <2>1, AnswersAreBoolean
  <2>4. QED
    BY <2>1, <2>2, <2>3, Zenon DEF Same
<1>4. ASSUME NEW fill \in Quantities, LinkedExecute(id, fill)
      PROVE  Same(ExecuteOrder(b, id, fill))
  <2>1. PICK r : r = ExecuteOrder(b, id, fill)
    OBVIOUS
  <2>2. fill \in Int
    BY BookAssumption
  <2>3. Agrees(m', r.book, Null, Null) /\ answer' = r.ok
    BY <1>4, <2>1, <2>2, ExecuteAgrees, Zenon
  <2>4. r.ok \in BOOLEAN
    BY <2>1, AnswersAreBoolean
  <2>5. QED
    BY <2>1, <2>3, <2>4, Zenon DEF Same
<1>5. QED
    BY <1>1, <1>2, <1>3, <1>4

(* Such a call leaves the invariant true and returns what the book         *)
(* returns.                                                                *)
LEMMA SameReturns ==
    ASSUME NEW r, Same(r)
    PROVE  LinkedInv' /\ AbstractBook' = r.book /\ answer' = r.ok
<1>1. Agrees(m', r.book, Null, Null) /\ answer' = r.ok /\ answer' \in BOOLEAN
    BY DEF Same
<1>2. AbstractBook' = r.book
    BY <1>1, ReadAgainAfter
<1>3. QED
    BY <1>1, <1>2 DEF LinkedInv

(* Cardinality, in the instance of PriceTimeBook.                          *)
LEMMA SameCounts == \A S : PTB!Cardinality(S) = Cardinality(S)
    BY DEF PTB!Cardinality, Cardinality

(* The operations as the instance of PriceTimeBook has them.               *)
LEMMA SameOps ==
    ASSUME NEW b, NEW id, NEW s, NEW p, NEW qty
    PROVE  /\ PTB!AddOrder(b, id, s, p, qty) = AddOrder(b, id, s, p, qty)
           /\ PTB!ModifyOrder(b, id, p, qty) = ModifyOrder(b, id, p, qty)
           /\ PTB!CancelOrder(b, id) = CancelOrder(b, id)
           /\ PTB!ExecuteOrder(b, id, qty) = ExecuteOrder(b, id, qty)
           /\ PTB!Side = Side /\ PTB!EmptyBook = EmptyBook
<1>1. /\ PTB!Side = Side /\ PTB!LevelKeys = LevelKeys
      /\ \A x : PTB!Resting(x) = Resting(x)
      /\ \A x : PTB!LevelOf(x) = LevelOf(x)
      /\ \A x : PTB!Done(x) = Done(x) /\ PTB!Rejected(x) = Rejected(x)
    BY DEF PTB!Side, Side, PTB!LevelKeys, LevelKeys, PTB!Resting, Resting, PTB!LevelOf, LevelOf,
           PTB!Done, Done, PTB!Rejected, Rejected
<1>2. \A x, k : PTB!RoomAtLevel(x, k) <=> RoomAtLevel(x, k)
  <2>1. \A x : PTB!Levels(x) = Levels(x)
    BY <1>1 DEF PTB!Levels, Levels
  <2>2. QED
    BY <2>1, SameCounts, Zenon DEF PTB!RoomAtLevel, RoomAtLevel
<1>3. \A x, y, o : PTB!AppendOrder(x, y, o) = AppendOrder(x, y, o)
    BY <1>1, Zenon DEF PTB!AppendOrder, AppendOrder
<1>4. \A x, y : PTB!OffLevel(x, y) = OffLevel(x, y)
  <2>1. \A q, y : PTB!WithoutId(q, y) = WithoutId(q, y)
    BY DEF PTB!WithoutId, WithoutId, PTB!Place, Place, PTB!RemoveAt, RemoveAt
  <2>2. QED
    BY <1>1, <2>1, Zenon DEF PTB!OffLevel, OffLevel
<1>5. \A x, y : PTB!Dropped(x, y) = Dropped(x, y)
    BY <1>4, Zenon DEF PTB!Dropped, Dropped
<1>6. \A x, y, z : PTB!Resized(x, y, z) = Resized(x, y, z)
    BY Zenon DEF PTB!Resized, Resized
<1>7. PTB!AddOrder(b, id, s, p, qty) = AddOrder(b, id, s, p, qty)
  <2>1. PTB!RoomAtLevel(b, <<s, p>>) <=> RoomAtLevel(b, <<s, p>>)
    BY <1>2
  <2>2. PTB!Resting(b) = Resting(b)
    BY <1>1
  <2>3. CASE /\ id \notin Resting(b) /\ Cardinality(Resting(b)) < MaxOrders
             /\ RoomAtLevel(b, <<s, p>>)
    BY <1>1, <1>3, <2>1, <2>2, <2>3, SameCounts, Zenon DEF PTB!AddOrder, AddOrder
  <2>4. CASE ~ (/\ id \notin Resting(b) /\ Cardinality(Resting(b)) < MaxOrders
                /\ RoomAtLevel(b, <<s, p>>))
    BY <1>1, <2>1, <2>2, <2>4, SameCounts, Zenon DEF PTB!AddOrder, AddOrder
  <2>5. QED
    BY <2>3, <2>4, Zenon
<1>8. PTB!ModifyOrder(b, id, p, qty) = ModifyOrder(b, id, p, qty)
    BY <1>1, <1>2, <1>3, <1>4, <1>6, Zenon DEF PTB!ModifyOrder, ModifyOrder
<1>9. PTB!CancelOrder(b, id) = CancelOrder(b, id)
    BY <1>1, <1>5, Zenon DEF PTB!CancelOrder, CancelOrder
<1>10. PTB!ExecuteOrder(b, id, qty) = ExecuteOrder(b, id, qty)
    BY <1>1, <1>5, <1>6, Zenon DEF PTB!ExecuteOrder, ExecuteOrder
<1>11. PTB!EmptyBook = EmptyBook
    BY <1>1 DEF PTB!EmptyBook, EmptyBook
<1>12. QED
    BY <1>1, <1>7, <1>8, <1>9, <1>10, <1>11

(* Every step keeps the invariant and is a step of the price-time book.    *)
LEMMA LinkedStep ==
    ASSUME LinkedInv, [LinkedNext]_linkedVars
    PROVE  LinkedInv' /\ [PTB!Next]_(PTB!vars)
<1>1. CASE LinkedNext
  <2>1. PICK id \in Ids :
            \/ \E s \in Side, p \in Prices, qty \in Quantities : LinkedAdd(id, s, p, qty)
            \/ \E p \in Prices, qty \in Quantities : LinkedModify(id, p, qty)
            \/ LinkedCancel(id)
            \/ \E fill \in Quantities : LinkedExecute(id, fill)
    BY <1>1 DEF LinkedNext
  <2>2. PICK b : b = AbstractBook
    OBVIOUS
  <2>3. Agrees(m, b, Null, Null)
    BY <2>2 DEF LinkedInv
  <2>4. CASE \E s \in Side, p \in Prices, qty \in Quantities : LinkedAdd(id, s, p, qty)
    <3>1. PICK s \in Side, p \in Prices, qty \in Quantities : LinkedAdd(id, s, p, qty)
      BY <2>4
    <3>2. Same(AddOrder(b, id, s, p, qty))
      BY <2>3, <3>1, LinkedSteps
    <3>3. LinkedInv' /\ PTB!Add(id, s, p, qty)
      BY <2>2, <3>2, SameReturns, SameOps, Zenon DEF PTB!Add, PTB!Returns
    <3>4. QED
      BY <3>3, SameOps, Zenon DEF PTB!Next
  <2>5. CASE \E p \in Prices, qty \in Quantities : LinkedModify(id, p, qty)
    <3>1. PICK p \in Prices, qty \in Quantities : LinkedModify(id, p, qty)
      BY <2>5
    <3>2. Same(ModifyOrder(b, id, p, qty))
      BY <2>3, <3>1, LinkedSteps
    <3>3. LinkedInv' /\ PTB!Modify(id, p, qty)
      BY <2>2, <3>2, SameReturns, SameOps, Zenon DEF PTB!Modify, PTB!Returns
    <3>4. QED
      BY <3>3, SameOps, Zenon DEF PTB!Next
  <2>6. CASE LinkedCancel(id)
    <3>1. Same(CancelOrder(b, id))
      BY <2>3, <2>6, LinkedSteps
    <3>2. LinkedInv' /\ PTB!Cancel(id)
      BY <2>2, <3>1, SameReturns, SameOps, Zenon DEF PTB!Cancel, PTB!Returns
    <3>3. QED
      BY <3>2, SameOps, Zenon DEF PTB!Next
  <2>7. CASE \E fill \in Quantities : LinkedExecute(id, fill)
    <3>1. PICK fill \in Quantities : LinkedExecute(id, fill)
      BY <2>7
    <3>2. Same(ExecuteOrder(b, id, fill))
      BY <2>3, <3>1, LinkedSteps
    <3>3. LinkedInv' /\ PTB!Execute(id, fill)
      BY <2>2, <3>2, SameReturns, SameOps, Zenon DEF PTB!Execute, PTB!Returns
    <3>4. QED
      BY <3>3, SameOps, Zenon DEF PTB!Next
  <2>8. QED
    BY <2>1, <2>4, <2>5, <2>6, <2>7
<1>2. CASE UNCHANGED linkedVars
  <2>1. m' = m /\ answer' = answer
    BY <1>2 DEF linkedVars
  <2>2. AbstractBook' = AbstractBook
    BY <2>1 DEF AbstractBook
  <2>3. LinkedInv'
    BY <2>1, <2>2, Zenon DEF LinkedInv
  <2>4. UNCHANGED PTB!vars
    BY <2>1, <2>2, Zenon DEF PTB!vars
  <2>5. QED
    BY <2>3, <2>4
<1>3. QED
    BY <1>1, <1>2

(* The linked book implements the price-time book: every call of           *)
(* order_book.hpp is that call of the book its memory is read as.          *)
THEOREM LinkedBookImplementsPriceTimeBook == LinkedSpec => ImplementsPriceTimeBook
<1>1. LinkedInit => LinkedInv /\ PTB!Init
    BY LinkedInitInv, SameOps DEF PTB!Init
<1>2. LinkedInv /\ [LinkedNext]_linkedVars => LinkedInv' /\ [PTB!Next]_(PTB!vars)
    BY LinkedStep
<1>3. QED
    BY <1>1, <1>2, PTL DEF LinkedSpec, ImplementsPriceTimeBook, PTB!Spec

(* The invariant of both books side by side.                               *)
BooksInv == Agrees(m, book, Null, Null) /\ answer = ok /\ answer \in BOOLEAN

(* It holds at first,                                                      *)
LEMMA BooksInitInv == BooksInit => BooksInv
<1>1. BooksInit => m = Blank /\ answer = TRUE /\ book = EmptyBook /\ ok = TRUE
    BY DEF BooksInit, Init, LinkedInit
<1>2. QED
    BY <1>1, BlankAgrees DEF BooksInv

(* every step of both books keeps it,                                      *)
LEMMA BooksStep ==
    ASSUME BooksInv, [BooksNext]_bookVars
    PROVE  BooksInv'
<1>1. CASE BooksNext
  <2>1. PICK id \in Ids :
            \/ \E s \in Side, p \in Prices, qty \in Quantities : BothAdd(id, s, p, qty)
            \/ \E p \in Prices, qty \in Quantities : BothModify(id, p, qty)
            \/ BothCancel(id)
            \/ \E fill \in Quantities : BothExecute(id, fill)
    BY <1>1 DEF BooksNext
  <2>2. Agrees(m, book, Null, Null)
    BY DEF BooksInv
  <2>3. ASSUME NEW r, Returns(r), Same(r) PROVE BooksInv'
    BY <2>3, Zenon DEF Returns, Same, BooksInv
  <2>4. CASE \E s \in Side, p \in Prices, qty \in Quantities : BothAdd(id, s, p, qty)
    <3>1. PICK s \in Side, p \in Prices, qty \in Quantities : BothAdd(id, s, p, qty)
      BY <2>4
    <3>2. Same(AddOrder(book, id, s, p, qty))
      BY <2>2, <3>1, LinkedSteps DEF BothAdd
    <3>3. QED
      BY <2>3, <3>1, <3>2, Zenon DEF BothAdd, Add
  <2>5. CASE \E p \in Prices, qty \in Quantities : BothModify(id, p, qty)
    <3>1. PICK p \in Prices, qty \in Quantities : BothModify(id, p, qty)
      BY <2>5
    <3>2. Same(ModifyOrder(book, id, p, qty))
      BY <2>2, <3>1, LinkedSteps DEF BothModify
    <3>3. QED
      BY <2>3, <3>1, <3>2, Zenon DEF BothModify, Modify
  <2>6. CASE BothCancel(id)
    <3>1. Same(CancelOrder(book, id))
      BY <2>2, <2>6, LinkedSteps DEF BothCancel
    <3>2. QED
      BY <2>3, <2>6, <3>1, Zenon DEF BothCancel, Cancel
  <2>7. CASE \E fill \in Quantities : BothExecute(id, fill)
    <3>1. PICK fill \in Quantities : BothExecute(id, fill)
      BY <2>7
    <3>2. Same(ExecuteOrder(book, id, fill))
      BY <2>2, <3>1, LinkedSteps DEF BothExecute
    <3>3. QED
      BY <2>3, <3>1, <3>2, Zenon DEF BothExecute, Execute
  <2>8. QED
    BY <2>1, <2>4, <2>5, <2>6, <2>7
<1>2. CASE UNCHANGED bookVars
  <2>1. m' = m /\ answer' = answer /\ book' = book /\ ok' = ok
    BY <1>2 DEF bookVars, vars, linkedVars
  <2>2. QED
    BY <2>1, Zenon DEF BooksInv
<1>3. QED
    BY <1>1, <1>2

(* and so it always holds.                                                 *)
LEMMA BooksInvHolds == BooksSpec => []BooksInv
<1>1. BooksInv /\ [BooksNext]_bookVars => BooksInv'
    BY BooksStep
<1>2. QED
    BY BooksInitInv, <1>1, PTL DEF BooksSpec

(* order_book.hpp gives every call the answer the price-time book gives,   *)
(* and holds the same orders in the same queues after it.                  *)
THEOREM TheLinkedBookIsTheBook == BooksSpec => []LinkedBookIsTheBook
<1>1. BooksInv => LinkedBookIsTheBook
    BY ReadAgain DEF BooksInv, LinkedBookIsTheBook
<1>2. QED
    BY BooksInvHolds, <1>1, PTL

(* The links, the pools and the indexes of the memory fit each other.      *)
THEOREM MemoryIsSound == BooksSpec => []MemorySound
<1>1. BooksInv => LinkedTypeOK
    BY DEF BooksInv, Agrees, LinkedTypeOK
<1>2. BooksInv => LinksMirrored /\ PoolsAccountForEveryCell
    BY LinksMirror, PoolsAccount DEF BooksInv
<1>3. BooksInv => MemorySound
    BY <1>1, <1>2 DEF MemorySound
<1>4. QED
    BY BooksInvHolds, <1>3, PTL

(* What the L2 view, front_at_best and would_cross are told is what rests. *)
THEOREM QueriesAreRight == BooksSpec => []QueriesMatchOrders
<1>1. BooksInv => QueriesMatchOrders
    BY QueriesAgree DEF BooksInv
<1>2. QED
    BY BooksInvHolds, <1>1, PTL
===============================================================================
