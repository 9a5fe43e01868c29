------------------------------ MODULE OrderBook ------------------------------
(***************************************************************************)
(* OrderBook<MaxOrders, MaxPriceLevels> as it is built: two pools of cells *)
(* with their free lists, two indexes, the levels of a side linked through *)
(* prev and next from the best one on, and the orders of a level linked    *)
(* through prev and next from head to tail. It implements PriceTimeBook.   *)
(*                                                                         *)
(* All of it is one value m, the memory of the book. The helpers are the   *)
(* code's own: each takes a memory and returns the memory it leaves.       *)
(***************************************************************************)
EXTENDS BookOps, Links

VARIABLES m,     \* the memory
          answer \* what the last call returned

linkedVars == <<m, answer>>

OrderCells == 1 .. MaxOrders
LevelCells == 1 .. MaxPriceLevels
Null == 0

OrderCell == [id : Ids \union {Null}, price : Prices \union {0}, qty : Int, side : Side,
              level : LevelCells \union {Null},
              prev : OrderCells \union {Null}, next : OrderCells \union {Null}]

LevelCell == [price : Prices \union {0}, side : Side, total_qty : Int, order_count : Nat,
              head : OrderCells \union {Null}, tail : OrderCells \union {Null},
              prev : LevelCells \union {Null}, next : LevelCells \union {Null}]

BlankOrder == [id |-> Null, price |-> 0, qty |-> 0, side |-> "Bid",
               level |-> Null, prev |-> Null, next |-> Null]

BlankLevel == [price |-> 0, side |-> "Bid", total_qty |-> 0, order_count |-> 0,
               head |-> Null, tail |-> Null, prev |-> Null, next |-> Null]

Memory == [order       : [OrderCells -> OrderCell],
           level       : [LevelCells -> LevelCell],
           order_pool  : Seq(OrderCells),              \* free cells, next to acquire first
           level_pool  : Seq(LevelCells),
           order_index : [Ids -> OrderCells \union {Null}],
           level_index : [LevelKeys -> LevelCells \union {Null}],
           best        : [Side -> LevelCells \union {Null}]]

Blank == [order       |-> [c \in OrderCells |-> BlankOrder],
          level       |-> [l \in LevelCells |-> BlankLevel],
          order_pool  |-> [i \in OrderCells |-> i],
          level_pool  |-> [i \in LevelCells |-> i],
          order_index |-> [id \in Ids |-> Null],
          level_index |-> [k \in LevelKeys |-> Null],
          best        |-> [s \in Side |-> Null]]

-----------------------------------------------------------------------------
(* PriceLevel: the list of orders of one level.                            *)

PushBack(mem, l, c) ==
    LET v == mem.level[l]
        t == v.tail
        onto(x) == IF x = c THEN [mem.order[x] EXCEPT !.level = l, !.prev = t, !.next = Null]
                   ELSE IF x = t THEN [mem.order[x] EXCEPT !.next = c]
                   ELSE mem.order[x]
    IN  [mem EXCEPT
           !.order = [x \in OrderCells |-> onto(x)],
           !.level[l] = [v EXCEPT !.head = IF t = Null THEN c ELSE v.head, !.tail = c,
                                  !.total_qty = v.total_qty + mem.order[c].qty,
                                  !.order_count = v.order_count + 1]]

(* The cells of orders without c in the list between before and after.     *)
Bypassed(mem, c, before, after) ==
    [x \in OrderCells |->
        IF x = c THEN [mem.order[x] EXCEPT !.level = Null, !.prev = Null, !.next = Null]
        ELSE IF x = before THEN [mem.order[x] EXCEPT !.next = after]
        ELSE IF x = after THEN [mem.order[x] EXCEPT !.prev = before]
        ELSE mem.order[x]]

(* Mutant: the tail of the list is left alone. *)
UnlinkKeepingTail(mem, l, c) ==
    LET v == mem.level[l]
        o == mem.order[c]
    IN  [mem EXCEPT
           !.order = Bypassed(mem, c, o.prev, o.next),
           !.level[l] = [v EXCEPT !.head = IF o.prev = Null THEN o.next ELSE v.head,
                                  !.total_qty = v.total_qty - o.qty,
                                  !.order_count = v.order_count - 1]]

Unlink(mem, l, c) ==
    LET v == mem.level[l]
        o == mem.order[c]
    IN  [mem EXCEPT
           !.order = Bypassed(mem, c, o.prev, o.next),
           !.level[l] = [v EXCEPT !.head = IF o.prev = Null THEN o.next ELSE v.head,
                                  !.tail = IF o.next = Null THEN o.prev ELSE v.tail,
                                  !.total_qty = v.total_qty - o.qty,
                                  !.order_count = v.order_count - 1]]

SetQty(mem, c, qty) ==
    LET o == mem.order[c]
        v == mem.level[o.level]
    IN  [mem EXCEPT
           !.order[c] = [o EXCEPT !.qty = qty],
           !.level[o.level] = [v EXCEPT !.total_qty = v.total_qty + (qty - o.qty)]]

EmptyLevel(mem, l) == mem.level[l].order_count = 0

-----------------------------------------------------------------------------
(* The chain of levels of one side.                                        *)

(* Mutant: a new level always goes right behind the best one. *)
BehindTheBest(mem, s, p) == mem.best[s]

(* Where the loop of insert_level_sorted stops: the worst level better     *)
(* than price p. A chain is no longer than the pool, nor is the loop.      *)
LastBetter(mem, s, p) ==
    LET cur[hops \in 0 .. MaxPriceLevels] ==
            IF hops = 0 THEN mem.best[s]
            ELSE LET n == mem.level[cur[hops - 1]].next
                 IN  IF n # Null /\ Better(s, mem.level[n].price, p) THEN n ELSE cur[hops - 1]
    IN  cur[MaxPriceLevels]

(* The chain with l between before and after; Null for no level there.     *)
Chained(mem, l, before, after) ==
    [x \in LevelCells |->
        IF x = l THEN [mem.level[x] EXCEPT !.prev = before, !.next = after]
        ELSE IF x = before THEN [mem.level[x] EXCEPT !.next = l]
        ELSE IF x = after THEN [mem.level[x] EXCEPT !.prev = l]
        ELSE mem.level[x]]

InsertLevelSorted(mem, l) ==
    LET s == mem.level[l].side
        p == mem.level[l].price
        b == mem.best[s]
        first  == b = Null \/ Better(s, p, mem.level[b].price)
        before == IF first THEN Null ELSE LastBetter(mem, s, p)
        after  == IF first THEN b ELSE mem.level[before].next
    IN  [mem EXCEPT !.level = Chained(mem, l, before, after),
                    !.best[s] = IF first THEN l ELSE b]

(* The memory and the level, Null when the pool of levels is used up.      *)
GetOrCreateLevel(mem, s, p) ==
    LET found == mem.level_index[<<s, p>>]
        l == Head(mem.level_pool)
        acquired == [mem EXCEPT !.level_pool = Tail(mem.level_pool),
                                !.level[l] = [BlankLevel EXCEPT !.price = p, !.side = s]]
    IN  IF found # Null THEN [mem |-> mem, level |-> found]
        ELSE IF mem.level_pool = <<>> THEN [mem |-> mem, level |-> Null]
        ELSE [mem |-> [InsertLevelSorted(acquired, l) EXCEPT !.level_index[<<s, p>>] = l],
              level |-> l]

(* The chain without l between before and after; l is blank but for its    *)
(* side, which remove_level leaves.                                        *)
Unchained(mem, l, before, after) ==
    [x \in LevelCells |->
        IF x = l THEN [BlankLevel EXCEPT !.side = mem.level[x].side]
        ELSE IF x = before THEN [mem.level[x] EXCEPT !.next = after]
        ELSE IF x = after THEN [mem.level[x] EXCEPT !.prev = before]
        ELSE mem.level[x]]

RemoveLevel(mem, l) ==
    LET v == mem.level[l]
    IN  [mem EXCEPT !.level = Unchained(mem, l, v.prev, v.next),
                    !.best[v.side] = IF v.prev = Null THEN v.next ELSE @,
                    !.level_index[<<v.side, v.price>>] = Null,
                    !.level_pool = Cons(l, @)]

UpdateBest(mem, s, l) ==
    IF mem.best[s] = Null \/ Better(s, mem.level[l].price, mem.level[mem.best[s]].price)
    THEN [mem EXCEPT !.best[s] = l]
    ELSE mem

RemoveIfEmpty(mem, l) == IF EmptyLevel(mem, l) THEN RemoveLevel(mem, l) ELSE mem

ReleaseOrder(mem, c) == [mem EXCEPT !.order_pool = Cons(c, @)]

(* cancel_order and a complete fill: off the level, out of the index, back *)
(* to the pool, blank.                                                     *)
DropOrder(mem, id) ==
    LET c == mem.order_index[id]
        l == mem.order[c].level
        off == [Unlink(mem, l, c) EXCEPT !.order_index[id] = Null]
    IN  ReleaseOrder([RemoveIfEmpty(off, l) EXCEPT !.order[c] = BlankOrder], c)

-----------------------------------------------------------------------------
LinkedInit == /\ m = Blank
              /\ answer = TRUE

Fail == /\ answer' = FALSE
        /\ UNCHANGED m

(* add_order. Without a level the order's cell goes back with what was     *)
(* written to it.                                                          *)
LinkedAdd(id, s, p, qty) ==
    IF m.order_index[id] # Null \/ m.order_pool = <<>> THEN Fail
    ELSE LET c == Head(m.order_pool)
             o == [m.order[c] EXCEPT !.id = id, !.price = p, !.qty = qty, !.side = s]
             filled == [m EXCEPT !.order_pool = Tail(m.order_pool), !.order[c] = o]
             got == GetOrCreateLevel(filled, s, p)
         IN  IF got.level = Null
             THEN /\ m' = ReleaseOrder(got.mem, c)
                  /\ answer' = FALSE
             ELSE /\ m' = UpdateBest([PushBack(got.mem, got.level, c) EXCEPT
                                        !.order_index[id] = c], s, got.level)
                  /\ answer' = TRUE

Priced(mem, c, p, qty) ==
    [mem EXCEPT !.order[c] = [mem.order[c] EXCEPT !.price = p, !.qty = qty]]

(* Mutant: a move that finds no level leaves the order off the book. *)
MoveOrderNoWayBack(mem, c, p, qty) ==
    LET o   == mem.order[c]
        off == Unlink(mem, o.level, c)
        got == GetOrCreateLevel(RemoveIfEmpty(off, o.level), o.side, p)
    IN  IF got.level # Null
        THEN Done(UpdateBest(PushBack(Priced(got.mem, c, p, qty), got.level, c),
                             o.side, got.level))
        ELSE Rejected(got.mem)

(* modify_order at another price, and its way back when there is no level  *)
(* for that price.                                                         *)
MoveOrder(mem, c, p, qty) ==
    LET o   == mem.order[c]
        wasBest == mem.best[o.side] = o.level
        off == Unlink(mem, o.level, c)
        gone == EmptyLevel(off, o.level)
        got == GetOrCreateLevel(RemoveIfEmpty(off, o.level), o.side, p)
        back == IF gone THEN GetOrCreateLevel(got.mem, o.side, o.price)
                        ELSE [mem |-> got.mem, level |-> o.level]
    IN  IF got.level # Null
        THEN Done(UpdateBest(PushBack(Priced(got.mem, c, p, qty), got.level, c),
                             o.side, got.level))
        ELSE IF back.level = Null THEN Rejected(back.mem)
        ELSE LET restored == PushBack(back.mem, back.level, c)
             IN  Rejected(IF wasBest \/ restored.best[o.side] = Null
                          THEN UpdateBest(restored, o.side, back.level)
                          ELSE restored)

LinkedModify(id, p, qty) ==
    LET c == m.order_index[id]
    IN  IF c = Null THEN Fail
        ELSE IF p = m.order[c].price
        THEN /\ m' = SetQty(m, c, qty)
             /\ answer' = TRUE
        ELSE LET r == MoveOrder(m, c, p, qty)
             IN  /\ m' = r.book
                 /\ answer' = r.ok

LinkedCancel(id) ==
    IF m.order_index[id] = Null THEN Fail
    ELSE /\ m' = DropOrder(m, id)
         /\ answer' = TRUE

LinkedExecute(id, fill) ==
    LET c == m.order_index[id]
    IN  IF c = Null THEN Fail
        ELSE IF fill <= 0 \/ fill > m.order[c].qty THEN Fail
        ELSE /\ m' = IF fill = m.order[c].qty
                     THEN DropOrder(m, id)
                     ELSE SetQty(m, c, m.order[c].qty - fill)
             /\ answer' = TRUE

LinkedNext == \E id \in Ids :
            \/ \E s \in Side, p \in Prices, qty \in Quantities : LinkedAdd(id, s, p, qty)
            \/ \E p \in Prices, qty \in Quantities : LinkedModify(id, p, qty)
            \/ LinkedCancel(id)
            \/ \E fill \in Quantities : LinkedExecute(id, fill)

LinkedSpec == LinkedInit /\ [][LinkedNext]_linkedVars

-----------------------------------------------------------------------------
(* What the memory means: the lists read from head to tail, the chain of a *)
(* side read from its best level.                                          *)

OrdersAt(mem, l) ==
    Walk(mem.level[l].head, [c \in OrderCells |-> mem.order[c].next], Null, MaxOrders)

LevelsOf(mem, s) ==
    Walk(mem.best[s], [l \in LevelCells |-> mem.level[l].next], Null, MaxPriceLevels)

OrderOf(o) == [side |-> o.side, price |-> o.price, qty |-> o.qty]

IdsAt(mem, l) ==
    LET cells == OrdersAt(mem, l)
    IN  [i \in 1 .. Len(cells) |-> mem.order[cells[i]].id]

BookIn(mem) ==
    [orders |-> [id \in Ids |-> IF mem.order_index[id] = Null THEN NoOrder
                                ELSE OrderOf(mem.order[mem.order_index[id]])],
     queue  |-> [k \in LevelKeys |-> IF mem.level_index[k] = Null THEN <<>>
                                     ELSE IdsAt(mem, mem.level_index[k])]]

AbstractBook == BookIn(m)

PTB == INSTANCE PriceTimeBook WITH book <- AbstractBook, ok <- answer

(* build_l2_snapshot, from the totals the levels cache.                    *)
CachedSide(mem, s, depth) ==
    LET chain == LevelsOf(mem, s)
        row(l) == [price |-> mem.level[l].price, qty |-> mem.level[l].total_qty,
                   count |-> mem.level[l].order_count]
    IN  [i \in 1 .. IF depth < Len(chain) THEN depth ELSE Len(chain) |-> row(chain[i])]

CachedBest(mem, s) == IF mem.best[s] = Null THEN InvalidPrice ELSE mem.level[mem.best[s]].price

BuildL2Snapshot(mem, depth) ==
    [bids |-> CachedSide(mem, "Bid", depth), asks |-> CachedSide(mem, "Ask", depth),
     best_bid |-> CachedBest(mem, "Bid"), best_ask |-> CachedBest(mem, "Ask")]

(* front_at_best and would_cross, from the best level of a side.           *)
CachedFront(mem, s) ==
    IF mem.best[s] = Null THEN NoOrder ELSE mem.order[mem.level[mem.best[s]].head].id

CachedWouldCross(mem, s, limit) ==
    /\ mem.best[Opposite(s)] # Null
    /\ ~ Better(s, CachedBest(mem, Opposite(s)), limit)

-----------------------------------------------------------------------------
LinkedTypeOK == m \in Memory /\ answer \in BOOLEAN

(* Every call of the linked book is the same call of PriceTimeBook, with   *)
(* the same answer: the lists, the chains, the restore after a failed      *)
(* modify and the pool limits lose no order, keep its place and never      *)
(* refuse a call the price-time book would take.                           *)
ImplementsPriceTimeBook == PTB!Spec

(* What readers and the matcher are told is what rests: the L2 view (its   *)
(* quantities and counts cached per level, its rows in the order of the    *)
(* chain), the order front_at_best hands the matcher, and would_cross are  *)
(* those of the orders in the index, though each is kept up by hand.       *)
QueriesMatchOrders ==
    /\ \A depth \in 1 .. MaxPriceLevels + 1 :
          BuildL2Snapshot(m, depth) = L2Snapshot(AbstractBook, depth)
    /\ \A s \in Side :
          CachedFront(m, s) = IF SidePrices(AbstractBook, s) = {} THEN NoOrder
                           ELSE FrontAtBest(AbstractBook, s)
    /\ \A s \in Side, p \in Prices : CachedWouldCross(m, s, p) <=> WouldCross(AbstractBook, s, p)

(* No cell is leaked, handed out twice or released twice: each is in its   *)
(* free list once, or is held by exactly one index entry.                  *)
Holds(index, cells, c) == {x \in cells : index[x] = c}

PoolsAccountForEveryCell ==
    /\ \A c \in OrderCells :
          Cardinality({i \in DOMAIN m.order_pool : m.order_pool[i] = c})
            + Cardinality(Holds(m.order_index, Ids, c)) = 1
    /\ \A l \in LevelCells :
          Cardinality({i \in DOMAIN m.level_pool : m.level_pool[i] = l})
            + Cardinality(Holds(m.level_index, LevelKeys, l)) = 1

(* The back links mirror the forward ones, a tail is the end of its list,  *)
(* a chain starts at a level with no prev, and a cell that left a list     *)
(* points nowhere.                                                         *)
LinksMirrored ==
    /\ \A c \in OrderCells : LET o == m.order[c] IN
          /\ o.next # Null => m.order[o.next].prev = c
          /\ o.level = Null => o.prev = Null /\ o.next = Null
          /\ o.level # Null => /\ o.prev = Null <=> m.level[o.level].head = c
                               /\ o.next = Null <=> m.level[o.level].tail = c
    /\ \A l \in LevelCells : LET v == m.level[l] IN
          /\ v.next # Null => m.level[v.next].prev = l
          /\ v.prev = Null => (v.order_count > 0 <=> m.best[v.side] = l)

(* The memory keeps its shape: back links mirror the forward ones, and     *)
(* every cell is free once or held once, also after refused calls, where   *)
(* chains are long and where cells are scarce (order_book.hpp:40, 76, 303).*)
MemorySound == LinkedTypeOK /\ LinksMirrored /\ PoolsAccountForEveryCell
=============================================================================
