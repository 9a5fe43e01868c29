---------------------------- MODULE PoolAllocator ----------------------------
(***************************************************************************)
(* PoolAllocator<T, Capacity> (src/include/memory/pool_allocator.hpp): a   *)
(* stack of free nodes linked by index, whose head is moved by compare-    *)
(* and-swap. One atomic access is one step; a weak compare-and-swap may    *)
(* fail although the head is the one expected.                             *)
(*                                                                         *)
(* OrderBook uses its pools from the one thread that owns the book; which  *)
(* threads acquire and which release is a parameter here.                  *)
(***************************************************************************)
EXTENDS FiniteSets, Links

CONSTANTS Threads,      \* threads that use the pool
          Acquirers,    \* the ones among them that acquire
          PoolCapacity \* number of nodes

ASSUME PoolAssumption ==
    /\ PoolCapacity \in Nat \ {0}
    /\ IsFiniteSet(Threads) /\ Acquirers \subseteq Threads

VARIABLES free_head, next, allocated,
          pc, head, link, node,   \* per thread: place and locals
          uses                    \* history: how many owners a node has

shared == <<free_head, next, allocated>>
locals == <<pc, head, link, node>>
poolVars == <<shared, locals, uses>>

Nodes == 0 .. PoolCapacity - 1
Nil == -1
Links == Nodes \union {Nil}

PoolInit == /\ free_head = 0
            /\ next = [i \in Nodes |-> IF i + 1 < PoolCapacity THEN i + 1 ELSE Nil]
            /\ allocated = 0
            /\ pc = [t \in Threads |-> "idle"]
            /\ head = [t \in Threads |-> Nil]
            /\ link = [t \in Threads |-> Nil]
            /\ node = [t \in Threads |-> Nil]
            /\ uses = [i \in Nodes |-> 0]

Goto(t, where) == pc' = [pc EXCEPT ![t] = where]

-----------------------------------------------------------------------------
(* acquire.                                                                *)

(* The head is Nil, and nullptr is returned, or the loop is entered.       *)
Loop(t, h) == Goto(t, IF h = Nil THEN "idle" ELSE "next")

Acquire(t) ==
    /\ t \in Acquirers /\ pc[t] = "idle"
    /\ head' = [head EXCEPT ![t] = free_head]
    /\ Loop(t, free_head)
    /\ UNCHANGED <<shared, link, node, uses>>

LoadNext(t) ==
    /\ pc[t] = "next"
    /\ link' = [link EXCEPT ![t] = next[head[t]]]
    /\ Goto(t, "take")
    /\ UNCHANGED <<shared, head, node, uses>>

(* Mutant: the head is not compared with the one loaded. *)
TakeBlindly(t) ==
    /\ pc[t] = "take" /\ free_head # Nil
    /\ free_head' = link[t]
    /\ uses' = [uses EXCEPT ![head[t]] = @ + 1]
    /\ Goto(t, "taken")
    /\ UNCHANGED <<next, allocated, head, link, node>>

Take(t) ==
    /\ pc[t] = "take" /\ free_head = head[t]
    /\ free_head' = link[t]
    /\ uses' = [uses EXCEPT ![head[t]] = @ + 1]
    /\ Goto(t, "taken")
    /\ UNCHANGED <<next, allocated, head, link, node>>

TakeFails(t) ==
    /\ pc[t] = "take"
    /\ head' = [head EXCEPT ![t] = free_head]
    /\ Loop(t, free_head)
    /\ UNCHANGED <<shared, link, node, uses>>

CountTaken(t) ==
    /\ pc[t] = "taken"
    /\ allocated' = allocated + 1
    /\ Goto(t, "idle")
    /\ UNCHANGED <<free_head, next, head, link, node, uses>>

-----------------------------------------------------------------------------
(* release, of a node in use.                                              *)

Release(t, n) ==
    /\ pc[t] = "idle" /\ uses[n] > 0
    /\ \A u \in Threads : pc[u] = "taken" => head[u] # n   \* acquire has returned it
    /\ uses' = [uses EXCEPT ![n] = @ - 1]
    /\ node' = [node EXCEPT ![t] = n]
    /\ head' = [head EXCEPT ![t] = free_head]
    /\ Goto(t, "link")
    /\ UNCHANGED <<shared, link>>

StoreNext(t) ==
    /\ pc[t] = "link"
    /\ next' = [next EXCEPT ![node[t]] = head[t]]
    /\ Goto(t, "put")
    /\ UNCHANGED <<free_head, allocated, head, link, node, uses>>

Put(t) ==
    /\ pc[t] = "put" /\ free_head = head[t]
    /\ free_head' = node[t]
    /\ Goto(t, "put_done")
    /\ UNCHANGED <<next, allocated, head, link, node, uses>>

PutFails(t) ==
    /\ pc[t] = "put"
    /\ head' = [head EXCEPT ![t] = free_head]
    /\ Goto(t, "link")
    /\ UNCHANGED <<shared, link, node, uses>>

CountPut(t) ==
    /\ pc[t] = "put_done"
    /\ allocated' = allocated - 1
    /\ Goto(t, "idle")
    /\ UNCHANGED <<free_head, next, head, link, node, uses>>

PoolNext == \E t \in Threads :
                \/ Acquire(t) \/ LoadNext(t) \/ Take(t) \/ TakeFails(t) \/ CountTaken(t)
                \/ \E n \in Nodes : Release(t, n)
                \/ StoreNext(t) \/ Put(t) \/ PutFails(t) \/ CountPut(t)

PoolSpec == PoolInit /\ [][PoolNext]_poolVars

-----------------------------------------------------------------------------
Places == {"idle", "next", "take", "taken", "link", "put", "put_done"}

PoolTypeOK == /\ free_head \in Links /\ next \in [Nodes -> Links]
              /\ allocated \in Nat
              /\ pc \in [Threads -> Places]
              /\ head \in [Threads -> Links] /\ link \in [Threads -> Links]
              /\ node \in [Threads -> Links]
              /\ uses \in [Nodes -> Nat]

(* No node is handed to two owners.                                        *)
OneOwner == \A n \in Nodes : uses[n] <= 1

(* The free list, read from its head.                                      *)
FreeList == Walk(free_head, next, Nil, PoolCapacity)

InUse == {n \in Nodes : uses[n] > 0}

(* With nobody in the middle of a call, every node is in use or free, once,*)
(* and allocated() counts the ones in use.                                 *)
NothingLeaks ==
    (\A t \in Threads : pc[t] = "idle") =>
        /\ {FreeList[i] : i \in DOMAIN FreeList} = Nodes \ InUse
        /\ Len(FreeList) = PoolCapacity - Cardinality(InUse)
        /\ allocated = Cardinality(InUse)

(* acquire and release take and put nodes one at a time at the top of a    *)
(* stack, however their loads and compare-and-swaps interleave: what       *)
(* OrderBook.tla takes its pools to be.                                    *)
Stack == INSTANCE FreeStack WITH Capacity <- PoolCapacity, free <- FreeList, used <- InUse
ImplementsFreeStack == Stack!Spec

(* The pool hands each node to one owner and loses none, and allocated()   *)
(* is right between calls (pool_allocator.hpp:33).                         *)
PoolKeepsItsNodes == ImplementsFreeStack /\ [](PoolTypeOK /\ OneOwner /\ NothingLeaks)
=============================================================================
