------------------------------ MODULE FreeStack ------------------------------
(***************************************************************************)
(* What a PoolAllocator promises, and what OrderBook.tla takes its two     *)
(* pools to be: a stack of the free cells, and the cells in use.           *)
(***************************************************************************)
EXTENDS Integers, Sequences

CONSTANT Capacity

VARIABLES free, used

vars == <<free, used>>

Cells == 0 .. Capacity - 1

Init == /\ free = [i \in 1 .. Capacity |-> i - 1]
        /\ used = {}

Acquire == /\ free # <<>>
           /\ used' = used \union {Head(free)}
           /\ free' = Tail(free)

(* Handed back, a cell is first in nobody's hands, then free.              *)
HandBack(c) == c \in used /\ used' = used \ {c} /\ UNCHANGED free

Release(c) == /\ c \notin used
              /\ \A i \in DOMAIN free : free[i] # c
              /\ free' = <<c>> \o free
              /\ UNCHANGED used

Next == Acquire \/ \E c \in Cells : HandBack(c) \/ Release(c)

Spec == Init /\ [][Next]_vars
=============================================================================
