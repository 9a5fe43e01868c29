----------------------------- MODULE BoundedFifo -----------------------------
(***************************************************************************)
(* What the command queue promises: items come out once each, in the order *)
(* they went in, and at most Capacity of them are inside.                  *)
(***************************************************************************)
EXTENDS Naturals, Sequences

CONSTANTS Values, Capacity

VARIABLE q

Init == q = <<>>

Push(v) == Len(q) < Capacity /\ q' = Append(q, v)

Pop == q # <<>> /\ q' = Tail(q)

Next == (\E v \in Values : Push(v)) \/ Pop

Spec == Init /\ [][Next]_q
=============================================================================
