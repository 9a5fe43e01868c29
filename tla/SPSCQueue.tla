------------------------------ MODULE SPSCQueue ------------------------------
(***************************************************************************)
(* SPSCQueue<T, Capacity> (src/include/queue/spsc_queue.hpp), the ring     *)
(* between the thread that submits commands and the thread that owns the   *)
(* book, one memory access at a time. It implements BoundedFifo.           *)
(*                                                                         *)
(* head_ and tail_ are stored with relaxed order after the sequence of the *)
(* slot, so another thread may see the two stores in either order: they    *)
(* are the two members of a set of stores still to be made.                *)
(* Counters are words of Word values, and wrap.                            *)
(***************************************************************************)
EXTENDS Naturals, Sequences, FiniteSets

CONSTANTS Values,     \* what is queued
          Nothing,    \* raw storage, holding no object
          Capacity,   \* number of slots
          Word,       \* number of values of size_t: 2^64
          MaxPushes   \* bound: how many pushes are made

(* Capacity is a power of two (static_assert) and so divides Word.         *)
RingAssumption ==
    /\ Capacity \in Nat /\ Capacity >= 2
    /\ Word \in Nat /\ Word > Capacity /\ Word % Capacity = 0
    /\ MaxPushes \in Nat
    /\ Nothing \notin Values

VARIABLES sequence, storage,   \* the slots
          head_, tail_,
          ppc, pitem, ptail, pstores,   \* producer: where it is in emplace, its locals
          cpc, citem, chead, cstores,   \* consumer: where it is in try_pop, its locals
          pret, cret,          \* what the last try_push and try_pop returned
          size,                \* what the consumer's last size() returned
          pushed, popped       \* history: slots published, slots given back

slots == <<sequence, storage>>
producer == <<ppc, pitem, ptail, pstores, pret, pushed>>
consumer == <<cpc, citem, chead, cstores, cret, popped>>
vars == <<slots, head_, tail_, producer, consumer, size>>

Slots == 0 .. Capacity - 1
Words == 0 .. Word - 1

At(n) == n % Capacity          \* n & kMask
Plus(n, d) == (n + d) % Word
Minus(n, d) == (n + Word - d) % Word

Init == /\ sequence = [i \in Slots |-> i]
        /\ storage = [i \in Slots |-> Nothing]
        /\ head_ = 0 /\ tail_ = 0
        /\ ppc = "idle" /\ pitem = Nothing /\ ptail = 0 /\ pstores = {} /\ pret = FALSE
        /\ cpc = "idle" /\ citem = Nothing /\ chead = 0 /\ cstores = {} /\ cret = FALSE
        /\ size = 0
        /\ pushed = 0 /\ popped = 0

-----------------------------------------------------------------------------
(* The producer: emplace.                                                  *)

(* Mutant: full by the counters, and off by one. *)
TryPushByCounters(v) ==
    /\ ppc = "idle" /\ pushed < MaxPushes
    /\ IF Minus(tail_, head_) <= Capacity
       THEN /\ ppc' = "writing"
            /\ pitem' = v
            /\ ptail' = tail_
            /\ UNCHANGED pret
       ELSE /\ pret' = FALSE
            /\ UNCHANGED <<ppc, pitem, ptail>>
    /\ UNCHANGED <<slots, head_, tail_, pstores, pushed, consumer, size>>

TryPush(v) ==
    /\ ppc = "idle" /\ pushed < MaxPushes
    /\ IF sequence[At(tail_)] = tail_
       THEN /\ ppc' = "writing"
            /\ pitem' = v
            /\ ptail' = tail_
            /\ UNCHANGED pret
       ELSE /\ pret' = FALSE
            /\ UNCHANGED <<ppc, pitem, ptail>>
    /\ UNCHANGED <<slots, head_, tail_, pstores, pushed, consumer, size>>

Write ==
    /\ ppc = "writing"
    /\ storage' = [storage EXCEPT ![At(ptail)] = pitem]
    /\ ppc' = "storing"
    /\ pstores' = {"sequence", "tail"}
    /\ UNCHANGED <<sequence, head_, tail_, pitem, ptail, pret, pushed, consumer, size>>

(* After the last store emplace returns true.                              *)
ProducerStored(what) ==
    /\ what \in pstores
    /\ pstores' = pstores \ {what}
    /\ IF pstores' = {} THEN ppc' = "idle" /\ pret' = TRUE
                        ELSE UNCHANGED <<ppc, pret>>
    /\ UNCHANGED <<pitem, ptail>>

StoreSequence ==
    /\ ProducerStored("sequence")
    /\ sequence' = [sequence EXCEPT ![At(ptail)] = Plus(ptail, 1)]
    /\ pushed' = pushed + 1
    /\ UNCHANGED <<storage, head_, tail_, consumer, size>>

StoreTail ==
    /\ ProducerStored("tail")
    /\ tail_' = Plus(ptail, 1)
    /\ UNCHANGED <<slots, head_, pushed, consumer, size>>

-----------------------------------------------------------------------------
(* The consumer: try_pop, and size, which pending() calls.                 *)

(* Mutant: empty by the counters, without looking at the slot. *)
TryPopByCounters ==
    /\ cpc = "idle"
    /\ IF head_ # tail_
       THEN /\ cpc' = "reading"
            /\ chead' = head_
            /\ UNCHANGED cret
       ELSE /\ cret' = FALSE
            /\ UNCHANGED <<cpc, chead>>
    /\ UNCHANGED <<slots, head_, tail_, citem, cstores, popped, producer, size>>

TryPop ==
    /\ cpc = "idle"
    /\ IF sequence[At(head_)] = Plus(head_, 1)
       THEN /\ cpc' = "reading"
            /\ chead' = head_
            /\ UNCHANGED cret
       ELSE /\ cret' = FALSE
            /\ UNCHANGED <<cpc, chead>>
    /\ UNCHANGED <<slots, head_, tail_, citem, cstores, popped, producer, size>>

MoveOut ==
    /\ cpc = "reading"
    /\ citem' = storage[At(chead)]
    /\ storage' = [storage EXCEPT ![At(chead)] = Nothing]
    /\ cpc' = "storing"
    /\ cstores' = {"sequence", "head"}
    /\ UNCHANGED <<sequence, head_, tail_, chead, cret, popped, producer, size>>

ConsumerStored(what) ==
    /\ what \in cstores
    /\ cstores' = cstores \ {what}
    /\ IF cstores' = {} THEN cpc' = "idle" /\ cret' = TRUE
                        ELSE UNCHANGED <<cpc, cret>>
    /\ UNCHANGED <<citem, chead>>

(* Mutant: the slot is given back one too early in the next lap. *)
ReleaseOffByOne ==
    /\ ConsumerStored("sequence")
    /\ sequence' = [sequence EXCEPT ![At(chead)] = Plus(chead, Capacity - 1)]
    /\ popped' = popped + 1
    /\ UNCHANGED <<storage, head_, tail_, producer, size>>

ReleaseSequence ==
    /\ ConsumerStored("sequence")
    /\ sequence' = [sequence EXCEPT ![At(chead)] = Plus(chead, Capacity)]
    /\ popped' = popped + 1
    /\ UNCHANGED <<storage, head_, tail_, producer, size>>

(* Mutant: head_ does not move on. *)
StoreSameHead ==
    /\ ConsumerStored("head")
    /\ head_' = chead
    /\ UNCHANGED <<slots, tail_, popped, producer, size>>

StoreHead ==
    /\ ConsumerStored("head")
    /\ head_' = Plus(chead, 1)
    /\ UNCHANGED <<slots, tail_, popped, producer, size>>

(* Mutant: the difference the wrong way round. *)
SizeReversed ==
    /\ cpc = "idle"
    /\ size' = Minus(head_, tail_)
    /\ UNCHANGED <<slots, head_, tail_, producer, consumer>>

(* Only the consumer calls size(), so its head_ stays put between the two  *)
(* loads.                                                                  *)
Size ==
    /\ cpc = "idle"
    /\ size' = Minus(tail_, head_)
    /\ UNCHANGED <<slots, head_, tail_, producer, consumer>>

Produce == (\E v \in Values : TryPush(v)) \/ Write \/ StoreSequence \/ StoreTail

Consume == TryPop \/ MoveOut \/ ReleaseSequence \/ StoreHead

Next == Produce \/ Consume \/ Size

Spec == Init /\ [][Next]_vars

(* The consumer thread keeps polling; the producer may stop anywhere, even *)
(* in the middle of a push.                                                *)
FairSpec == Spec /\ WF_vars(Consume)

-----------------------------------------------------------------------------
TypeOK == /\ sequence \in [Slots -> Words] /\ storage \in [Slots -> Values \union {Nothing}]
          /\ head_ \in Words /\ tail_ \in Words
          /\ ppc \in {"idle", "writing", "storing"} /\ ptail \in Words
          /\ cpc \in {"idle", "reading", "storing"} /\ chead \in Words
          /\ pitem \in Values \union {Nothing} /\ citem \in Values \union {Nothing}
          /\ pstores \subseteq {"sequence", "tail"} /\ cstores \subseteq {"sequence", "head"}
          /\ pret \in BOOLEAN /\ cret \in BOOLEAN
          /\ size \in Words
          /\ pushed \in Nat /\ popped \in Nat

(* The storage of a slot is not atomic: the producer constructs only in a  *)
(* slot that holds no object, the consumer moves only out of one that does *)
(* and whose sequence the producer has stored, and the two are never in    *)
(* the same slot, through every wrap of the ring and of the counters.      *)
NoSlotRace ==
    /\ ppc = "writing" => storage[At(ptail)] = Nothing
    /\ cpc = "reading" => storage[At(chead)] # Nothing /\ popped < pushed
    /\ ppc = "writing" /\ cpc = "reading" => At(ptail) # At(chead)

(* What is inside: published and not given back, whichever of the two      *)
(* stores of a push or a pop came first.                                   *)
Inside ==
    [i \in 1 .. pushed - popped |->
        IF i = 1 /\ "sequence" \in cstores THEN citem
        ELSE storage[At(popped + i - 1)]]

Fifo == INSTANCE BoundedFifo WITH q <- Inside

(* Items are handed over once each and in order, and never more than       *)
(* Capacity are inside.                                                    *)
ImplementsFifo == Fifo!Spec

(* A call of try_push or try_pop is refused only by a full or an empty     *)
(* queue: a stale counter or sequence never makes a command wait for       *)
(* nothing.                                                                *)
RefusedOnlyWhenFullOrEmpty ==
    /\ ppc = "idle" /\ pushed - popped # Capacity => sequence[At(tail_)] = tail_
    /\ cpc = "idle" /\ pushed # popped => sequence[At(head_)] = Plus(head_, 1)

(* size() is right but for a push it overlaps: only while the producer has *)
(* published a slot and not yet its tail_ can it wrap to a huge number.    *)
SizeWrapsOnlyDuringPush ==
    [][Size => \/ size' <= Capacity
               \/ pstores = {"tail"}]_vars

(* What is published is taken, even if the producer stops for good: no     *)
(* store of a stalled push can block the consumer.                         *)
PublishedIsTaken == \A n \in 1 .. MaxPushes : pushed >= n ~> popped >= n
=============================================================================
