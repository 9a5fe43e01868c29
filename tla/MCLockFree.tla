----------------------------- MODULE MCLockFree -----------------------------
(* What threads share without a lock, one part at a time in a behaviour:   *)
(* the view of the book (L2BookView: a snapshot of two words, published by *)
(* the consumer and by a replay), the ring (SPSCQueue: two values, two     *)
(* slots, counters that wrap twice within the pushes made) and the pool    *)
(* (PoolAllocator: a thread that acquires and releases, one that only      *)
(* releases, three nodes). The parts not in use stay as they are.          *)
EXTENDS L2BookView, SPSCQueue, PoolAllocator

CONSTANTS w1, w2, v1, v2, t1, t2

VARIABLE part   \* the part in use

TwoWriters == {w1, w2}
TwoValues == {v1, v2}
TwoFields == {"bids", "asks"}
TwoThreads == {t1, t2}
OneAcquirer == {t1}

ASSUME RingAssumption

allVars == <<part, viewVars, vars, poolVars>>

LockFreeInit == part \in {"view", "ring", "pool"} /\ ViewInit /\ Init /\ PoolInit

ViewOnly == part = "view" /\ UNCHANGED <<part, vars, poolVars>>
RingOnly == part = "ring" /\ UNCHANGED <<part, viewVars, poolVars>>
PoolOnly == part = "pool" /\ UNCHANGED <<part, viewVars, vars>>

LockFreeNext == \/ ViewNext /\ ViewOnly
                \/ Next /\ RingOnly
                \/ PoolNext /\ PoolOnly

(* The fairness of SPSCQueue.FairSpec: the consumer polls, the producer    *)
(* may stop for good.                                                      *)
LockFreeSpec == /\ LockFreeInit /\ [][LockFreeNext]_allVars
                /\ WF_allVars(Consume /\ RingOnly)
=============================================================================
