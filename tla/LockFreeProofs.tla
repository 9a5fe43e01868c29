--------------------------- MODULE LockFreeProofs ---------------------------
(***************************************************************************)
(* What is shared without a lock, proved for every value of the constants. *)
(*                                                                         *)
(* The view of the book, for any set of publishing threads, of words and   *)
(* of snapshots. A publish that no other one overlaps writes to the buffer *)
(* new loads are not sent to and leaves its own snapshot there, whole      *)
(* (WriterInv, PublishedInv); a load that finds it reads a buffer that is  *)
(* left alone until the index has moved once and a publish has begun       *)
(* behind (ReaderInv), whatever overlaps by then.                          *)
(*                                                                         *)
(* The pool: with one thread that acquires, it is a stack of its free      *)
(* nodes. PoolInv says in which place each node is; what the acquiring     *)
(* thread has read of the top of the list stays so (ReadStillTrue), since  *)
(* no other thread takes nodes off the list, and a compare-and-swap that   *)
(* succeeds takes the node it has read.                                    *)
(*                                                                         *)
(* The ring: for any capacity that divides the size of the counters and    *)
(* any number of pushes. Inv says where each of the two threads is in its  *)
(* call, by the slots it has published or given back, and what the         *)
(* sequence of every slot then is: of the Capacity numbers from the first  *)
(* not given back, those published are inside, the others are free. The    *)
(* counters wrap; what a number says of its slot does not depend on how    *)
(* often (the lemmas on %).                                                *)
(***************************************************************************)
EXTENDS L2BookView, PoolAllocator, SPSCQueue, LinksProofs

-----------------------------------------------------------------------------
(* The view, whoever publishes.                                            *)

Reading(w) == wpc[w] # "idle" /\ wslot[w] = rindex

WriterInv ==
    /\ \A w \in Writers :
          /\ wversion[w] <= version
          /\ wpc[w] = "flipping" => wtodo[w] = {}
          /\ wpc[w] # "idle" =>
                \A f \in Fields \ wtodo[w] : w \notin overlapped =>
                    buffers[wslot[w]][f] = wversion[w]
    /\ \A w \in Publishing \ overlapped :
          /\ Publishing = {w}
          /\ wslot[w] = 1 - read_index
          /\ wpc[w] = "flipping" => windex[w] = read_index

PublishedInv ==
    /\ latest <= version
    /\ ~ mixed =>
          /\ \A f \in Fields : buffers[read_index][f] = latest
          /\ \A w \in Publishing : /\ wslot[w] = 1 - read_index
                                   /\ wpc[w] = "flipping" => windex[w] = read_index

(* Of a load that found a publication no other one overlapped.             *)
ReaderInv ==
    rpc = "copying" /\ ~ gotMixed =>
        /\ floor <= version
        /\ \A w \in Writers : Reading(w) => wversion[w] >= floor
        /\ \A f \in Fields : buffers[rindex][f] >= floor
        /\ \A f \in Copied : got[f] >= floor
        /\ flips = 0 => ~ mixed /\ rindex = read_index /\ latest = floor
        /\ flips <= 1 /\ (\A w \in Writers : ~ Reading(w)) =>
              /\ \A f \in Fields : buffers[rindex][f] = floor
              /\ \A f \in Copied : got[f] = floor

ViewInv == ViewTypeOK /\ WriterInv /\ PublishedInv /\ ReaderInv

LEMMA ViewInitInv == ViewInit => ViewInv
<1> SUFFICES ASSUME ViewInit PROVE ViewInv
    OBVIOUS
<1> USE DEF ViewInit
<1>1. ViewTypeOK
  <2>1. 0 \in Versions /\ 0 \in Buffers /\ 0 \in Nat
    BY ViewAssumption DEF Versions, Buffers
  <2>2. mixed \in BOOLEAN /\ gotMixed \in BOOLEAN
    BY Zenon
  <2>3. /\ buffers \in [Buffers -> [Fields -> Versions]] /\ got \in [Fields -> Versions]
        /\ wversion \in [Writers -> Versions]
    BY <2>1
  <2>4. QED
    BY <2>1, <2>2, <2>3 DEF ViewTypeOK
<1>2. Publishing = {}
    BY DEF Publishing
<1>3. WriterInv /\ PublishedInv
    BY <1>2 DEF WriterInv, PublishedInv, Buffers
<1>4. ReaderInv
    BY DEF ReaderInv
<1>5. QED
    BY <1>1, <1>3, <1>4 DEF ViewInv

LEMMA ViewTypes == ViewTypeOK /\ [ViewNext]_viewVars => ViewTypeOK'
<1> SUFFICES ASSUME ViewTypeOK, [ViewNext]_viewVars PROVE ViewTypeOK'
    OBVIOUS
<1> USE DEF ViewTypeOK, Buffers, Versions, reader, writer, published, loaded
<1>1. ASSUME NEW w \in Writers, WriteSlot(w) PROVE ViewTypeOK'
  <2>1. Publishing \subseteq Writers
    BY DEF Publishing
  <2>2. overlapped' \in SUBSET Writers
    BY <1>1, <2>1 DEF WriteSlot
  <2>3. QED
    BY <1>1, <2>2, ViewAssumption DEF WriteSlot
<1>2. ASSUME NEW w \in Writers, NEW f \in Fields, CopyIn(w, f) PROVE ViewTypeOK'
    BY <1>2 DEF CopyIn
<1>3. ASSUME NEW w \in Writers, LoadIndex(w) PROVE ViewTypeOK'
    BY <1>3 DEF LoadIndex
<1>4. ASSUME NEW w \in Writers, Flip(w) PROVE ViewTypeOK'
    BY <1>4 DEF Flip
<1>5. CASE Load
    BY <1>5 DEF Load
<1>6. ASSUME NEW f \in Fields, CopyOut(f) PROVE ViewTypeOK'
    BY <1>6 DEF CopyOut
<1>7. CASE ReturnSnapshot
    BY <1>7 DEF ReturnSnapshot
<1>8. CASE UNCHANGED viewVars
    BY <1>8 DEF viewVars
<1>9. QED
    BY <1>1, <1>2, <1>3, <1>4, <1>5, <1>6, <1>7, <1>8 DEF ViewNext

(* A publish begins: alone in the buffer that is not read, or beside       *)
(* others, which it overlaps.                                              *)
LEMMA PublishBegins ==
    ASSUME ViewInv, ViewTypeOK', NEW w \in Writers, WriteSlot(w)
    PROVE  ViewInv'
<1>1. /\ wpc[w] = "idle" /\ version \in Nat /\ version' = version + 1
      /\ \A u \in Writers : u # w => /\ wversion'[u] = wversion[u] /\ wslot'[u] = wslot[u]
                                     /\ wtodo'[u] = wtodo[u] /\ wpc'[u] = wpc[u]
      /\ wversion'[w] = version + 1 /\ wslot'[w] = 1 - read_index
      /\ wtodo'[w] = Fields /\ wpc'[w] = "copying"
      /\ UNCHANGED <<buffers, read_index, windex, rpc, rindex, rtodo, got, latest, mixed,
                     floor, flips, gotMixed>>
      /\ overlapped' = IF Publishing = {} THEN {} ELSE overlapped \union Publishing \union {w}
    BY DEF WriteSlot, ViewInv, ViewTypeOK, Versions, reader, published, loaded
<1>2. Publishing' = Publishing \union {w}
    BY <1>1 DEF Publishing
<1>3. overlapped \subseteq overlapped' \/ Publishing = {}
    BY <1>1
<1>4. WriterInv'
  <2>1. ASSUME NEW u \in Writers
        PROVE  /\ wversion'[u] <= version'
               /\ wpc'[u] = "flipping" => wtodo'[u] = {}
               /\ wpc'[u] # "idle" =>
                     \A f \in Fields \ wtodo'[u] : u \notin overlapped' =>
                         buffers'[wslot'[u]][f] = wversion'[u]
    <3>1. wversion[u] \in Nat /\ wversion[u] <= version
      BY DEF ViewInv, ViewTypeOK, Versions, WriterInv
    <3>2. CASE u = w
      BY <1>1, <3>2
    <3>3. CASE u # w
      <4>1. /\ wversion'[u] = wversion[u] /\ wpc'[u] = wpc[u] /\ wtodo'[u] = wtodo[u]
            /\ wslot'[u] = wslot[u] /\ buffers' = buffers
        BY <1>1, <3>3
      <4>2. wversion'[u] <= version'
        BY <1>1, <3>1, <4>1
      <4>3. wpc[u] # "idle" => u \in Publishing /\ u \in overlapped'
        BY <1>1 DEF Publishing
      <4>4. QED
        BY <4>1, <4>2, <4>3 DEF ViewInv, WriterInv
    <3>4. QED
      BY <3>2, <3>3
  <2>2. ASSUME NEW u \in Publishing' \ overlapped'
        PROVE  /\ Publishing' = {u}
               /\ wslot'[u] = 1 - read_index'
               /\ wpc'[u] = "flipping" => windex'[u] = read_index'
    <3>1. Publishing = {} /\ u = w
      BY <1>1, <1>2
    <3>2. QED
      BY <1>1, <1>2, <3>1
  <2>3. QED
    BY <2>1, <2>2 DEF WriterInv
<1>5. PublishedInv'
  <2>1. latest' <= version'
    BY <1>1 DEF ViewInv, ViewTypeOK, Versions, PublishedInv
  <2>2. ASSUME ~ mixed, NEW u \in Publishing'
        PROVE  wslot'[u] = 1 - read_index' /\ (wpc'[u] = "flipping" => windex'[u] = read_index')
    BY <1>1, <1>2, <2>2 DEF ViewInv, PublishedInv, Publishing
  <2>3. QED
    BY <1>1, <2>1, <2>2 DEF ViewInv, PublishedInv
<1>6. ReaderInv'
  <2> SUFFICES ASSUME rpc = "copying", ~ gotMixed
               PROVE  /\ floor <= version'
                      /\ \A u \in Writers : Reading(u)' => wversion'[u] >= floor
                      /\ \A f \in Fields : buffers[rindex][f] >= floor
                      /\ \A f \in Copied : got[f] >= floor
                      /\ flips = 0 => ~ mixed /\ rindex = read_index /\ latest = floor
                      /\ flips <= 1 /\ (\A u \in Writers : ~ Reading(u)') =>
                            /\ \A f \in Fields : buffers[rindex][f] = floor
                            /\ \A f \in Copied : got[f] = floor
    BY <1>1 DEF ReaderInv, Copied
  <2>1. ReaderInv /\ floor \in Nat
    BY DEF ViewInv, ViewTypeOK, Versions
  <2>2. floor <= version'
    BY <1>1, <2>1 DEF ReaderInv
  <2>3. \A u \in Writers : u # w => (Reading(u)' <=> Reading(u))
    BY <1>1 DEF Reading
  <2>4. ~ Reading(w)
    BY <1>1 DEF Reading
  <2>5. \A u \in Writers : Reading(u)' => wversion'[u] >= floor
    BY <1>1, <2>1, <2>2, <2>3 DEF ReaderInv
  <2>6. (\A u \in Writers : ~ Reading(u)') => \A u \in Writers : ~ Reading(u)
    BY <2>3, <2>4
  <2>7. QED
    BY <2>1, <2>2, <2>5, <2>6 DEF ReaderInv
<1>7. QED
    BY <1>4, <1>5, <1>6 DEF ViewInv

(* A word is copied in, never into the buffer read while ~ mixed.          *)
LEMMA WordCopiedIn ==
    ASSUME ViewInv, ViewTypeOK', NEW w \in Writers, NEW f \in Fields, CopyIn(w, f)
    PROVE  ViewInv'
<1>1. /\ wpc[w] = "copying" /\ f \in wtodo[w]
      /\ UNCHANGED <<read_index, wpc, wslot, wversion, windex, rpc, rindex, rtodo, got,
                     version, latest, mixed, floor, flips, gotMixed, overlapped>>
      /\ \A u \in Writers : u # w => wtodo'[u] = wtodo[u]
      /\ wtodo'[w] = wtodo[w] \ {f}
    BY DEF CopyIn, ViewInv, ViewTypeOK, reader, published, loaded
<1>2. /\ \A b \in Buffers, g \in Fields :
            buffers'[b][g] = IF b = wslot[w] /\ g = f THEN wversion[w] ELSE buffers[b][g]
      /\ wslot[w] \in Buffers /\ read_index \in Buffers /\ rindex \in Buffers
    BY DEF CopyIn, ViewInv, ViewTypeOK
<1>3. Publishing' = Publishing /\ w \in Publishing
    BY <1>1 DEF Publishing
<1>4. WriterInv'
  <2>1. ASSUME NEW u \in Writers, wpc[u] # "idle", NEW g \in Fields \ wtodo'[u],
               u \notin overlapped
        PROVE  buffers'[wslot[u]][g] = wversion[u]
    <3>1. u = w
      BY <1>3, <2>1 DEF ViewInv, WriterInv, Publishing
    <3>2. CASE g = f
      BY <1>2, <3>1, <3>2
    <3>3. CASE g # f
      BY <1>1, <1>2, <2>1, <3>1, <3>3 DEF ViewInv, WriterInv
    <3>4. QED
      BY <3>2, <3>3
  <2>2. \A u \in Writers : wpc[u] = "flipping" => wtodo'[u] = {}
    BY <1>1 DEF ViewInv, WriterInv
  <2>3. QED
    BY <1>1, <1>3, <2>1, <2>2 DEF ViewInv, WriterInv
<1>5. PublishedInv'
  <2>1. ~ mixed => wslot[w] # read_index
    BY <1>2, <1>3 DEF ViewInv, PublishedInv, Buffers
  <2>2. QED
    BY <1>1, <1>2, <1>3, <2>1 DEF ViewInv, PublishedInv
<1>6. ReaderInv'
  <2> SUFFICES ASSUME rpc = "copying", ~ gotMixed
               PROVE  /\ \A g \in Fields : buffers'[rindex][g] >= floor
                      /\ flips <= 1 /\ (\A u \in Writers : ~ Reading(u)) =>
                            \A g \in Fields : buffers'[rindex][g] = floor
    BY <1>1 DEF ViewInv, ReaderInv, Copied, Reading
  <2>1. wslot[w] = rindex => Reading(w)
    BY <1>1 DEF Reading
  <2>2. QED
    BY <1>2, <2>1 DEF ViewInv, ReaderInv
<1>7. QED
    BY <1>4, <1>5, <1>6 DEF ViewInv

LEMMA IndexLoaded ==
    ASSUME ViewInv, ViewTypeOK', NEW w \in Writers, LoadIndex(w)
    PROVE  ViewInv'
<1>1. /\ wpc[w] = "copying" /\ wtodo[w] = {}
      /\ \A u \in Writers : u # w => windex'[u] = windex[u] /\ wpc'[u] = wpc[u]
      /\ windex'[w] = read_index /\ wpc'[w] = "flipping"
      /\ UNCHANGED <<buffers, read_index, wslot, wtodo, wversion, rpc, rindex, rtodo, got,
                     version, latest, mixed, floor, flips, gotMixed, overlapped>>
    BY DEF LoadIndex, ViewInv, ViewTypeOK, reader, published, loaded
<1>2. Publishing' = Publishing
    BY <1>1 DEF Publishing
<1>3. \A u \in Writers : Reading(u)' <=> Reading(u)
    BY <1>1 DEF Reading
<1>4. WriterInv'
    BY <1>1, <1>2 DEF ViewInv, WriterInv, Publishing
<1>5. PublishedInv'
    BY <1>1, <1>2 DEF ViewInv, PublishedInv, Publishing
<1>6. ReaderInv'
    BY <1>1, <1>3 DEF ViewInv, ReaderInv, Copied
<1>7. QED
    BY <1>4, <1>5, <1>6 DEF ViewInv

(* A publish ends. One that nothing overlapped leaves its own snapshot,    *)
(* whole, and nobody behind it.                                            *)
LEMMA PublishEnds ==
    ASSUME ViewInv, ViewTypeOK', NEW w \in Writers, Flip(w)
    PROVE  ViewInv'
<1>1. /\ wpc[w] = "flipping" /\ read_index' = 1 - windex[w]
      /\ latest' = wversion[w] /\ mixed' = (w \in overlapped) /\ flips' = flips + 1
      /\ \A u \in Writers : u # w => wpc'[u] = wpc[u]
      /\ wpc'[w] = "idle"
      /\ UNCHANGED <<buffers, wslot, wtodo, wversion, windex, rpc, rindex, rtodo, got, version,
                     floor, gotMixed, overlapped>>
    BY DEF Flip, ViewInv, ViewTypeOK, reader
<1>2. Publishing' = Publishing \ {w} /\ w \in Publishing
    BY <1>1 DEF Publishing
<1>3. w \notin overlapped => /\ Publishing' = {} /\ wslot[w] = 1 - read_index
                             /\ windex[w] = read_index
                             /\ \A f \in Fields : buffers[wslot[w]][f] = wversion[w]
    BY <1>1, <1>2 DEF ViewInv, WriterInv
<1>4. WriterInv'
  <2>1. \A u \in Publishing' \ overlapped' : FALSE
    BY <1>1, <1>2 DEF ViewInv, WriterInv
  <2>2. \A u \in Writers :
          /\ wversion'[u] <= version'
          /\ wpc'[u] = "flipping" => wtodo'[u] = {}
          /\ wpc'[u] # "idle" =>
                \A f \in Fields \ wtodo'[u] : u \notin overlapped' =>
                    buffers'[wslot'[u]][f] = wversion'[u]
    BY <1>1 DEF ViewInv, WriterInv
  <2>3. QED
    BY <2>1, <2>2 DEF WriterInv
<1>5. PublishedInv'
    BY <1>1, <1>2, <1>3 DEF ViewInv, PublishedInv, WriterInv
<1>6. ReaderInv'
  <2> SUFFICES ASSUME rpc = "copying", ~ gotMixed
               PROVE  /\ \A u \in Writers : Reading(u)' => wversion[u] >= floor
                      /\ flips' # 0
                      /\ flips' <= 1 /\ (\A u \in Writers : ~ Reading(u)') =>
                            /\ \A f \in Fields : buffers[rindex][f] = floor
                            /\ \A f \in Copied : got[f] = floor
    BY <1>1 DEF ViewInv, ReaderInv, Copied
  <2>1. \A u \in Writers : Reading(u)' => Reading(u)
    BY <1>1 DEF Reading
  <2>2. flips \in Nat
    BY DEF ViewInv, ViewTypeOK
  <2>3. flips' <= 1 => flips = 0
    BY <1>1, <2>2
  <2>4. flips = 0 => \A u \in Writers : ~ Reading(u)
    <3>1. flips = 0 => ~ mixed /\ rindex = read_index
      BY DEF ViewInv, ReaderInv
    <3>2. read_index # 1 - read_index
      BY DEF ViewInv, ViewTypeOK, Buffers
    <3>3. QED
      BY <3>1, <3>2 DEF ViewInv, PublishedInv, Reading, Publishing
  <2>5. flips = 0 => /\ \A f \in Fields : buffers[rindex][f] = floor
                     /\ \A f \in Copied : got[f] = floor
    BY <2>4 DEF ViewInv, ReaderInv
  <2>6. flips' # 0
    BY <1>1, <2>2
  <2>7. \A u \in Writers : Reading(u)' => wversion[u] >= floor
    BY <2>1 DEF ViewInv, ReaderInv
  <2>8. QED
    BY <2>3, <2>5, <2>6, <2>7
<1>7. QED
    BY <1>4, <1>5, <1>6 DEF ViewInv

LEMMA LoadBegins ==
    ASSUME ViewInv, ViewTypeOK', Load
    PROVE  ViewInv'
<1>1. /\ rindex' = read_index /\ rtodo' = Fields /\ floor' = latest /\ gotMixed' = mixed
      /\ flips' = 0 /\ rpc' = "copying"
      /\ UNCHANGED <<buffers, read_index, wpc, wslot, wtodo, wversion, windex, got, version,
                     latest, mixed, overlapped>>
    BY DEF Load, writer, published
<1>2. Publishing' = Publishing
    BY <1>1 DEF Publishing
<1>3. WriterInv' /\ PublishedInv'
    BY <1>1, <1>2 DEF ViewInv, WriterInv, PublishedInv
<1>4. ReaderInv'
  <2> SUFFICES ASSUME ~ mixed
               PROVE  /\ latest <= version
                      /\ \A u \in Writers : ~ Reading(u)'
                      /\ \A f \in Fields : buffers[read_index][f] = latest
                      /\ \A f \in Fields : buffers[read_index][f] >= latest
    BY <1>1 DEF ReaderInv, Copied
  <2>1. \A f \in Fields : buffers[read_index][f] = latest
    BY DEF ViewInv, PublishedInv
  <2>2. latest \in Nat /\ latest <= version
    BY DEF ViewInv, ViewTypeOK, Versions, PublishedInv
  <2>3. read_index # 1 - read_index
    BY DEF ViewInv, ViewTypeOK, Buffers
  <2>4. \A u \in Writers : ~ Reading(u)'
    BY <1>1, <2>3 DEF ViewInv, PublishedInv, Publishing, Reading
  <2>5. QED
    BY <2>1, <2>2, <2>4
<1>5. QED
    BY <1>3, <1>4 DEF ViewInv

LEMMA WordCopiedOut ==
    ASSUME ViewInv, ViewTypeOK', NEW f \in Fields, CopyOut(f)
    PROVE  ViewInv'
<1>1. /\ rpc = "copying" /\ rtodo' = rtodo \ {f}
      /\ \A g \in Fields : got'[g] = IF g = f THEN buffers[rindex][f] ELSE got[g]
      /\ UNCHANGED <<buffers, read_index, wpc, wslot, wtodo, wversion, windex, rpc, rindex,
                     version, latest, mixed, floor, flips, gotMixed, overlapped>>
    BY DEF CopyOut, ViewInv, ViewTypeOK, writer, published, loaded
<1>2. Publishing' = Publishing /\ \A u \in Writers : Reading(u)' <=> Reading(u)
    BY <1>1 DEF Publishing, Reading
<1>3. WriterInv' /\ PublishedInv'
    BY <1>1, <1>2 DEF ViewInv, WriterInv, PublishedInv
<1>4. Copied' \subseteq Copied \union {f} /\ Copied' \subseteq Fields
    BY <1>1 DEF Copied
<1>5. ReaderInv'
    BY <1>1, <1>2, <1>4 DEF ViewInv, ReaderInv
<1>6. QED
    BY <1>3, <1>5 DEF ViewInv

LEMMA ViewNextInv == ViewInv /\ [ViewNext]_viewVars => ViewInv'
<1> SUFFICES ASSUME ViewInv, [ViewNext]_viewVars PROVE ViewInv'
    OBVIOUS
<1>1. ViewTypeOK'
    BY ViewTypes DEF ViewInv
<1>2. CASE ReturnSnapshot
    BY <1>1, <1>2 DEF ReturnSnapshot, writer, published, loaded, ViewInv, WriterInv,
       PublishedInv, ReaderInv, Publishing
<1>3. CASE UNCHANGED viewVars
    BY <1>1, <1>3 DEF viewVars, writer, reader, published, loaded, ViewInv, WriterInv,
       PublishedInv, ReaderInv, Publishing, Reading, Copied
<1>4. QED
    BY <1>1, <1>2, <1>3, PublishBegins, WordCopiedIn, IndexLoaded, PublishEnds, LoadBegins,
       WordCopiedOut DEF ViewNext

LEMMA ViewInvHolds == ViewSpec => []ViewInv
    BY ViewInitInv, ViewNextInv, PTL DEF ViewSpec

(* For any number of publishers: the snapshot of a publish that no other   *)
(* one overlapped stays as it is, for as long as new loads are sent to it. *)
THEOREM PublishedStays == ViewSpec => []PublishedIsImmutable
<1>1. ViewInv => PublishedIsImmutable
  <2> SUFFICES ASSUME ViewInv, ~ mixed PROVE PublishedIsImmutable
    BY DEF PublishedIsImmutable
  <2>1. read_index # 1 - read_index
    BY DEF ViewInv, ViewTypeOK, Buffers
  <2>2. QED
    BY <2>1 DEF ViewInv, PublishedInv, PublishedIsImmutable, Publishing
<1>2. QED
    BY ViewInvHolds, <1>1, PTL

(* For any number of publishers: a load of such a snapshot is torn by no   *)
(* less than two publishes.                                                *)
THEOREM OnePublishTearsNothing == ViewSpec => []TornOnlyByTwoPublishes
<1>1. ViewInv => TornOnlyByTwoPublishes
  <2> SUFFICES ASSUME ViewInv, rpc = "copying", ~ Whole, ~ gotMixed, ~ flips >= 2
               PROVE  flips = 1 /\ \E w \in Writers : wpc[w] # "idle" /\ wslot[w] = rindex
    BY DEF TornOnlyByTwoPublishes
  <2>1. flips \in Nat /\ flips <= 1
    BY DEF ViewInv, ViewTypeOK
  <2>2. PICK w \in Writers : Reading(w)
    BY <2>1 DEF ViewInv, ReaderInv, Whole
  <2>3. flips # 0
    <3>1. read_index # 1 - read_index
      BY DEF ViewInv, ViewTypeOK, Buffers
    <3>2. flips = 0 => ~ mixed /\ rindex = read_index
      BY DEF ViewInv, ReaderInv
    <3>3. QED
      BY <2>2, <3>1, <3>2 DEF ViewInv, PublishedInv, Reading, Publishing
  <2>4. QED
    BY <2>1, <2>2, <2>3 DEF Reading
<1>2. QED
    BY ViewInvHolds, <1>1, PTL

(* For any number of publishers: no word of such a load, torn or not, is   *)
(* out of date.                                                            *)
THEOREM NothingOlder == ViewSpec => []NeverOlderThanLatest
<1>1. ViewInv => NeverOlderThanLatest
    BY DEF ViewInv, ReaderInv, NeverOlderThanLatest
<1>2. QED
    BY ViewInvHolds, <1>1, PTL

-----------------------------------------------------------------------------
(* The pool, with one thread that acquires.                                *)

(* The free list is q: linked from h along nx, no node twice.              *)
Chain(q, h, nx) == /\ q \in Seq(Nodes) /\ Linked(q, h, nx, Nil)
                   /\ \A i, j \in 1 .. Len(q) : q[i] = q[j] => i = j

ListFree(n) == \E i \in 1 .. Len(FreeList) : FreeList[i] = n
Carries(t, n) == pc[t] \in {"link", "put"} /\ node[t] = n
Taking == {t \in Threads : pc[t] = "taken"}
Putting == {t \in Threads : pc[t] \in {"link", "put", "put_done"}}

(* A node is in the free list, in use, or on its way back in the hands of  *)
(* one thread.                                                             *)
InOnePlace(n) ==
    /\ ListFree(n) \/ uses[n] = 1 \/ \E t \in Threads : Carries(t, n)
    /\ ~ (ListFree(n) /\ uses[n] = 1)
    /\ \A t \in Threads : Carries(t, n) =>
          /\ ~ ListFree(n) /\ uses[n] = 0
          /\ \A u \in Threads : Carries(u, n) => u = t

(* What a thread that acquires has read is still so: nobody else takes     *)
(* nodes off the list, and those on it keep their links.                   *)
ReadStillTrue(t) ==
    /\ pc[t] \in {"next", "take", "taken"} => t \in Acquirers /\ head[t] \in Nodes
    /\ pc[t] \in {"next", "take"} => ListFree(head[t])
    /\ pc[t] = "take" => link[t] = next[head[t]]
    /\ pc[t] = "taken" => uses[head[t]] = 1

CarriesANode(t) ==
    /\ pc[t] \in {"link", "put"} => node[t] \in Nodes
    /\ pc[t] = "put" => next[node[t]] = head[t]

Tally == allocated = Cardinality(InUse) - Cardinality(Taking) + Cardinality(Putting)

PoolInv == /\ PoolTypeOK /\ OneOwner
           /\ Chain(FreeList, free_head, next)
           /\ \A n \in Nodes : InOnePlace(n)
           /\ \A t \in Threads : ReadStillTrue(t) /\ CarriesANode(t)
           /\ Tally

LEMMA NodesFacts == IsFiniteSet(Nodes) /\ Cardinality(Nodes) = PoolCapacity
<1>1. PoolCapacity - 1 \in Int /\ 0 \in Int /\ ~ (0 > PoolCapacity - 1)
    BY PoolAssumption
<1>2. (PoolCapacity - 1) - 0 + 1 = PoolCapacity
    BY PoolAssumption
<1>3. QED
    BY <1>1, <1>2, FS_Interval DEF Nodes

LEMMA ChainIsRead ==
    ASSUME NEW q, NEW h, NEW nx, Chain(q, h, nx)
    PROVE  /\ Walk(h, nx, Nil, PoolCapacity) = q
           /\ Len(q) <= PoolCapacity
           /\ LET R == {q[i] : i \in 1 .. Len(q)}
              IN  IsFiniteSet(R) /\ Cardinality(R) = Len(q)
<1> DEFINE R == {q[i] : i \in 1 .. Len(q)}
<1>1. /\ q \in Seq(Nodes) /\ Len(q) \in Nat /\ PoolCapacity \in Nat
      /\ \A i \in 1 .. Len(q) : q[i] \in Nodes
      /\ Nil \notin Nodes
    BY PoolAssumption DEF Chain, Nodes, Nil
<1>2. IsFiniteSet(R) /\ Cardinality(R) = Len(q)
    BY LenOfDistinct DEF Chain
<1>3. R \in SUBSET Nodes
    BY <1>1
<1> HIDE DEF R
<1>4. Len(q) <= PoolCapacity
    BY <1>2, <1>3, NodesFacts, FS_Subset
<1>5. Walk(h, nx, Nil, PoolCapacity) = q
    BY <1>1, <1>4, WalkReads DEF Chain
<1>6. QED
    BY <1>2, <1>4, <1>5 DEF R

(* The links that are followed unchanged, the list is unchanged.           *)
LEMMA SameList ==
    ASSUME PoolInv, free_head' = free_head, \A n \in Nodes : ListFree(n) => next'[n] = next[n]
    PROVE  /\ FreeList' = FreeList /\ Chain(FreeList, free_head, next)'
           /\ \A n : ListFree(n)' <=> ListFree(n)
<1>1. FreeList \in Seq(Nodes) /\ \A i \in 1 .. Len(FreeList) : FreeList[i] \in Nodes
    BY DEF PoolInv, Chain
<1>2. \A i \in 1 .. Len(FreeList) : next'[FreeList[i]] = next[FreeList[i]]
    BY <1>1 DEF ListFree
<1>3. Chain(FreeList, free_head', next')
    BY <1>2 DEF PoolInv, Chain, Linked
<1>4. FreeList' = FreeList
    BY <1>3, ChainIsRead DEF FreeList
<1>5. QED
    BY <1>3, <1>4 DEF Chain, ListFree

LEMMA TallyFacts ==
    ASSUME PoolInv
    PROVE  /\ IsFiniteSet(InUse) /\ IsFiniteSet(Taking) /\ IsFiniteSet(Putting)
           /\ Cardinality(InUse) \in Nat /\ Cardinality(Taking) \in Nat
           /\ Cardinality(Putting) \in Nat
<1>1. IsFiniteSet(Nodes) /\ InUse \subseteq Nodes
    BY PoolAssumption, FS_Interval DEF Nodes, InUse
<1>2. Taking \subseteq Threads /\ Putting \subseteq Threads /\ IsFiniteSet(Threads)
    BY PoolAssumption DEF Taking, Putting
<1>3. QED
    BY <1>1, <1>2, FS_Subset, FS_CardinalityType

LEMMA PoolInitInv ==
    ASSUME PoolInit
    PROVE  PoolInv /\ FreeList = [i \in 1 .. PoolCapacity |-> i - 1] /\ InUse = {}
<1> DEFINE q == [i \in 1 .. PoolCapacity |-> i - 1]
<1>0. PoolCapacity \in Nat /\ PoolCapacity >= 1
    BY PoolAssumption
<1>1. /\ q \in Seq(Nodes) /\ Len(q) = PoolCapacity /\ q # <<>>
      /\ \A i \in 1 .. PoolCapacity : q[i] = i - 1
  <2>1. \A i \in 1 .. PoolCapacity : i - 1 \in Nodes
    BY <1>0 DEF Nodes
  <2>2. q \in [1 .. PoolCapacity -> Nodes]
    BY <2>1
  <2>3. QED
    BY <1>0, <2>2
<1>2. Chain(q, free_head, next)
  <2> HIDE DEF q
  <2>1. ASSUME NEW i \in 1 .. Len(q)
        PROVE  next[q[i]] = IF i = Len(q) THEN Nil ELSE q[i + 1]
    <3>1. i - 1 \in Nodes /\ q[i] = i - 1
      BY <1>0, <1>1 DEF Nodes
    <3>2. next[i - 1] = IF i < PoolCapacity THEN i ELSE Nil
      BY <1>0, <3>1 DEF PoolInit
    <3>3. QED
      BY <1>0, <1>1, <3>1, <3>2
  <2>2. free_head = q[1]
    BY <1>0, <1>1 DEF PoolInit
  <2>3. QED
    BY <1>0, <1>1, <2>1, <2>2 DEF Chain, Linked
<1>3. FreeList = q
    BY <1>2, ChainIsRead DEF FreeList
<1> HIDE DEF q
<1>4. InUse = {} /\ Taking = {} /\ Putting = {}
    BY DEF PoolInit, InUse, Taking, Putting
<1>5. Tally
    BY <1>4, FS_EmptySet DEF PoolInit, Tally
<1>6. PoolTypeOK /\ OneOwner
    BY <1>0 DEF PoolInit, PoolTypeOK, OneOwner, Links, Nodes, Nil, Places
<1>7. ASSUME NEW n \in Nodes PROVE InOnePlace(n)
  <2>1. n + 1 \in 1 .. PoolCapacity /\ q[n + 1] = n
    BY <1>0, <1>1 DEF Nodes
  <2>2. ListFree(n)
    BY <1>1, <1>3, <2>1 DEF ListFree
  <2>3. QED
    BY <2>2 DEF InOnePlace, Carries, PoolInit
<1>8. \A t \in Threads : ReadStillTrue(t) /\ CarriesANode(t)
    BY DEF PoolInit, ReadStillTrue, CarriesANode
<1>9. QED
    BY <1>2, <1>3, <1>4, <1>5, <1>6, <1>7, <1>8 DEF PoolInv, q

-----------------------------------------------------------------------------
(* Steps that move no node.                                                *)

LEMMA SamePlaces ==
    ASSUME PoolInv, FreeList' = FreeList, uses' = uses,
           \A t \in Threads, n \in Nodes : Carries(t, n)' <=> Carries(t, n)
    PROVE  /\ \A n \in Nodes : InOnePlace(n)'
           /\ OneOwner' /\ InUse' = InUse
           /\ [Stack!Next]_(Stack!vars)
<1>1. \A n : ListFree(n)' <=> ListFree(n)
    BY DEF ListFree
<1>2. InUse' = InUse /\ OneOwner'
    BY DEF InUse, PoolInv, OneOwner
<1>3. \A n \in Nodes : InOnePlace(n)'
    BY <1>1 DEF PoolInv, InOnePlace
<1>4. QED
    BY <1>2, <1>3 DEF Stack!vars

LEMMA SameTally ==
    ASSUME PoolInv, InUse' = InUse, Taking' = Taking, Putting' = Putting, allocated' = allocated
    PROVE  Tally'
    BY DEF PoolInv, Tally

(* A step of t that changes nothing but its own place and what it has read.*)
LEMMA ReadingStep ==
    ASSUME PoolInv, NEW t \in Threads, NEW place \in Places, Goto(t, place),
           \/ pc[t] \in {"idle", "next", "take"} /\ place \in {"idle", "next", "take"}
           \/ pc[t] \in {"link", "put"} /\ place \in {"link", "put"},
           UNCHANGED <<shared, node, uses>>,
           NEW h \in Links, head' = [head EXCEPT ![t] = h],
           NEW l \in Links, link' = [link EXCEPT ![t] = l],
           place \in {"next", "take"} => t \in Acquirers /\ ListFree(h),
           place = "take" => l = next[h],
           place = "put" => next[node[t]] = h
    PROVE  PoolInv' /\ [Stack!Next]_(Stack!vars)
<1> USE DEF Goto, shared
<1>1. PoolTypeOK'
    BY DEF PoolInv, PoolTypeOK
<1>2. FreeList' = FreeList /\ Chain(FreeList, free_head, next)' /\ \A n : ListFree(n)' <=> ListFree(n)
    BY SameList
<1>3. \A u \in Threads, n \in Nodes : Carries(u, n)' <=> Carries(u, n)
    BY DEF PoolInv, PoolTypeOK, Carries
<1>4. /\ \A n \in Nodes : InOnePlace(n)'
      /\ OneOwner' /\ InUse' = InUse
      /\ [Stack!Next]_(Stack!vars)
    BY <1>2, <1>3, SamePlaces
<1>5. Taking' = Taking /\ Putting' = Putting
    BY DEF PoolInv, PoolTypeOK, Taking, Putting
<1>6. Tally'
    BY <1>4, <1>5, SameTally
<1>7. \A n : ListFree(n) => n \in Nodes
    BY DEF ListFree, PoolInv, Chain
<1>8. ASSUME NEW u \in Threads PROVE ReadStillTrue(u)' /\ CarriesANode(u)'
  <2>1. ReadStillTrue(u) /\ CarriesANode(u)
    BY DEF PoolInv
  <2>2. CASE u = t
    BY <1>2, <1>7, <2>1, <2>2 DEF PoolInv, PoolTypeOK, ReadStillTrue, CarriesANode
  <2>3. CASE u # t
    BY <1>2, <2>1, <2>3 DEF PoolInv, PoolTypeOK, ReadStillTrue, CarriesANode
  <2>4. QED
    BY <2>2, <2>3
<1>9. QED
    BY <1>1, <1>2, <1>4, <1>6, <1>8 DEF PoolInv

LEMMA HeadIsFree ==
    ASSUME PoolInv, free_head # Nil
    PROVE  ListFree(free_head) /\ free_head \in Nodes
<1>1. FreeList # <<>> /\ free_head = FreeList[1] /\ FreeList \in Seq(Nodes)
    BY DEF PoolInv, Chain, Linked
<1>2. 1 \in 1 .. Len(FreeList)
    BY <1>1, EmptySeq, LenProperties
<1>3. QED
    BY <1>1, <1>2 DEF ListFree

LEMMA AcquireStep ==
    ASSUME PoolInv, NEW t \in Threads, Acquire(t) \/ TakeFails(t)
    PROVE  PoolInv' /\ [Stack!Next]_(Stack!vars)
<1> DEFINE place == IF free_head = Nil THEN "idle" ELSE "next"
<1>1. /\ Goto(t, place) /\ UNCHANGED <<shared, node, uses>>
      /\ head' = [head EXCEPT ![t] = free_head] /\ link' = link
      /\ pc[t] \in {"idle", "take"}
    BY DEF Acquire, TakeFails, Loop
<1>2. free_head \in Links /\ link[t] \in Links /\ link' = [link EXCEPT ![t] = link[t]]
    BY <1>1 DEF PoolInv, PoolTypeOK
<1>3. t \in Acquirers
    BY DEF Acquire, TakeFails, PoolInv, ReadStillTrue
<1>4. place \in {"next", "take"} => ListFree(free_head)
    BY HeadIsFree
<1>5. place \in Places /\ place \in {"idle", "next", "take"} /\ place # "take" /\ place # "put"
    BY DEF Places
<1> HIDE DEF place
<1>6. QED
    BY <1>1, <1>2, <1>3, <1>4, <1>5, ReadingStep

LEMMA LoadNextStep ==
    ASSUME PoolInv, NEW t \in Threads, LoadNext(t)
    PROVE  PoolInv' /\ [Stack!Next]_(Stack!vars)
<1>1. ReadStillTrue(t) /\ PoolTypeOK
    BY DEF PoolInv
<1>2. /\ head[t] \in Links /\ head' = [head EXCEPT ![t] = head[t]]
      /\ next[head[t]] \in Links
      /\ t \in Acquirers /\ ListFree(head[t])
    BY <1>1 DEF LoadNext, PoolTypeOK, ReadStillTrue
<1>3. "take" \in Places
    BY DEF Places
<1>4. QED
    BY <1>2, <1>3, ReadingStep DEF LoadNext

LEMMA PutFailsStep ==
    ASSUME PoolInv, NEW t \in Threads, PutFails(t)
    PROVE  PoolInv' /\ [Stack!Next]_(Stack!vars)
<1>1. /\ free_head \in Links /\ link[t] \in Links /\ link' = [link EXCEPT ![t] = link[t]]
      /\ "link" \in Places
    BY DEF PoolInv, PoolTypeOK, PutFails, Places
<1>2. /\ Goto(t, "link") /\ UNCHANGED <<shared, node, uses>>
      /\ head' = [head EXCEPT ![t] = free_head] /\ pc[t] = "put"
    BY DEF PutFails
<1>3. QED
    BY <1>1, <1>2, ReadingStep

(* The counter, once the node has changed hands.                           *)
LEMMA CountTakenStep ==
    ASSUME PoolInv, NEW t \in Threads, CountTaken(t)
    PROVE  PoolInv' /\ [Stack!Next]_(Stack!vars)
<1> USE DEF Goto
<1>1. PoolTypeOK'
    BY DEF CountTaken, PoolInv, PoolTypeOK, Places
<1>2. FreeList' = FreeList /\ Chain(FreeList, free_head, next)' /\ \A n : ListFree(n)' <=> ListFree(n)
    BY SameList DEF CountTaken
<1>3. \A u \in Threads, n \in Nodes : Carries(u, n)' <=> Carries(u, n)
    BY DEF CountTaken, PoolInv, PoolTypeOK, Carries
<1>4. /\ \A n \in Nodes : InOnePlace(n)'
      /\ OneOwner' /\ InUse' = InUse
      /\ [Stack!Next]_(Stack!vars)
    BY <1>2, <1>3, SamePlaces DEF CountTaken
<1>5. Taking' = Taking \ {t} /\ t \in Taking /\ Putting' = Putting
    BY DEF CountTaken, PoolInv, PoolTypeOK, Taking, Putting
<1>6. Cardinality(Taking') = Cardinality(Taking) - 1
    BY <1>5, TallyFacts, FS_RemoveElement
<1>7. Tally'
    BY <1>4, <1>5, <1>6, TallyFacts DEF CountTaken, PoolInv, PoolTypeOK, Tally
<1>8. ASSUME NEW u \in Threads PROVE ReadStillTrue(u)' /\ CarriesANode(u)'
    BY <1>2 DEF CountTaken, PoolInv, PoolTypeOK, ReadStillTrue, CarriesANode
<1>9. QED
    BY <1>1, <1>2, <1>4, <1>7, <1>8 DEF PoolInv

LEMMA CountPutStep ==
    ASSUME PoolInv, NEW a, Acquirers = {a}, NEW t \in Threads, CountPut(t)
    PROVE  PoolInv' /\ [Stack!Next]_(Stack!vars)
<1> USE DEF Goto
<1>1. FreeList' = FreeList /\ Chain(FreeList, free_head, next)' /\ \A n : ListFree(n)' <=> ListFree(n)
    BY SameList DEF CountPut
<1>2. \A u \in Threads, n \in Nodes : Carries(u, n)' <=> Carries(u, n)
    BY DEF CountPut, PoolInv, PoolTypeOK, Carries
<1>3. /\ \A n \in Nodes : InOnePlace(n)'
      /\ OneOwner' /\ InUse' = InUse
      /\ [Stack!Next]_(Stack!vars)
    BY <1>1, <1>2, SamePlaces DEF CountPut
<1>4. Putting' = Putting \ {t} /\ t \in Putting /\ Taking' = Taking
    BY DEF CountPut, PoolInv, PoolTypeOK, Taking, Putting
<1>5. Cardinality(Putting') = Cardinality(Putting) - 1 /\ Cardinality(Putting') \in Nat
    BY <1>4, TallyFacts, FS_RemoveElement, FS_CardinalityType
<1>6. Cardinality(Taking) <= Cardinality(InUse)
  <2>1. CASE Taking = {}
    BY <2>1, FS_EmptySet, TallyFacts
  <2>2. CASE Taking # {}
    <3>1. Taking = {a} /\ uses[head[a]] = 1 /\ head[a] \in Nodes
      BY <2>2 DEF Taking, PoolInv, ReadStillTrue
    <3>2. Cardinality(Taking) = 1 /\ head[a] \in InUse
      BY <3>1, FS_Singleton DEF InUse
    <3>3. QED
      BY <3>2, FS_EmptySet, TallyFacts
  <2>3. QED
    BY <2>1, <2>2
<1>7. allocated \in Nat /\ allocated' = allocated - 1 /\ allocated' \in Nat /\ Tally'
    BY <1>3, <1>4, <1>5, <1>6, TallyFacts DEF CountPut, PoolInv, PoolTypeOK, Tally
<1>8. PoolTypeOK'
    BY <1>7 DEF CountPut, PoolInv, PoolTypeOK, Places
<1>9. ASSUME NEW u \in Threads PROVE ReadStillTrue(u)' /\ CarriesANode(u)'
    BY <1>1 DEF CountPut, PoolInv, PoolTypeOK, ReadStillTrue, CarriesANode
<1>10. QED
    BY <1>1, <1>3, <1>7, <1>8, <1>9 DEF PoolInv

-----------------------------------------------------------------------------
(* Steps that move a node.                                                 *)

LEMMA StoreNextStep ==
    ASSUME PoolInv, NEW t \in Threads, StoreNext(t)
    PROVE  PoolInv' /\ [Stack!Next]_(Stack!vars)
<1> USE DEF Goto
<1>1. node[t] \in Nodes /\ Carries(t, node[t]) /\ ~ ListFree(node[t])
    BY DEF StoreNext, PoolInv, CarriesANode, Carries, InOnePlace
<1>2. PoolTypeOK'
    BY <1>1 DEF StoreNext, PoolInv, PoolTypeOK, Places
<1>3. \A n \in Nodes : n # node[t] => next'[n] = next[n]
    BY DEF StoreNext, PoolInv, PoolTypeOK
<1>4. FreeList' = FreeList /\ Chain(FreeList, free_head, next)' /\ \A n : ListFree(n)' <=> ListFree(n)
    BY <1>1, <1>3, SameList DEF StoreNext
<1>5. \A u \in Threads, n \in Nodes : Carries(u, n)' <=> Carries(u, n)
    BY DEF StoreNext, PoolInv, PoolTypeOK, Carries
<1>6. /\ \A n \in Nodes : InOnePlace(n)'
      /\ OneOwner' /\ InUse' = InUse
      /\ [Stack!Next]_(Stack!vars)
    BY <1>4, <1>5, SamePlaces DEF StoreNext
<1>7. Taking' = Taking /\ Putting' = Putting
    BY DEF StoreNext, PoolInv, PoolTypeOK, Taking, Putting
<1>8. Tally'
    BY <1>6, <1>7, SameTally DEF StoreNext
<1>9. ASSUME NEW u \in Threads PROVE ReadStillTrue(u)' /\ CarriesANode(u)'
  <2>1. ReadStillTrue(u) /\ CarriesANode(u)
    BY DEF PoolInv
  <2>2. ReadStillTrue(u)'
    <3>1. pc[u] = "take" => head[u] # node[t] /\ head[u] \in Nodes
      BY <1>1, <2>1 DEF ReadStillTrue
    <3>2. QED
      BY <1>3, <1>4, <2>1, <3>1 DEF StoreNext, PoolInv, PoolTypeOK, ReadStillTrue
  <2>3. CarriesANode(u)'
    <3>1. CASE u = t
      BY <1>1, <3>1 DEF StoreNext, PoolInv, PoolTypeOK, CarriesANode
    <3>2. CASE u # t
      <4>1. pc[u] = "put" => node[u] # node[t] /\ node[u] \in Nodes
        BY <1>1, <2>1, <3>2 DEF CarriesANode, Carries, PoolInv, InOnePlace
      <4>2. QED
        BY <1>3, <2>1, <3>2, <4>1 DEF StoreNext, PoolInv, PoolTypeOK, CarriesANode
    <3>3. QED
      BY <3>1, <3>2
  <2>4. QED
    BY <2>2, <2>3
<1>10. QED
    BY <1>2, <1>4, <1>6, <1>8, <1>9 DEF PoolInv

LEMMA ChainTail ==
    ASSUME NEW q, NEW h, NEW nx, Chain(q, h, nx), h # Nil
    PROVE  /\ q # <<>> /\ Head(q) = h /\ Chain(Tail(q), nx[h], nx)
           /\ \A n : (\E i \in 1 .. Len(Tail(q)) : Tail(q)[i] = n)
                     <=> n # h /\ \E i \in 1 .. Len(q) : q[i] = n
<1> DEFINE r == Tail(q)
<1>0. \A i \in 1 .. Len(q) : nx[q[i]] = IF i = Len(q) THEN Nil ELSE q[i + 1]
    BY DEF Chain, Linked
<1>1. q \in Seq(Nodes) /\ q # <<>> /\ q[1] = h /\ Len(q) \in Nat /\ Len(q) >= 1
    BY EmptySeq, LenProperties DEF Chain, Linked
<1>2. /\ r \in Seq(Nodes) /\ Len(r) = Len(q) - 1 /\ Head(q) = h
      /\ \A i \in 1 .. Len(q) - 1 : r[i] = q[i + 1]
    BY <1>1, HeadTailProperties
<1> HIDE DEF r
<1>3. \A i \in 1 .. Len(q) - 1 : i \in 1 .. Len(q) /\ i + 1 \in 1 .. Len(q)
    BY <1>1
<1>4. nx[h] = IF r = <<>> THEN Nil ELSE r[1]
  <2>1. nx[h] = IF 1 = Len(q) THEN Nil ELSE q[1 + 1]
    <3>1. 1 \in 1 .. Len(q)
      BY <1>1
    <3>2. QED
      BY <1>0, <1>1, <3>1
  <2>2. CASE Len(q) = 1
    <3>1. Len(r) = 0
      BY <1>2, <2>2
    <3>2. QED
      BY <1>2, <2>1, <2>2, <3>1, EmptySeq
  <2>3. CASE Len(q) # 1
    <3>1. 1 \in 1 .. Len(q) - 1 /\ Len(r) # 0
      BY <1>1, <1>2, <2>3
    <3>2. r # <<>> /\ r[1] = q[1 + 1]
      BY <1>2, <3>1, EmptySeq
    <3>3. QED
      BY <2>1, <2>3, <3>2
  <2>4. QED
    BY <2>2, <2>3
<1>5. ASSUME NEW i \in 1 .. Len(r)
      PROVE  nx[r[i]] = IF i = Len(r) THEN Nil ELSE r[i + 1]
  <2>0. i \in 1 .. Len(q) - 1 /\ i + 1 \in 1 .. Len(q)
    BY <1>2, <1>3
  <2>1. nx[q[i + 1]] = IF i + 1 = Len(q) THEN Nil ELSE q[(i + 1) + 1]
    BY <1>0, <2>0
  <2>2. /\ i # Len(q) - 1 => i + 1 \in 1 .. Len(q) - 1
        /\ i + 1 = Len(q) <=> i = Len(q) - 1
    BY <1>1, <2>0
  <2>3. /\ r[i] = q[i + 1]
        /\ i # Len(q) - 1 => r[i + 1] = q[(i + 1) + 1]
    BY <1>2, <2>0, <2>2
  <2>4. QED
    BY <1>2, <2>1, <2>2, <2>3
<1>6. ASSUME NEW i \in 1 .. Len(r), NEW j \in 1 .. Len(r), r[i] = r[j]
      PROVE  i = j
  <2>1. i + 1 = j + 1
    BY <1>2, <1>3, <1>6 DEF Chain
  <2>2. QED
    BY <2>1
<1>7. Chain(r, nx[h], nx)
  <2>1. Linked(r, nx[h], nx, Nil)
    BY <1>4, <1>5 DEF Linked
  <2>2. QED
    BY <1>2, <1>6, <2>1 DEF Chain
<1>8. ASSUME NEW n
      PROVE  (\E i \in 1 .. Len(r) : r[i] = n)
             <=> n # h /\ \E i \in 1 .. Len(q) : q[i] = n
  <2>1. ASSUME NEW i \in 1 .. Len(r), r[i] = n
        PROVE  n # h /\ \E j \in 1 .. Len(q) : q[j] = n
    <3>1. q[i + 1] = n /\ i + 1 \in 1 .. Len(q) /\ 1 \in 1 .. Len(q) /\ i + 1 # 1
      BY <1>1, <1>2, <1>3, <2>1
    <3>2. QED
      BY <1>1, <3>1 DEF Chain
  <2>2. ASSUME NEW j \in 1 .. Len(q), q[j] = n, n # h
        PROVE  \E i \in 1 .. Len(r) : r[i] = n
    <3>1. j # 1 /\ j - 1 \in 1 .. Len(q) - 1
      BY <1>1, <2>2
    <3>2. r[j - 1] = q[(j - 1) + 1] /\ (j - 1) + 1 = j
      BY <1>2, <3>1
    <3>3. QED
      BY <1>2, <2>2, <3>1, <3>2
  <2>3. QED
    BY <2>1, <2>2
<1>9. QED
    BY <1>1, <1>2, <1>7, <1>8 DEF r

LEMMA ChainCons ==
    ASSUME NEW q, NEW h, NEW nx, Chain(q, h, nx), NEW n \in Nodes, nx[n] = h,
           \A i \in 1 .. Len(q) : q[i] # n
    PROVE  /\ Chain(<<n>> \o q, n, nx)
           /\ \A k : (\E i \in 1 .. Len(<<n>> \o q) : (<<n>> \o q)[i] = k)
                     <=> k = n \/ \E i \in 1 .. Len(q) : q[i] = k
<1> DEFINE r == <<n>> \o q
<1>1. q \in Seq(Nodes) /\ Len(q) \in Nat
    BY DEF Chain
<1>2. /\ r \in Seq(Nodes) /\ Len(r) = Len(q) + 1
      /\ \A i \in 1 .. Len(q) + 1 : r[i] = IF i = 1 THEN n ELSE q[i - 1]
    BY <1>1
<1>3. r # <<>>
    BY <1>1, <1>2, EmptySeq
<1> HIDE DEF r
<1>4. \A i \in 1 .. Len(r) : i # 1 => i - 1 \in 1 .. Len(q)
    BY <1>1, <1>2
<1>5. ASSUME NEW i \in 1 .. Len(r) PROVE nx[r[i]] = IF i = Len(r) THEN Nil ELSE r[i + 1]
  <2>1. CASE i = 1
    <3>1. CASE Len(q) = 0
      BY <1>1, <1>2, <2>1, <3>1, EmptySeq DEF Chain, Linked
    <3>2. CASE Len(q) # 0
      BY <1>1, <1>2, <2>1, <3>2, EmptySeq DEF Chain, Linked
    <3>3. QED
      BY <3>1, <3>2
  <2>2. CASE i # 1
    <3>1. r[i] = q[i - 1] /\ i - 1 \in 1 .. Len(q) /\ (i = Len(r) <=> i - 1 = Len(q))
      BY <1>1, <1>2, <1>4, <2>2
    <3>2. nx[q[i - 1]] = IF i - 1 = Len(q) THEN Nil ELSE q[(i - 1) + 1]
      BY <3>1 DEF Chain, Linked
    <3>3. i # Len(r) => r[i + 1] = q[(i + 1) - 1] /\ (i + 1) - 1 = (i - 1) + 1
      BY <1>1, <1>2, <2>2
    <3>4. QED
      BY <3>1, <3>2, <3>3
  <2>3. QED
    BY <2>1, <2>2
<1>6. ASSUME NEW i \in 1 .. Len(r), NEW j \in 1 .. Len(r), r[i] = r[j]
      PROVE  i = j
  <2>1. (i = 1 \/ i - 1 \in 1 .. Len(q)) /\ (j = 1 \/ j - 1 \in 1 .. Len(q))
    BY <1>4
  <2>2. CASE i = 1 \/ j = 1
    BY <1>2, <1>6, <2>1, <2>2
  <2>3. CASE i # 1 /\ j # 1
    <3>1. q[i - 1] = q[j - 1]
      BY <1>2, <1>6, <2>3
    <3>2. i - 1 = j - 1
      BY <2>1, <2>3, <3>1 DEF Chain
    <3>3. QED
      BY <3>2
  <2>4. QED
    BY <2>2, <2>3
<1>7. Chain(r, n, nx)
    BY <1>2, <1>3, <1>5, <1>6 DEF Chain, Linked
<1>8. ASSUME NEW k
      PROVE  (\E i \in 1 .. Len(r) : r[i] = k) <=> k = n \/ \E i \in 1 .. Len(q) : q[i] = k
  <2>1. ASSUME NEW i \in 1 .. Len(q) PROVE i + 1 \in 1 .. Len(r) /\ r[i + 1] = q[i]
    <3>1. i + 1 \in 1 .. Len(q) + 1 /\ i + 1 # 1 /\ (i + 1) - 1 = i
      BY <1>1
    <3>2. QED
      BY <1>2, <3>1
  <2>2. 1 \in 1 .. Len(r) /\ r[1] = n
    BY <1>1, <1>2
  <2>3. ASSUME NEW i \in 1 .. Len(r), r[i] = k PROVE k = n \/ \E j \in 1 .. Len(q) : q[j] = k
    BY <1>2, <1>4, <2>3
  <2>4. QED
    BY <2>1, <2>2, <2>3
<1>9. QED
    BY <1>7, <1>8 DEF r

LEMMA TakeStep ==
    ASSUME PoolInv, NEW a, Acquirers = {a}, NEW t \in Threads, Take(t)
    PROVE  PoolInv' /\ [Stack!Next]_(Stack!vars)
<1> USE DEF Goto
<1>1. /\ t = a /\ t \in Acquirers /\ head[t] \in Nodes /\ free_head = head[t]
      /\ link[t] = next[head[t]] /\ ListFree(head[t]) /\ head[t] # Nil
    BY DEF Take, PoolInv, ReadStillTrue, Nodes, Nil
<1>2. uses[head[t]] = 0
    BY <1>1 DEF PoolInv, PoolTypeOK, OneOwner, InOnePlace
<1>3. /\ FreeList # <<>> /\ Head(FreeList) = head[t]
      /\ Chain(Tail(FreeList), next[head[t]], next)
      /\ \A n : (\E i \in 1 .. Len(Tail(FreeList)) : Tail(FreeList)[i] = n)
                <=> n # head[t] /\ ListFree(n)
  <2>1. Chain(FreeList, head[t], next)
    BY <1>1 DEF PoolInv
  <2>2. QED
    BY <1>1, <2>1, ChainTail DEF ListFree
<1>4. FreeList' = Tail(FreeList)
    BY <1>1, <1>3, ChainIsRead DEF FreeList, Take
<1>5. Chain(FreeList, free_head, next)'
    BY <1>1, <1>3, <1>4 DEF Take, Chain
<1>6. \A n : ListFree(n)' <=> n # head[t] /\ ListFree(n)
    BY <1>3, <1>4 DEF ListFree
<1>7. /\ PoolTypeOK'
      /\ uses' = [uses EXCEPT ![head[t]] = 1]
    BY <1>1, <1>2 DEF Take, PoolInv, PoolTypeOK, Places
<1>8. OneOwner' /\ InUse' = InUse \union {head[t]} /\ head[t] \notin InUse
    BY <1>1, <1>2, <1>7 DEF PoolInv, PoolTypeOK, OneOwner, InUse
<1>9. \A u \in Threads, n \in Nodes : Carries(u, n)' <=> Carries(u, n)
    BY DEF Take, PoolInv, PoolTypeOK, Carries
<1>10. ASSUME NEW n \in Nodes PROVE InOnePlace(n)'
  <2>1. InOnePlace(n)
    BY DEF PoolInv
  <2>2. uses'[n] = IF n = head[t] THEN 1 ELSE uses[n]
    BY <1>7 DEF PoolInv, PoolTypeOK
  <2>3. QED
    BY <1>1, <1>6, <1>9, <2>1, <2>2 DEF InOnePlace
<1>11. ASSUME NEW u \in Threads PROVE ReadStillTrue(u)' /\ CarriesANode(u)'
  <2>1. CarriesANode(u)'
    BY DEF Take, PoolInv, PoolTypeOK, CarriesANode
  <2>2. ReadStillTrue(u)'
    <3>1. CASE u = t
      BY <1>1, <1>7, <3>1 DEF Take, PoolInv, PoolTypeOK, ReadStillTrue
    <3>2. CASE u # t
      <4>1. pc'[u] = pc[u] /\ pc[u] \notin {"next", "take", "taken"}
        BY <1>1, <3>2 DEF Take, PoolInv, PoolTypeOK, ReadStillTrue
      <4>2. QED
        BY <4>1 DEF ReadStillTrue
    <3>3. QED
      BY <3>1, <3>2
  <2>3. QED
    BY <2>1, <2>2
<1>12. Tally'
  <2>1. Taking' = Taking \union {t} /\ t \notin Taking /\ Putting' = Putting
    BY DEF Take, PoolInv, PoolTypeOK, Taking, Putting
  <2>2. /\ Cardinality(Taking') = Cardinality(Taking) + 1
        /\ Cardinality(InUse') = Cardinality(InUse) + 1
    BY <1>8, <2>1, TallyFacts, FS_AddElement
  <2>3. QED
    BY <2>1, <2>2, TallyFacts DEF Take, PoolInv, Tally
<1>13. Stack!Next
    BY <1>3, <1>4, <1>8 DEF Stack!Next, Stack!Acquire
<1>14. QED
    BY <1>5, <1>7, <1>8, <1>10, <1>11, <1>12, <1>13 DEF PoolInv

LEMMA ReleaseStep ==
    ASSUME PoolInv, NEW t \in Threads, NEW n \in Nodes, Release(t, n)
    PROVE  PoolInv' /\ [Stack!Next]_(Stack!vars)
<1> USE DEF Goto
<1>1. uses[n] = 1 /\ uses' = [uses EXCEPT ![n] = 0]
  <2>1. uses[n] \in Nat /\ uses[n] <= 1 /\ uses[n] > 0
    BY DEF Release, PoolInv, PoolTypeOK, OneOwner
  <2>2. uses[n] = 1 /\ uses[n] - 1 = 0
    BY <2>1
  <2>3. QED
    BY <2>2 DEF Release
<1>2. FreeList' = FreeList /\ Chain(FreeList, free_head, next)' /\ \A k : ListFree(k)' <=> ListFree(k)
    BY SameList DEF Release, shared
<1>3. n \in Links
    BY DEF Links
<1>4. PoolTypeOK'
    BY <1>1, <1>3 DEF Release, PoolInv, PoolTypeOK, Places, shared
<1>5. \A k \in Nodes : uses'[k] = IF k = n THEN 0 ELSE uses[k]
    BY <1>1 DEF PoolInv, PoolTypeOK
<1>6. OneOwner' /\ InUse' = InUse \ {n} /\ n \in InUse
    BY <1>1, <1>5 DEF PoolInv, OneOwner, InUse
<1>7. \A u \in Threads, k \in Nodes :
         Carries(u, k)' <=> IF u = t THEN k = n ELSE Carries(u, k)
    BY DEF Release, PoolInv, PoolTypeOK, Carries
<1>8. ~ ListFree(n) /\ \A u \in Threads : ~ Carries(u, n)
    BY <1>1 DEF PoolInv, InOnePlace
<1>9. \A k \in Nodes : ~ Carries(t, k)
    BY DEF Release, Carries
<1>10. ASSUME NEW k \in Nodes PROVE InOnePlace(k)'
  <2>1. InOnePlace(k)
    BY DEF PoolInv
  <2>2. CASE k = n
    BY <1>2, <1>5, <1>7, <1>8, <2>2 DEF InOnePlace
  <2>3. CASE k # n
    BY <1>2, <1>5, <1>7, <1>9, <2>1, <2>3 DEF InOnePlace
  <2>4. QED
    BY <2>2, <2>3
<1>11. ASSUME NEW u \in Threads PROVE ReadStillTrue(u)' /\ CarriesANode(u)'
  <2>1. ReadStillTrue(u) /\ CarriesANode(u)
    BY DEF PoolInv
  <2>2. CASE u = t
    BY <2>2 DEF Release, PoolInv, PoolTypeOK, ReadStillTrue, CarriesANode
  <2>3. CASE u # t
    <3>1. /\ pc'[u] = pc[u] /\ head'[u] = head[u] /\ link'[u] = link[u]
          /\ node'[u] = node[u] /\ next' = next
      BY <2>3 DEF Release, PoolInv, PoolTypeOK, shared
    <3>2. pc[u] = "taken" => uses'[head[u]] = 1
      BY <1>5, <2>1 DEF Release, ReadStillTrue
    <3>3. QED
      BY <1>2, <2>1, <3>1, <3>2 DEF ReadStillTrue, CarriesANode
  <2>4. QED
    BY <2>2, <2>3
<1>12. Tally'
  <2>1. Putting' = Putting \union {t} /\ t \notin Putting /\ Taking' = Taking
    BY DEF Release, PoolInv, PoolTypeOK, Taking, Putting
  <2>2. /\ Cardinality(Putting') = Cardinality(Putting) + 1
        /\ Cardinality(InUse') = Cardinality(InUse) - 1
    BY <1>6, <2>1, TallyFacts, FS_AddElement, FS_RemoveElement
  <2>3. QED
    BY <2>1, <2>2, TallyFacts DEF Release, PoolInv, Tally, shared
<1>13. Stack!Next
    BY <1>2, <1>6 DEF Stack!Next, Stack!HandBack, Stack!Cells, Nodes
<1>14. QED
    BY <1>2, <1>4, <1>6, <1>10, <1>11, <1>12, <1>13 DEF PoolInv

LEMMA PutStep ==
    ASSUME PoolInv, NEW t \in Threads, Put(t)
    PROVE  PoolInv' /\ [Stack!Next]_(Stack!vars)
<1> USE DEF Goto
<1>1. /\ node[t] \in Nodes /\ Carries(t, node[t]) /\ next[node[t]] = free_head
      /\ ~ ListFree(node[t]) /\ uses[node[t]] = 0
    BY DEF Put, PoolInv, CarriesANode, Carries, InOnePlace
<1>2. /\ Chain(<<node[t]>> \o FreeList, node[t], next)
      /\ \A k : (\E i \in 1 .. Len(<<node[t]>> \o FreeList) : (<<node[t]>> \o FreeList)[i] = k)
                <=> k = node[t] \/ ListFree(k)
    <3>1. Chain(FreeList, free_head, next) /\ \A i \in 1 .. Len(FreeList) : FreeList[i] # node[t]
      BY <1>1 DEF PoolInv, ListFree
    <3>2. ASSUME NEW n \in Nodes, n = node[t]
          PROVE  /\ Chain(<<n>> \o FreeList, n, next)
                 /\ \A k : (\E i \in 1 .. Len(<<n>> \o FreeList) : (<<n>> \o FreeList)[i] = k)
                           <=> k = n \/ \E i \in 1 .. Len(FreeList) : FreeList[i] = k
      <4>1. next[n] = free_head /\ \A i \in 1 .. Len(FreeList) : FreeList[i] # n
        BY <1>1, <3>1, <3>2
      <4>2. QED
        BY <3>1, <4>1, ChainCons, Zenon
    <3>3. QED
      BY <1>1, <3>2 DEF ListFree
<1>3. FreeList' = <<node[t]>> \o FreeList
    BY <1>2, ChainIsRead DEF FreeList, Put
<1>4. Chain(FreeList, free_head, next)'
    BY <1>2, <1>3 DEF Put, Chain
<1>5. \A k : ListFree(k)' <=> k = node[t] \/ ListFree(k)
    BY <1>2, <1>3 DEF ListFree
<1>6. PoolTypeOK'
    BY <1>1 DEF Put, PoolInv, PoolTypeOK, Places, Links
<1>7. OneOwner' /\ InUse' = InUse /\ node[t] \notin InUse
    BY <1>1 DEF Put, PoolInv, OneOwner, InUse
<1>8. \A u \in Threads, k \in Nodes : Carries(u, k)' <=> u # t /\ Carries(u, k)
    BY DEF Put, PoolInv, PoolTypeOK, Carries
<1>9. ASSUME NEW k \in Nodes PROVE InOnePlace(k)'
  <2>1. InOnePlace(k) /\ InOnePlace(node[t])
    BY <1>1 DEF PoolInv
  <2>2. \A u \in Threads : Carries(u, node[t]) => u = t
    BY <1>1, <2>1 DEF InOnePlace
  <2>3. Carries(t, k) => k = node[t]
    BY DEF Carries
  <2>4. uses' = uses
    BY DEF Put
  <2>5. CASE k = node[t]
    BY <1>1, <1>5, <1>8, <2>2, <2>4, <2>5 DEF InOnePlace
  <2>6. CASE k # node[t]
    BY <1>5, <1>8, <2>1, <2>3, <2>4, <2>6 DEF InOnePlace
  <2>7. QED
    BY <2>5, <2>6
<1>10. ASSUME NEW u \in Threads PROVE ReadStillTrue(u)' /\ CarriesANode(u)'
    BY <1>5 DEF Put, PoolInv, PoolTypeOK, ReadStillTrue, CarriesANode
<1>11. Taking' = Taking /\ Putting' = Putting
    BY DEF Put, PoolInv, PoolTypeOK, Taking, Putting
<1>12. Tally'
    BY <1>7, <1>11, SameTally DEF Put
<1>13. Stack!Next
  <2>1. \A i \in DOMAIN FreeList : FreeList[i] # node[t]
    BY <1>1 DEF ListFree, PoolInv, Chain
  <2>2. QED
    BY <1>1, <1>3, <1>7, <2>1 DEF Stack!Next, Stack!Release, Stack!Cells, Nodes
<1>14. QED
    BY <1>4, <1>6, <1>7, <1>9, <1>10, <1>12, <1>13 DEF PoolInv

LEMMA PoolStep ==
    ASSUME NEW a, Acquirers = {a}, PoolInv, [PoolNext]_poolVars
    PROVE  PoolInv' /\ [Stack!Next]_(Stack!vars)
<1>1. CASE UNCHANGED poolVars
  <2>1. UNCHANGED <<free_head, next, allocated, pc, head, link, node, uses>>
    BY <1>1 DEF poolVars, shared, locals
  <2>2. FreeList' = FreeList /\ InUse' = InUse
    BY <2>1 DEF FreeList, InUse
  <2>3. Taking' = Taking /\ Putting' = Putting
    BY <2>1 DEF Taking, Putting
  <2>4. PoolInv'
    BY <2>1, <2>2, <2>3 DEF PoolInv, PoolTypeOK, OneOwner, Chain, Linked, InOnePlace, ListFree,
       Carries, ReadStillTrue, CarriesANode, Tally
  <2>5. QED
    BY <2>2, <2>4 DEF Stack!vars
<1>2. CASE PoolNext
    BY <1>2, AcquireStep, LoadNextStep, TakeStep, CountTakenStep, ReleaseStep, StoreNextStep,
       PutStep, PutFailsStep, CountPutStep DEF PoolNext
<1>3. QED
    BY <1>1, <1>2

LEMMA BetweenCalls == PoolInv => NothingLeaks
<1> SUFFICES ASSUME PoolInv, \A t \in Threads : pc[t] = "idle"
             PROVE  /\ {FreeList[i] : i \in DOMAIN FreeList} = Nodes \ InUse
                    /\ Len(FreeList) = PoolCapacity - Cardinality(InUse)
                    /\ allocated = Cardinality(InUse)
    BY DEF NothingLeaks
<1>1. FreeList \in Seq(Nodes) /\ DOMAIN FreeList = 1 .. Len(FreeList)
    BY DEF PoolInv, Chain
<1> DEFINE R == {FreeList[i] : i \in 1 .. Len(FreeList)}
<1>2. \A n : n \in R <=> ListFree(n)
    BY DEF ListFree
<1>3. R \subseteq Nodes
    BY <1>1
<1>4. Cardinality(R) = Len(FreeList) /\ IsFiniteSet(R) /\ Len(FreeList) \in Nat
    BY <1>1, ChainIsRead, FS_CardinalityType DEF PoolInv
<1> HIDE DEF R
<1>5. ASSUME NEW n \in Nodes PROVE n \in R <=> n \notin InUse
  <2>1. InOnePlace(n) /\ uses[n] \in Nat /\ uses[n] <= 1
    BY DEF PoolInv, PoolTypeOK, OneOwner
  <2>2. QED
    BY <1>2, <2>1 DEF InOnePlace, Carries, InUse
<1>6. InUse \subseteq Nodes /\ R = Nodes \ InUse
    BY <1>3, <1>5 DEF InUse
<1>7. Cardinality(Nodes \ InUse) = Cardinality(Nodes) - Cardinality(Nodes \cap InUse)
    BY NodesFacts, FS_Difference
<1>8. Nodes \cap InUse = InUse
    BY <1>6
<1>9. Len(FreeList) = PoolCapacity - Cardinality(InUse)
    BY <1>4, <1>6, <1>7, <1>8, NodesFacts
<1>10. Taking = {} /\ Putting = {}
    BY DEF Taking, Putting
<1>11. allocated = Cardinality(InUse)
    BY <1>10, TallyFacts, FS_EmptySet DEF PoolInv, Tally
<1>12. QED
    BY <1>1, <1>6, <1>9, <1>11 DEF R

(* While one thread acquires, and any number of them release, the pool is  *)
(* a stack of its free nodes, hands none to two owners and loses none, and *)
(* counts the ones it has handed out: for any number of nodes, whatever    *)
(* the interleaving of the loads and the compare-and-swaps.                *)
THEOREM PoolIsAStack ==
    ASSUME NEW a, Acquirers = {a}
    PROVE  PoolSpec => PoolKeepsItsNodes
<1>1. PoolInit => PoolInv /\ Stack!Init
    BY PoolInitInv DEF Stack!Init
<1>2. PoolInv /\ [PoolNext]_poolVars => PoolInv' /\ [Stack!Next]_(Stack!vars)
    BY PoolStep
<1>3. PoolInv => PoolTypeOK /\ OneOwner /\ NothingLeaks
    BY BetweenCalls DEF PoolInv
<1>4. QED
    BY <1>1, <1>2, <1>3, PTL DEF PoolSpec, PoolKeepsItsNodes, ImplementsFreeStack, Stack!Spec

-----------------------------------------------------------------------------
(* The ring.                                                               *)

(* What a counter holds when it has counted to n.                          *)
Wrap(n) == n % Word

ProducerAt ==
    /\ ppc # "storing" => pstores = {} /\ tail_ = Wrap(pushed)
    /\ ppc = "writing" => ptail = tail_ /\ pushed < popped + Capacity
    /\ ppc # "idle" => pitem \in Values
    /\ ppc = "storing" =>
          /\ pstores # {}
          /\ tail_ = IF "tail" \in pstores THEN ptail ELSE Plus(ptail, 1)
          /\ IF "sequence" \in pstores
             THEN ptail = Wrap(pushed) /\ pushed < popped + Capacity
             ELSE pushed > 0 /\ ptail = Wrap(pushed - 1)

ConsumerAt ==
    /\ cpc # "storing" => cstores = {} /\ head_ = Wrap(popped)
    /\ cpc = "reading" => chead = head_ /\ popped < pushed
    /\ cpc = "storing" =>
          /\ cstores # {}
          /\ head_ = IF "head" \in cstores THEN chead ELSE Plus(chead, 1)
          /\ IF "sequence" \in cstores
             THEN chead = Wrap(popped) /\ popped < pushed /\ citem \in Values
             ELSE popped > 0 /\ chead = Wrap(popped - 1)

Counted == popped <= pushed /\ pushed <= popped + Capacity

(* Published, and not given back.                                          *)
FullSlots ==
    \A n \in popped .. pushed - 1 :
        /\ sequence[At(n)] = Wrap(n + 1)
        /\ IF n = popped /\ "sequence" \in cstores THEN storage[At(n)] = Nothing
                                                   ELSE storage[At(n)] \in Values

(* Given back, and not published.                                          *)
FreeSlots ==
    \A n \in pushed .. popped + Capacity - 1 :
        /\ sequence[At(n)] = Wrap(n)
        /\ storage[At(n)] = IF n = pushed /\ "sequence" \in pstores THEN pitem ELSE Nothing

Inv == TypeOK /\ ProducerAt /\ ConsumerAt /\ Counted /\ FullSlots /\ FreeSlots

-----------------------------------------------------------------------------
(* Remainders.                                                             *)

LEMMA RestOfRest ==
    ASSUME NEW n \in Nat, NEW K \in Nat \ {0}, NEW W \in Nat \ {0}, W % K = 0
    PROVE  (n % W) % K = n % K
<1>1. PICK m \in Nat : W = K * m
  <2>1. W \div K \in Nat /\ W = K * (W \div K) + (W % K)
    BY QuotientAndRest
  <2>2. W = K * (W \div K)
    BY <2>1
  <2>3. QED
    BY <2>1, <2>2, Zenon
<1>2. PICK q \in Nat : n = W * q + (n % W)
    BY QuotientAndRest
<1>3. n % W \in Nat
    BY QuotientAndRest
<1>4. PICK a \in Nat : n % W = K * a + ((n % W) % K)
    BY <1>3, QuotientAndRest
<1> DEFINE s == (n % W) % K
<1>5. s \in 0 .. K - 1
    BY <1>3, QuotientAndRest
<1> HIDE DEF s
<1>6. n = K * (m * q + a) + s
  <2>1. K * (m * q + a) = (K * m) * q + K * a
    OBVIOUS
  <2>2. QED
    BY <1>1, <1>2, <1>4, <2>1 DEF s
<1>7. m * q + a \in Nat
    OBVIOUS
<1>8. n % K = s
    BY <1>5, <1>6, <1>7, RestIs
<1>9. QED
    BY <1>8 DEF s

LEMMA RestOfSum ==
    ASSUME NEW n \in Nat, NEW d \in Nat, NEW W \in Nat \ {0}
    PROVE  ((n % W) + d) % W = (n + d) % W
<1>1. PICK q \in Nat, r \in 0 .. W - 1 : r = n % W /\ n = W * q + r
    BY QuotientAndRest
<1> DEFINE e == r + d
<1>2. e \in Nat
    OBVIOUS
<1> HIDE DEF e
<1>3. PICK p \in Nat, s \in 0 .. W - 1 : s = e % W /\ e = W * p + s
    BY <1>2, QuotientAndRest
<1>4. n + d = W * (q + p) + s
  <2>1. n + d = W * q + (r + d)
    BY <1>1
  <2>2. W * (q + p) = W * q + W * p
    OBVIOUS
  <2>3. QED
    BY <1>3, <2>1, <2>2 DEF e
<1> DEFINE t == q + p
<1>5. t \in Nat /\ n + d = W * t + s
    BY <1>4
<1> HIDE DEF t
<1>6. (n + d) % W = s
    BY <1>5, RestIs
<1>7. QED
    BY <1>1, <1>3, <1>6 DEF e

LEMMA CloseRestsDiffer ==
    ASSUME NEW K \in Nat \ {0}, NEW m \in Nat, NEW n \in Nat, m < n, n < m + K
    PROVE  m % K # n % K
<1> SUFFICES ASSUME m % K = n % K PROVE FALSE
    OBVIOUS
<1>1. PICK q \in Nat, r \in 0 .. K - 1 : r = n % K /\ n = K * q + r
    BY QuotientAndRest
<1>2. PICK p \in Nat, s \in 0 .. K - 1 : s = m % K /\ m = K * p + s
    BY QuotientAndRest
<1>3. K * q - K * p \in 0 .. K - 1 /\ K * (q - p) = K * q - K * p
    BY <1>1, <1>2
<1>4. ~ (q > p)
    BY <1>3
<1>5. ~ (q < p)
    BY <1>3
<1>6. QED
    BY <1>1, <1>2, <1>4, <1>5

(* The slot and the counter of a number.                                   *)
LEMMA Numbers ==
    ASSUME RingAssumption
    PROVE  /\ Capacity \in Nat /\ Capacity > 1 /\ Word \in Nat /\ Word > Capacity
           /\ \A n \in Nat : /\ At(n) \in Slots /\ Wrap(n) \in Words
                             /\ At(Wrap(n)) = At(n) /\ At(n + Capacity) = At(n)
                             /\ Plus(Wrap(n), 1) = Wrap(n + 1)
                             /\ Plus(Wrap(n), Capacity) = Wrap(n + Capacity)
           /\ \A m \in Nat, n \in Nat : m < n =>
                 /\ n < m + Capacity => At(m) # At(n)
                 /\ n < m + Word => Wrap(m) # Wrap(n)
           /\ \A n \in 0 .. Capacity - 1 : At(n) = n /\ Wrap(n) = n
<1>1. /\ Capacity \in Nat \ {0} /\ Word \in Nat \ {0} /\ Word % Capacity = 0
      /\ Capacity > 1 /\ Word > Capacity
    BY DEF RingAssumption
<1>2. \A n \in Nat : At(n) \in Slots /\ Wrap(n) \in Words
    BY <1>1, QuotientAndRest DEF At, Wrap, Slots, Words
<1>3. \A n \in Nat : At(Wrap(n)) = At(n)
    BY <1>1, RestOfRest DEF At, Wrap
<1>4. \A n \in 0 .. Capacity - 1 : At(n) = n /\ Wrap(n) = n
  <2> SUFFICES ASSUME NEW n \in 0 .. Capacity - 1 PROVE At(n) = n /\ Wrap(n) = n
    OBVIOUS
  <2>1. (Capacity * 0 + n) % Capacity = n
    BY <1>1, RestIs
  <2>2. (Word * 0 + n) % Word = n
    BY <1>1, RestIs
  <2>3. Capacity * 0 + n = n /\ Word * 0 + n = n
    BY <1>1
  <2>4. QED
    BY <2>1, <2>2, <2>3 DEF At, Wrap
<1>5. ASSUME NEW n \in Nat PROVE At(n + Capacity) = At(n)
  <2>1. PICK q \in Nat, r \in 0 .. Capacity - 1 : r = n % Capacity /\ n = Capacity * q + r
    <3>1. /\ n \div Capacity \in Nat /\ n % Capacity \in 0 .. Capacity - 1
          /\ n = Capacity * (n \div Capacity) + (n % Capacity)
      BY <1>1, <1>5, QuotientAndRest
    <3>2. QED
      BY <3>1, Zenon
  <2>2. n + Capacity = Capacity * (q + 1) + r
    BY <1>1, <2>1
  <2> DEFINE t == q + 1
  <2>3. t \in Nat /\ n + Capacity = Capacity * t + r
    BY <2>2
  <2> HIDE DEF t
  <2>4. (n + Capacity) % Capacity = r
    BY <1>1, <2>3, RestIs
  <2>5. QED
    BY <2>1, <2>4 DEF At
<1>6. \A n \in Nat : Plus(Wrap(n), 1) = Wrap(n + 1) /\ Plus(Wrap(n), Capacity) = Wrap(n + Capacity)
  <2> SUFFICES ASSUME NEW n \in Nat
               PROVE  Plus(Wrap(n), 1) = Wrap(n + 1) /\ Plus(Wrap(n), Capacity) = Wrap(n + Capacity)
    OBVIOUS
  <2>1. ((n % Word) + 1) % Word = (n + 1) % Word
    BY <1>1, RestOfSum
  <2>2. ((n % Word) + Capacity) % Word = (n + Capacity) % Word
    BY <1>1, RestOfSum
  <2>3. QED
    BY <2>1, <2>2 DEF Plus, Wrap
<1>7. \A m \in Nat, n \in Nat : m < n =>
          /\ n < m + Capacity => At(m) # At(n)
          /\ n < m + Word => Wrap(m) # Wrap(n)
    BY <1>1, CloseRestsDiffer DEF At, Wrap
<1>8. QED
    BY <1>1, <1>2, <1>3, <1>4, <1>5, <1>6, <1>7

-----------------------------------------------------------------------------
(* A slot that holds no object and is the producer's, a slot that does and *)
(* is the consumer's.                                                      *)

LEMMA TheFreeSlot ==
    ASSUME RingAssumption, TypeOK, Counted, FullSlots, tail_ = Wrap(pushed),
           sequence[At(tail_)] = tail_
    PROVE  pushed < popped + Capacity
<1>0. pushed \in Nat /\ popped \in Nat /\ Capacity \in Nat
    BY Numbers DEF TypeOK
<1> SUFFICES ASSUME pushed = popped + Capacity PROVE FALSE
    BY <1>0 DEF Counted
<1>1. At(tail_) = At(popped)
    BY Numbers DEF TypeOK
<1>2. sequence[At(popped)] = Wrap(popped + 1)
    BY Numbers DEF TypeOK, FullSlots
<1>3. popped + 1 < pushed /\ pushed < (popped + 1) + Word
    BY Numbers DEF TypeOK
<1>4. Wrap(popped + 1) # Wrap(pushed)
    BY <1>3, Numbers DEF TypeOK
<1>5. QED
    BY <1>1, <1>2, <1>4

LEMMA TheFullSlot ==
    ASSUME RingAssumption, TypeOK, Counted, FreeSlots, head_ = Wrap(popped),
           sequence[At(head_)] = Plus(head_, 1)
    PROVE  popped < pushed
<1> SUFFICES ASSUME popped = pushed PROVE FALSE
    BY DEF TypeOK, Counted
<1>1. At(head_) = At(popped) /\ Plus(head_, 1) = Wrap(popped + 1)
    BY Numbers DEF TypeOK
<1>2. sequence[At(popped)] = Wrap(popped)
    BY Numbers DEF TypeOK, FreeSlots
<1>3. Wrap(popped) # Wrap(popped + 1)
    BY Numbers DEF TypeOK
<1>4. QED
    BY <1>1, <1>2, <1>3

(* Every step keeps Inv.                                                   *)
LEMMA InvKept == ASSUME RingAssumption, Inv, Next PROVE Inv'
<1> DEFINE p == pushed
           c == popped
<1>0. /\ p \in Nat /\ c \in Nat /\ Capacity \in Nat /\ Capacity > 1
      /\ p + 1 \in Nat /\ c + 1 \in Nat
      /\ \A n \in c .. c + Capacity : n \in Nat
    BY Numbers DEF Inv, TypeOK
<1>1. ASSUME NEW v \in Values, TryPush(v) PROVE Inv'
  <2>1. UNCHANGED <<sequence, storage, head_, tail_, pstores, consumer, pushed>>
    BY <1>1 DEF TryPush, slots
  <2>2. CASE sequence[At(tail_)] = tail_
    <3>1. pushed < popped + Capacity
      BY <1>1, <2>2, TheFreeSlot DEF Inv, TryPush, ProducerAt
    <3>2. /\ ppc' = "writing" /\ pitem' = v /\ ptail' = tail_ /\ UNCHANGED pret
          /\ ppc = "idle" /\ pstores = {}
      BY <1>1, <2>2 DEF TryPush, Inv, ProducerAt
    <3>3. TypeOK' /\ ProducerAt'
      BY <1>1, <2>1, <3>1, <3>2 DEF Inv, TypeOK, ProducerAt, TryPush, consumer
    <3>4. ConsumerAt' /\ Counted' /\ FullSlots' /\ FreeSlots'
      BY <2>1, <3>2 DEF Inv, ConsumerAt, Counted, FullSlots, FreeSlots, consumer
    <3>5. QED
      BY <3>3, <3>4 DEF Inv
  <2>3. CASE sequence[At(tail_)] # tail_
    <3>1. pret' = FALSE /\ UNCHANGED <<ppc, pitem, ptail, size>>
      BY <1>1, <2>3 DEF TryPush
    <3>2. QED
      BY <2>1, <3>1 DEF Inv, TypeOK, ProducerAt, ConsumerAt, Counted, FullSlots, FreeSlots, consumer
  <2>4. QED
    BY <2>2, <2>3
<1>2. CASE Write
  <2>1. /\ ppc = "writing" /\ ptail = Wrap(p) /\ p < c + Capacity /\ pitem \in Values
        /\ storage' = [storage EXCEPT ![At(ptail)] = pitem]
        /\ ppc' = "storing" /\ pstores = {} /\ pstores' = {"sequence", "tail"}
        /\ UNCHANGED <<sequence, head_, tail_, pitem, ptail, pret, pushed, consumer, size>>
    BY <1>2 DEF Write, Inv, ProducerAt
  <2>2. At(ptail) = At(p) /\ At(p) \in Slots
    BY <1>0, <2>1, Numbers
  <2>3. TypeOK' /\ ProducerAt'
    BY <2>1 DEF Inv, TypeOK, ProducerAt, consumer
  <2>4. ConsumerAt' /\ Counted'
    BY <2>1 DEF Inv, ConsumerAt, Counted, consumer
  <2>5. FullSlots'
    <3>1. ASSUME NEW n \in c .. p - 1 PROVE storage'[At(n)] = storage[At(n)]
      <4>1. At(n) # At(p)
        BY <1>0, <2>1, Numbers
      <4>2. QED
        BY <2>1, <2>2, <4>1
    <3>2. QED
      BY <2>1, <3>1 DEF Inv, FullSlots, consumer
  <2>6. FreeSlots'
    <3>1. ASSUME NEW n \in p .. c + Capacity - 1
          PROVE  storage'[At(n)] = IF n = p THEN pitem ELSE Nothing
      <4>1. CASE n = p
        BY <2>1, <2>2, <4>1 DEF Inv, TypeOK
      <4>2. CASE n # p
        <5>1. At(p) # At(n)
          BY <1>0, <2>1, <4>2, Numbers DEF Inv, Counted
        <5>2. storage[At(n)] = Nothing
          BY <4>2 DEF Inv, FreeSlots
        <5>3. QED
          BY <1>0, <2>1, <2>2, <4>2, <5>1, <5>2, Numbers DEF Inv, TypeOK
      <4>3. QED
        BY <4>1, <4>2
    <3>2. QED
      BY <2>1, <3>1 DEF Inv, FreeSlots, consumer
  <2>7. QED
    BY <2>3, <2>4, <2>5, <2>6 DEF Inv
<1>3. CASE StoreSequence
  <2>1. /\ ppc = "storing" /\ ptail = Wrap(p) /\ p < c + Capacity /\ pitem \in Values
        /\ "sequence" \in pstores /\ pstores' = pstores \ {"sequence"}
        /\ tail_ = IF "tail" \in pstores THEN ptail ELSE Plus(ptail, 1)
        /\ sequence' = [sequence EXCEPT ![At(ptail)] = Plus(ptail, 1)]
        /\ pushed' = p + 1
        /\ IF pstores' = {} THEN ppc' = "idle" /\ pret' = TRUE ELSE UNCHANGED <<ppc, pret>>
        /\ UNCHANGED <<pitem, ptail, storage, head_, tail_, consumer, size>>
    BY <1>3 DEF StoreSequence, ProducerStored, Inv, ProducerAt, TypeOK
  <2>2. /\ At(ptail) = At(p) /\ At(p) \in Slots
        /\ Plus(ptail, 1) = Wrap(p + 1) /\ Wrap(p + 1) \in Words
    BY <1>0, <2>1, Numbers
  <2>3. TypeOK'
    BY <1>0, <2>1, <2>2 DEF Inv, TypeOK, consumer
  <2>4. ProducerAt'
    <3>1. (p + 1) - 1 = p /\ p + 1 > 0
      BY <1>0
    <3>2. CASE "tail" \in pstores
      BY <2>1, <2>2, <3>1, <3>2 DEF ProducerAt, Inv
    <3>3. CASE "tail" \notin pstores
      <4>1. pstores' = {}
        BY <2>1, <3>3 DEF Inv, TypeOK
      <4>2. QED
        BY <2>1, <2>2, <3>1, <3>3, <4>1 DEF ProducerAt
    <3>4. QED
      BY <3>2, <3>3
  <2>5. ConsumerAt' /\ Counted'
    BY <1>0, <2>1 DEF Inv, ConsumerAt, Counted, consumer
  <2>6. ASSUME NEW n \in c .. c + Capacity - 1, n # p
        PROVE  sequence'[At(n)] = sequence[At(n)]
    <3>1. At(n) # At(p)
      BY <1>0, <2>1, <2>6, Numbers DEF Inv, Counted
    <3>2. QED
      BY <2>1, <2>2, <3>1
  <2>7. FullSlots'
    <3>1. ASSUME NEW n \in c .. p
          PROVE  /\ sequence'[At(n)] = Wrap(n + 1)
                 /\ IF n = c /\ "sequence" \in cstores THEN storage[At(n)] = Nothing
                                                       ELSE storage[At(n)] \in Values
      <4>1. CASE n = p
        <5>1. sequence'[At(n)] = Wrap(n + 1)
          BY <2>1, <2>2, <4>1 DEF Inv, TypeOK
        <5>2. storage[At(n)] = pitem
          BY <1>0, <2>1, <4>1 DEF Inv, FreeSlots
        <5>3. "sequence" \in cstores => c < p
          BY DEF Inv, ConsumerAt
        <5>4. QED
          BY <1>0, <2>1, <4>1, <5>1, <5>2, <5>3
      <4>2. CASE n # p
        <5>1. n \in c .. p - 1 /\ n \in c .. c + Capacity - 1
          BY <1>0, <2>1, <4>2
        <5>2. QED
          BY <2>6, <4>2, <5>1 DEF Inv, FullSlots
      <4>3. QED
        BY <4>1, <4>2
    <3>2. QED
      BY <1>0, <2>1, <3>1 DEF FullSlots, consumer
  <2>8. FreeSlots'
    <3>1. ASSUME NEW n \in p + 1 .. c + Capacity - 1
          PROVE  sequence'[At(n)] = Wrap(n) /\ storage[At(n)] = Nothing
      <4>1. n \in p .. c + Capacity - 1 /\ n \in c .. c + Capacity - 1 /\ n # p
        BY <1>0 DEF Inv, Counted
      <4>2. QED
        BY <2>6, <4>1 DEF Inv, FreeSlots
    <3>2. QED
      BY <2>1, <3>1 DEF FreeSlots, consumer
  <2>9. QED
    BY <2>3, <2>4, <2>5, <2>7, <2>8 DEF Inv
<1>4. CASE StoreTail
  <2>1. /\ ppc = "storing" /\ "tail" \in pstores /\ pstores' = pstores \ {"tail"}
        /\ tail_' = Plus(ptail, 1)
        /\ IF pstores' = {} THEN ppc' = "idle" /\ pret' = TRUE ELSE UNCHANGED <<ppc, pret>>
        /\ UNCHANGED <<pitem, ptail, sequence, storage, head_, pushed, consumer, size>>
    BY <1>4 DEF StoreTail, ProducerStored, slots, Inv, ProducerAt, TypeOK
  <2>2. CASE "sequence" \in pstores
    <3>1. ptail = Wrap(p) /\ p < c + Capacity /\ pitem \in Values /\ "sequence" \in pstores'
      BY <2>1, <2>2 DEF Inv, ProducerAt
    <3>2. Plus(ptail, 1) = Wrap(p + 1) /\ Wrap(p + 1) \in Words
      BY <1>0, <3>1, Numbers
    <3>3. TypeOK' /\ ProducerAt'
      BY <2>1, <3>1, <3>2 DEF Inv, TypeOK, ProducerAt, consumer
    <3>4. QED
      BY <2>1, <2>2, <3>1, <3>3 DEF Inv, ConsumerAt, Counted, FullSlots, FreeSlots, consumer
  <2>3. CASE "sequence" \notin pstores
    <3>1. ptail = Wrap(p - 1) /\ p > 0 /\ pstores' = {}
      BY <2>1, <2>3 DEF Inv, ProducerAt, TypeOK
    <3>2. Plus(ptail, 1) = Wrap(p) /\ Wrap(p) \in Words
      <4>1. p - 1 \in Nat /\ (p - 1) + 1 = p
        BY <1>0, <3>1
      <4>2. QED
        BY <1>0, <3>1, <4>1, Numbers
    <3>3. TypeOK' /\ ProducerAt'
      BY <2>1, <3>1, <3>2 DEF Inv, TypeOK, ProducerAt, consumer
    <3>4. QED
      BY <2>1, <2>3, <3>1, <3>3 DEF Inv, ConsumerAt, Counted, FullSlots, FreeSlots, consumer
  <2>4. QED
    BY <2>2, <2>3
<1>5. CASE TryPop
  <2>1. UNCHANGED <<sequence, storage, head_, tail_, citem, cstores, popped, producer, size>> /\ cpc = "idle"
    BY <1>5 DEF TryPop, slots
  <2>2. CASE sequence[At(head_)] = Plus(head_, 1)
    <3>1. popped < pushed
      BY <2>1, <2>2, TheFullSlot DEF Inv, ConsumerAt
    <3>2. cpc' = "reading" /\ chead' = head_ /\ UNCHANGED cret /\ cstores = {}
      BY <1>5, <2>1, <2>2 DEF TryPop, Inv, ConsumerAt
    <3>3. TypeOK' /\ ConsumerAt'
      BY <2>1, <3>1, <3>2 DEF Inv, TypeOK, ConsumerAt, producer
    <3>4. ProducerAt' /\ Counted' /\ FullSlots' /\ FreeSlots'
      BY <2>1, <3>2 DEF Inv, ProducerAt, Counted, FullSlots, FreeSlots, producer
    <3>5. QED
      BY <3>3, <3>4 DEF Inv
  <2>3. CASE sequence[At(head_)] # Plus(head_, 1)
    <3>1. cret' = FALSE /\ UNCHANGED <<cpc, chead>>
      BY <1>5, <2>3 DEF TryPop
    <3>2. QED
      BY <2>1, <3>1 DEF Inv, TypeOK, ProducerAt, ConsumerAt, Counted, FullSlots, FreeSlots, producer
  <2>4. QED
    BY <2>2, <2>3
<1>6. CASE MoveOut
  <2>1. /\ cpc = "reading" /\ chead = Wrap(c) /\ c < p
        /\ citem' = storage[At(chead)]
        /\ storage' = [storage EXCEPT ![At(chead)] = Nothing]
        /\ cpc' = "storing" /\ cstores = {} /\ cstores' = {"sequence", "head"}
        /\ UNCHANGED <<sequence, head_, tail_, chead, cret, popped, producer, size>>
    BY <1>6 DEF MoveOut, Inv, ConsumerAt
  <2>2. At(chead) = At(c) /\ At(c) \in Slots
    BY <1>0, <2>1, Numbers
  <2>3. storage[At(c)] \in Values
    BY <1>0, <2>1 DEF Inv, FullSlots
  <2>4. TypeOK' /\ ConsumerAt'
    BY <2>1, <2>2, <2>3 DEF Inv, TypeOK, ConsumerAt, producer
  <2>5. ProducerAt' /\ Counted'
    BY <2>1 DEF Inv, ProducerAt, Counted, producer
  <2>6. ASSUME NEW n \in c .. c + Capacity - 1, n # c PROVE storage'[At(n)] = storage[At(n)]
    <3>1. At(n) # At(c)
      BY <1>0, <2>6, Numbers
    <3>2. QED
      BY <2>1, <2>2, <3>1
  <2>7. FullSlots'
    <3>1. ASSUME NEW n \in c .. p - 1
          PROVE  IF n = c THEN storage'[At(n)] = Nothing ELSE storage'[At(n)] \in Values
      <4>1. CASE n = c
        BY <2>1, <2>2, <4>1 DEF Inv, TypeOK
      <4>2. CASE n # c
        <5>1. n \in c .. c + Capacity - 1
          BY <1>0 DEF Inv, Counted
        <5>2. QED
          BY <2>6, <4>2, <5>1 DEF Inv, FullSlots
      <4>3. QED
        BY <4>1, <4>2
    <3>2. QED
      BY <2>1, <3>1 DEF Inv, FullSlots, producer
  <2>8. FreeSlots'
    <3>1. ASSUME NEW n \in p .. c + Capacity - 1 PROVE storage'[At(n)] = storage[At(n)]
      <4>1. n \in c .. c + Capacity - 1 /\ n # c
        BY <1>0, <2>1
      <4>2. QED
        BY <2>6, <4>1
    <3>2. QED
      BY <2>1, <3>1 DEF Inv, FreeSlots, producer
  <2>9. QED
    BY <2>4, <2>5, <2>7, <2>8 DEF Inv
<1>7. CASE ReleaseSequence
  <2>1. /\ cpc = "storing" /\ chead = Wrap(c) /\ c < p
        /\ "sequence" \in cstores /\ cstores' = cstores \ {"sequence"}
        /\ head_ = IF "head" \in cstores THEN chead ELSE Plus(chead, 1)
        /\ sequence' = [sequence EXCEPT ![At(chead)] = Plus(chead, Capacity)]
        /\ popped' = c + 1
        /\ IF cstores' = {} THEN cpc' = "idle" /\ cret' = TRUE ELSE UNCHANGED <<cpc, cret>>
        /\ UNCHANGED <<citem, chead, storage, head_, tail_, producer, size>>
    BY <1>7 DEF ReleaseSequence, ConsumerStored, Inv, ConsumerAt, TypeOK
  <2>2. /\ At(chead) = At(c) /\ At(c) \in Slots /\ At(c + Capacity) = At(c)
        /\ Plus(chead, 1) = Wrap(c + 1)
        /\ Plus(chead, Capacity) = Wrap(c + Capacity) /\ Wrap(c + Capacity) \in Words
    BY <1>0, <2>1, Numbers
  <2>3. TypeOK'
    BY <1>0, <2>1, <2>2 DEF Inv, TypeOK, producer
  <2>4. ConsumerAt'
    <3>1. (c + 1) - 1 = c /\ c + 1 > 0
      BY <1>0
    <3>2. CASE "head" \in cstores
      BY <2>1, <2>2, <3>1, <3>2 DEF ConsumerAt, Inv
    <3>3. CASE "head" \notin cstores
      <4>1. cstores' = {}
        BY <2>1, <3>3 DEF Inv, TypeOK
      <4>2. QED
        BY <2>1, <2>2, <3>1, <3>3, <4>1 DEF ConsumerAt
    <3>4. QED
      BY <3>2, <3>3
  <2>5. Counted'
    BY <1>0, <2>1 DEF Inv, Counted, producer
  <2>6. ProducerAt'
    BY <1>0, <2>1 DEF Inv, ProducerAt, producer
  <2>7. ASSUME NEW n \in c .. c + Capacity - 1, n # c
        PROVE  sequence'[At(n)] = sequence[At(n)]
    <3>1. At(n) # At(c)
      BY <1>0, <2>7, Numbers
    <3>2. QED
      BY <2>1, <2>2, <3>1
  <2>8. FullSlots'
    <3>1. ASSUME NEW n \in c + 1 .. p - 1
          PROVE  sequence'[At(n)] = Wrap(n + 1) /\ storage[At(n)] \in Values
      <4>1. n \in c .. c + Capacity - 1 /\ n # c /\ n \in c .. p - 1
        BY <1>0 DEF Inv, Counted
      <4>2. QED
        BY <2>7, <4>1 DEF Inv, FullSlots
    <3>2. QED
      BY <2>1, <3>1 DEF FullSlots, producer
  <2>9. FreeSlots'
    <3>1. ASSUME NEW n \in p .. c + Capacity
          PROVE  /\ sequence'[At(n)] = Wrap(n)
                 /\ storage[At(n)] = IF n = p /\ "sequence" \in pstores THEN pitem ELSE Nothing
      <4>1. CASE n = c + Capacity
        <5>1. sequence'[At(n)] = Wrap(n)
          BY <2>1, <2>2, <4>1 DEF Inv, TypeOK
        <5>2. storage[At(n)] = Nothing
          BY <1>0, <2>1, <2>2, <4>1 DEF Inv, FullSlots
        <5>3. "sequence" \in pstores => p < c + Capacity
          BY DEF Inv, ProducerAt
        <5>4. QED
          BY <1>0, <4>1, <5>1, <5>2, <5>3
      <4>2. CASE n # c + Capacity
        <5>1. n \in c .. c + Capacity - 1 /\ n # c /\ n \in p .. c + Capacity - 1
          BY <1>0, <2>1, <4>2
        <5>2. QED
          BY <2>7, <5>1 DEF Inv, FreeSlots
      <4>3. QED
        BY <4>1, <4>2
    <3>2. (c + 1) + Capacity - 1 = c + Capacity
      BY <1>0
    <3>3. QED
      BY <2>1, <3>1, <3>2 DEF FreeSlots, producer
  <2>10. QED
    BY <2>3, <2>4, <2>5, <2>6, <2>8, <2>9 DEF Inv
<1>8. CASE StoreHead
  <2>1. /\ cpc = "storing" /\ "head" \in cstores /\ cstores' = cstores \ {"head"}
        /\ head_' = Plus(chead, 1)
        /\ IF cstores' = {} THEN cpc' = "idle" /\ cret' = TRUE ELSE UNCHANGED <<cpc, cret>>
        /\ UNCHANGED <<citem, chead, sequence, storage, tail_, popped, producer, size>>
    BY <1>8 DEF StoreHead, ConsumerStored, slots, Inv, ConsumerAt, TypeOK
  <2>2. CASE "sequence" \in cstores
    <3>1. chead = Wrap(c) /\ c < p /\ citem \in Values /\ "sequence" \in cstores'
      BY <2>1, <2>2 DEF Inv, ConsumerAt
    <3>2. Plus(chead, 1) = Wrap(c + 1) /\ Wrap(c + 1) \in Words
      BY <1>0, <3>1, Numbers
    <3>3. TypeOK' /\ ConsumerAt'
      BY <2>1, <3>1, <3>2 DEF Inv, TypeOK, ConsumerAt, producer
    <3>4. QED
      BY <2>1, <2>2, <3>1, <3>3 DEF Inv, ProducerAt, Counted, FullSlots, FreeSlots, producer
  <2>3. CASE "sequence" \notin cstores
    <3>1. chead = Wrap(c - 1) /\ c > 0 /\ cstores' = {}
      BY <2>1, <2>3 DEF Inv, ConsumerAt, TypeOK
    <3>2. Plus(chead, 1) = Wrap(c) /\ Wrap(c) \in Words
      <4>1. c - 1 \in Nat /\ (c - 1) + 1 = c
        BY <1>0, <3>1
      <4>2. QED
        BY <1>0, <3>1, <4>1, Numbers
    <3>3. TypeOK' /\ ConsumerAt'
      BY <2>1, <3>1, <3>2 DEF Inv, TypeOK, ConsumerAt, producer
    <3>4. QED
      BY <2>1, <2>3, <3>1, <3>3 DEF Inv, ProducerAt, Counted, FullSlots, FreeSlots, producer
  <2>4. QED
    BY <2>2, <2>3
<1>9. CASE Size
  <2>1. size' = (tail_ + Word - head_) % Word /\ UNCHANGED <<slots, head_, tail_, producer, consumer>>
    BY <1>9 DEF Size, Minus
  <2>2. tail_ + Word - head_ \in Nat
    <3>1. Word \in Nat
      BY Numbers
    <3>2. tail_ \in 0 .. Word - 1 /\ head_ \in 0 .. Word - 1
      BY DEF Inv, TypeOK, Words
    <3>3. QED
      BY <3>1, <3>2
  <2>3. size' \in Words
    BY <2>1, <2>2, Numbers DEF Wrap
  <2>4. QED
    BY <2>1, <2>3 DEF Inv, TypeOK, ProducerAt, ConsumerAt, Counted, FullSlots, FreeSlots, slots,
                      producer, consumer
<1>10. QED
    BY <1>1, <1>2, <1>3, <1>4, <1>5, <1>6, <1>7, <1>8, <1>9 DEF Next, Produce, Consume

LEMMA InvHolds == ASSUME RingAssumption PROVE Spec => []Inv
<1>1. Init => Inv
  <2> SUFFICES ASSUME Init PROVE Inv
    OBVIOUS
  <2> USE DEF Init
  <2>1. /\ Capacity \in Nat /\ Capacity > 1 /\ Word \in Nat /\ Word > Capacity
        /\ \A n \in Slots : At(n) = n /\ Wrap(n) = n
    BY Numbers DEF Slots
  <2>2. 0 \in Slots /\ Wrap(0) = 0
    BY <2>1 DEF Slots
  <2>3. TypeOK
    <3>1. \A i \in Slots : i \in Words
      BY <2>1 DEF Slots, Words
    <3>2. 0 \in Words
      BY <2>1 DEF Words
    <3>3. QED
      BY <3>1, <3>2 DEF TypeOK
  <2>4. ProducerAt /\ ConsumerAt /\ Counted
    BY <2>1, <2>2 DEF ProducerAt, ConsumerAt, Counted
  <2>5. FullSlots
    BY DEF FullSlots
  <2>6. FreeSlots
    BY <2>1 DEF FreeSlots, Slots
  <2>7. QED
    BY <2>3, <2>4, <2>5, <2>6 DEF Inv
<1>2. Inv /\ [Next]_vars => Inv'
  <2>1. ASSUME Inv, Next PROVE Inv'
    BY <2>1, InvKept
  <2>2. ASSUME Inv, UNCHANGED vars PROVE Inv'
    BY <2>2 DEF Inv, TypeOK, ProducerAt, ConsumerAt, Counted, FullSlots, FreeSlots, vars, slots,
                producer, consumer
  <2>3. QED
    BY <2>1, <2>2
<1>3. QED
    BY <1>1, <1>2, PTL DEF Spec

-----------------------------------------------------------------------------
(* The theorems.                                                           *)

(* The producer constructs only in a slot that holds no object, the        *)
(* consumer moves only out of one that does and that is published, and the *)
(* two are never in the same slot: for every capacity, however often the   *)
(* ring and the counters wrap (spsc_queue.hpp:42, 87).                     *)
THEOREM NeverInTheSameSlot == ASSUME RingAssumption PROVE Spec => []NoSlotRace
<1>1. Inv => NoSlotRace
  <2> SUFFICES ASSUME Inv PROVE NoSlotRace
    OBVIOUS
  <2>0. pushed \in Nat /\ popped \in Nat /\ Capacity \in Nat /\ Capacity > 1
    BY Numbers DEF Inv, TypeOK
  <2>1. ASSUME ppc = "writing"
        PROVE  At(ptail) = At(pushed) /\ storage[At(ptail)] = Nothing /\ pushed < popped + Capacity
    <3>1. ptail = Wrap(pushed) /\ pushed < popped + Capacity /\ pstores = {}
      BY <2>1 DEF Inv, ProducerAt
    <3>2. At(ptail) = At(pushed)
      BY <2>0, <3>1, Numbers
    <3>3. storage[At(pushed)] = Nothing
      BY <2>0, <3>1 DEF Inv, FreeSlots
    <3>4. QED
      BY <3>1, <3>2, <3>3
  <2>2. ASSUME cpc = "reading"
        PROVE  At(chead) = At(popped) /\ storage[At(chead)] # Nothing /\ popped < pushed
    <3>1. chead = Wrap(popped) /\ popped < pushed /\ cstores = {}
      BY <2>2 DEF Inv, ConsumerAt
    <3>2. At(chead) = At(popped)
      BY <2>0, <3>1, Numbers
    <3>3. storage[At(popped)] \in Values
      BY <2>0, <3>1 DEF Inv, FullSlots
    <3>4. QED
      BY <3>1, <3>2, <3>3 DEF RingAssumption
  <2>3. ASSUME ppc = "writing", cpc = "reading" PROVE At(ptail) # At(chead)
    <3>1. popped < pushed /\ pushed < popped + Capacity
      BY <2>1, <2>2, <2>3
    <3>2. At(popped) # At(pushed)
      BY <2>0, <3>1, Numbers
    <3>3. QED
      BY <2>1, <2>2, <2>3, <3>2
  <2>4. QED
    BY <2>1, <2>2, <2>3 DEF NoSlotRace
<1>2. QED
    BY <1>1, InvHolds, PTL

(* A call of try_push is refused only by a full ring, one of try_pop only  *)
(* by an empty one (spsc_queue.hpp:42, 80); every variable keeps its type. *)
THEOREM NeverRefusedForNothing ==
    ASSUME RingAssumption PROVE Spec => [](TypeOK /\ RefusedOnlyWhenFullOrEmpty)
<1>1. Inv => TypeOK /\ RefusedOnlyWhenFullOrEmpty
  <2> SUFFICES ASSUME Inv PROVE RefusedOnlyWhenFullOrEmpty
    BY DEF Inv
  <2>0. /\ pushed \in Nat /\ popped \in Nat /\ Capacity \in Nat /\ Capacity > 1
        /\ popped <= pushed /\ pushed <= popped + Capacity
    BY Numbers DEF Inv, TypeOK, Counted
  <2>1. ASSUME ppc = "idle", pushed - popped # Capacity PROVE sequence[At(tail_)] = tail_
    <3>1. tail_ = Wrap(pushed) /\ At(tail_) = At(pushed)
      BY <2>0, <2>1, Numbers DEF Inv, ProducerAt
    <3>2. pushed \in pushed .. popped + Capacity - 1
      BY <2>0, <2>1
    <3>3. QED
      BY <3>1, <3>2 DEF Inv, FreeSlots
  <2>2. ASSUME cpc = "idle", pushed # popped PROVE sequence[At(head_)] = Plus(head_, 1)
    <3>1. head_ = Wrap(popped) /\ At(head_) = At(popped) /\ Plus(head_, 1) = Wrap(popped + 1)
      BY <2>0, <2>2, Numbers DEF Inv, ConsumerAt
    <3>2. popped \in popped .. pushed - 1
      BY <2>0, <2>2
    <3>3. QED
      BY <3>1, <3>2 DEF Inv, FullSlots
  <2>3. QED
    BY <2>1, <2>2 DEF RefusedOnlyWhenFullOrEmpty
<1>2. QED
    BY <1>1, InvHolds, PTL

(* The difference of two counters is what was counted in between.          *)
LEMMA Difference ==
    ASSUME RingAssumption, NEW m \in Nat, NEW n \in Nat, m <= n, n <= m + Capacity
    PROVE  Minus(Wrap(n), Wrap(m)) <= Capacity
<1> DEFINE a == Wrap(m)
           d == n - m
<1>1. /\ Word \in Nat /\ Capacity \in Nat /\ Word > Capacity
      /\ a \in 0 .. Word - 1 /\ Wrap(n) \in 0 .. Word - 1
      /\ d \in Nat /\ d <= Capacity /\ m + d = n
    BY Numbers DEF Words
<1>2. a = m % Word /\ Wrap(n) = n % Word /\ Minus(Wrap(n), a) = (Wrap(n) + Word - a) % Word
    BY DEF Wrap, Minus
<1>3. Word \in Nat \ {0} /\ m \in Nat
    BY <1>1
<1> SUFFICES Minus(Wrap(n), a) <= Capacity
    OBVIOUS
<1> HIDE DEF a, d
<1>4. Wrap(n) = (a + d) % Word
  <2>1. ((m % Word) + d) % Word = (m + d) % Word
    BY <1>1, <1>3, RestOfSum
  <2>2. QED
    BY <1>1, <1>2, <2>1
<1>5. CASE a + d < Word
  <2>1. Wrap(n) = a + d
    <3> DEFINE e == a + d
    <3>1. e \in 0 .. Word - 1 /\ Word * 0 + e = e
      BY <1>1, <1>5
    <3> HIDE DEF e
    <3>2. (Word * 0 + e) % Word = e
      BY <1>1, <3>1, RestIs
    <3>3. QED
      BY <1>4, <3>1, <3>2 DEF e
  <2>2. Wrap(n) + Word - a = Word * 1 + d /\ d \in 0 .. Word - 1
    BY <1>1, <2>1
  <2>3. (Word * 1 + d) % Word = d
    BY <1>1, <2>2, RestIs
  <2>4. QED
    BY <1>1, <1>2, <2>2, <2>3
<1>6. CASE a + d >= Word
  <2>1. Wrap(n) = a + d - Word
    <3>1. a + d - Word \in 0 .. Word - 1 /\ Word * 1 + (a + d - Word) = a + d
      BY <1>1, <1>6
    <3>2. (Word * 1 + (a + d - Word)) % Word = a + d - Word
      BY <1>1, <3>1, RestIs
    <3>3. QED
      BY <1>4, <3>1, <3>2
  <2>2. Wrap(n) + Word - a = Word * 0 + d /\ d \in 0 .. Word - 1
    BY <1>1, <2>1
  <2>3. (Word * 0 + d) % Word = d
    BY <1>1, <2>2, RestIs
  <2>4. QED
    BY <1>1, <1>2, <2>2, <2>3
<1>7. QED
    BY <1>1, <1>5, <1>6

(* size() is at most the capacity but while the producer has published a   *)
(* slot and not yet its tail_: only then can it wrap (spsc_queue.hpp:62).  *)
THEOREM SizeIsRightBetweenPushes == ASSUME RingAssumption PROVE Spec => SizeWrapsOnlyDuringPush
<1>1. ASSUME Inv, Size PROVE size' <= Capacity \/ pstores = {"tail"}
  <2>0. /\ pushed \in Nat /\ popped \in Nat /\ Capacity \in Nat
        /\ popped <= pushed /\ pushed <= popped + Capacity
    BY <1>1, Numbers DEF Inv, TypeOK, Counted
  <2>1. size' = Minus(tail_, Wrap(popped))
    BY <1>1 DEF Size, Inv, ConsumerAt
  <2>2. CASE tail_ = Wrap(pushed)
    BY <2>0, <2>1, <2>2, Difference
  <2>3. CASE tail_ # Wrap(pushed) /\ pstores # {"tail"}
    <3>1. ppc = "storing" /\ pstores = {"sequence"}
      <4>1. ppc = "storing" /\ pstores # {}
        BY <1>1, <2>3 DEF Inv, ProducerAt, TypeOK
      <4>2. pstores \subseteq {"sequence", "tail"}
        BY <1>1 DEF Inv, TypeOK
      <4>3. "sequence" \in pstores
        BY <2>3, <4>1, <4>2
      <4>4. "tail" \notin pstores
        BY <1>1, <2>3, <4>1, <4>3 DEF Inv, ProducerAt
      <4>5. QED
        BY <4>1, <4>2, <4>3, <4>4
    <3>2. pushed < popped + Capacity /\ tail_ = Plus(Wrap(pushed), 1)
      BY <1>1, <3>1 DEF Inv, ProducerAt
    <3>3. tail_ = Wrap(pushed + 1)
      BY <2>0, <3>2, Numbers
    <3>4. pushed + 1 \in Nat /\ popped <= pushed + 1 /\ pushed + 1 <= popped + Capacity
      BY <2>0, <3>2
    <3>5. QED
      BY <2>0, <2>1, <3>3, <3>4, Difference
  <2>4. QED
    BY <2>2, <2>3
<1>2. Inv /\ [Next]_vars => [Size => size' <= Capacity \/ pstores = {"tail"}]_vars
    BY <1>1
<1>3. QED
    BY <1>2, InvHolds, PTL DEF Spec, SizeWrapsOnlyDuringPush

-----------------------------------------------------------------------------
(* The ring implements BoundedFifo: StoreSequence is Push, ReleaseSequence *)
(* is Pop, and every other access leaves what is inside as it is.          *)

(* The item of number n that is inside, and all of them from c up to p.    *)
Item(n, c, stores, item, st) == IF n = c /\ "sequence" \in stores THEN item ELSE st[At(n)]
Items(c, p, stores, item, st) == [i \in 1 .. p - c |-> Item(c + i - 1, c, stores, item, st)]

LEMMA ItemsFacts ==
    ASSUME NEW c \in Nat, NEW p \in Nat, c <= p, NEW stores, NEW item, NEW st,
           \A n \in c .. p - 1 : Item(n, c, stores, item, st) \in Values
    PROVE  /\ Items(c, p, stores, item, st) \in Seq(Values)
           /\ Len(Items(c, p, stores, item, st)) = p - c
           /\ \A i \in 1 .. p - c :
                 Items(c, p, stores, item, st)[i] = Item(c + i - 1, c, stores, item, st)
<1>1. \A i \in 1 .. p - c : c + i - 1 \in c .. p - 1
    OBVIOUS
<1>2. p - c \in Nat
    OBVIOUS
<1>3. \A i \in 1 .. p - c : Item(c + i - 1, c, stores, item, st) \in Values
    BY <1>1
<1> DEFINE all == Items(c, p, stores, item, st)
<1>4. all \in [1 .. p - c -> Values]
    BY <1>3 DEF Items
<1>5. \A i \in 1 .. p - c : all[i] = Item(c + i - 1, c, stores, item, st)
    BY DEF Items
<1> HIDE DEF all
<1>6. all \in Seq(Values) /\ Len(all) = p - c
    BY <1>2, <1>4
<1>7. QED
    BY <1>5, <1>6 DEF all

LEMMA SameItems ==
    ASSUME NEW c \in Nat, NEW p \in Nat, c <= p, NEW m1, NEW i1, NEW s1, NEW m2, NEW i2, NEW s2,
           \A n \in c .. p - 1 : Item(n, c, m1, i1, s1) = Item(n, c, m2, i2, s2)
    PROVE  Items(c, p, m1, i1, s1) = Items(c, p, m2, i2, s2)
<1>1. \A i \in 1 .. p - c : c + i - 1 \in c .. p - 1
    OBVIOUS
<1>2. \A i \in 1 .. p - c : Item(c + i - 1, c, m1, i1, s1) = Item(c + i - 1, c, m2, i2, s2)
    BY <1>1
<1>3. QED
    BY <1>2, Zenon DEF Items

LEMMA FirstItem ==
    ASSUME NEW c \in Nat, NEW p \in Nat
    PROVE  \A i \in 1 .. p - c : c + i - 1 = c <=> i = 1
    OBVIOUS

LEMMA InsideIs ==
    ASSUME NEW c \in Nat, c = popped, NEW p \in Nat, p = pushed, c <= p
    PROVE  Inside = Items(c, p, cstores, citem, storage)
<1>1. QED
    BY FirstItem DEF Inside, Items, Item

LEMMA NextInsideIs ==
    ASSUME NEW c \in Nat, c = popped', NEW p \in Nat, p = pushed', c <= p
    PROVE  Inside' = Items(c, p, cstores', citem', storage')
<1>1. Inside' = [i \in 1 .. p - c |->
                    IF i = 1 /\ "sequence" \in cstores' THEN citem' ELSE storage'[At(c + i - 1)]]
    BY DEF Inside, At
<1>2. QED
    BY <1>1, FirstItem DEF Items, Item

LEMMA StepIsFifo == ASSUME RingAssumption, Inv, Next PROVE [Fifo!Next]_Inside
<1> DEFINE p == pushed
           c == popped
<1>1. /\ p \in Nat /\ c \in Nat /\ Capacity \in Nat /\ c <= p /\ p <= c + Capacity
      /\ p + 1 \in Nat /\ c + 1 \in Nat /\ \A n \in c .. p : n \in Nat
    BY Numbers DEF Inv, TypeOK, Counted
<1>2. Inside = Items(c, p, cstores, citem, storage)
    BY <1>1, InsideIs
<1>3. \A n \in c .. p - 1 : Item(n, c, cstores, citem, storage) \in Values
    BY <1>1 DEF Inv, FullSlots, ConsumerAt, Item, TypeOK
<1>4. /\ Inside \in Seq(Values) /\ Len(Inside) = p - c
      /\ \A i \in 1 .. p - c : Inside[i] = Item(c + i - 1, c, cstores, citem, storage)
    BY <1>1, <1>2, <1>3, ItemsFacts
<1>5. ASSUME UNCHANGED <<pushed, popped>>,
             \A n \in c .. p - 1 : Item(n, c, cstores', citem', storage')
                                   = Item(n, c, cstores, citem, storage)
      PROVE  Inside' = Inside
  <2>1. Inside' = Items(c, p, cstores', citem', storage')
    BY <1>1, <1>5, NextInsideIs
  <2>2. QED
    BY <1>1, <1>2, <1>5, <2>1, SameItems
<1>6. ASSUME UNCHANGED <<storage, pushed, popped, citem>>,
             "sequence" \in cstores' <=> "sequence" \in cstores
      PROVE  Inside' = Inside
    BY <1>5, <1>6 DEF Item
<1>7. ASSUME NEW v \in Values, TryPush(v) PROVE Inside' = Inside
    BY <1>6, <1>7 DEF TryPush, slots, consumer
<1>8. CASE Write
  <2>1. /\ storage' = [storage EXCEPT ![At(ptail)] = pitem]
        /\ UNCHANGED <<pushed, popped, citem, cstores>>
    BY <1>8 DEF Write, consumer
  <2>2. ptail = Wrap(p) /\ p < c + Capacity
    BY <1>8 DEF Write, Inv, ProducerAt
  <2>3. At(ptail) = At(p)
    BY <1>1, <2>2, Numbers
  <2>4. ASSUME NEW n \in c .. p - 1 PROVE storage'[At(n)] = storage[At(n)]
    <3>1. At(n) # At(p) /\ At(n) \in Slots
      BY <1>1, <2>2, Numbers
    <3>2. QED
      BY <2>1, <2>3, <3>1 DEF Inv, TypeOK
  <2>5. QED
    BY <1>5, <2>1, <2>4 DEF Item
<1>9. CASE StoreSequence
  <2>1. /\ UNCHANGED <<storage, popped, citem, cstores>> /\ pushed' = p + 1
        /\ "sequence" \in pstores /\ p < c + Capacity /\ pitem \in Values
    BY <1>9 DEF StoreSequence, ProducerStored, consumer, Inv, ProducerAt, TypeOK
  <2>2. storage[At(p)] = pitem /\ ("sequence" \in cstores => c < p)
    BY <1>1, <2>1 DEF Inv, FreeSlots, ConsumerAt, TypeOK
  <2>3. Item(p, c, cstores, citem, storage) = pitem
    BY <1>1, <2>2 DEF Item
  <2>4. Inside' = Items(c, p + 1, cstores, citem, storage)
    BY <1>1, <2>1, NextInsideIs
  <2>5. \A n \in c .. p : Item(n, c, cstores, citem, storage) \in Values
    BY <1>1, <1>3, <2>1, <2>3
  <2>6. /\ Inside' \in Seq(Values) /\ Len(Inside') = p + 1 - c
        /\ \A i \in 1 .. p + 1 - c : Inside'[i] = Item(c + i - 1, c, cstores, citem, storage)
    BY <1>1, <2>4, <2>5, ItemsFacts
  <2>7. /\ Append(Inside, pitem) \in Seq(Values) /\ Len(Append(Inside, pitem)) = p + 1 - c
        /\ \A i \in 1 .. p + 1 - c :
              Append(Inside, pitem)[i] = IF i = p + 1 - c THEN pitem ELSE Inside[i]
    <3>1. /\ Append(Inside, pitem) \in Seq(Values)
          /\ Len(Append(Inside, pitem)) = Len(Inside) + 1
          /\ \A i \in 1 .. Len(Inside) : Append(Inside, pitem)[i] = Inside[i]
          /\ Append(Inside, pitem)[Len(Inside) + 1] = pitem
      BY <1>4, <2>1, AppendProperties
    <3>2. Len(Inside) = p - c /\ (p - c) + 1 = p + 1 - c
      BY <1>1, <1>4
    <3> HIDE DEF p, c
    <3>3. \A i \in 1 .. p + 1 - c : i = p + 1 - c \/ i \in 1 .. p - c
      BY <1>1
    <3>4. QED
      BY <3>1, <3>2, <3>3
  <2>8. ASSUME NEW i \in 1 .. p + 1 - c PROVE Inside'[i] = Append(Inside, pitem)[i]
    <3>1. CASE i = p + 1 - c
      <4>1. c + i - 1 = p
        BY <1>1, <3>1
      <4>2. Inside'[i] = pitem
        BY <2>3, <2>6, <4>1
      <4>3. QED
        BY <2>7, <3>1, <4>2
    <3>2. CASE i # p + 1 - c
      <4>1. i \in 1 .. p - c
        BY <1>1, <3>2
      <4>2. QED
        BY <1>4, <2>6, <2>7, <3>2, <4>1
    <3>3. QED
      BY <3>1, <3>2
  <2>9. Inside' = Append(Inside, pitem)
    BY <2>6, <2>7, <2>8, SeqEqual
  <2>10. Len(Inside) < Capacity
    BY <1>1, <1>4, <2>1
  <2>11. QED
    BY <2>1, <2>9, <2>10 DEF Fifo!Next, Fifo!Push
<1>10. CASE StoreTail
    BY <1>6, <1>10 DEF StoreTail, slots, consumer
<1>11. CASE TryPop
    BY <1>6, <1>11 DEF TryPop, slots, producer
<1>12. CASE MoveOut
  <2>1. /\ cpc = "reading" /\ citem' = storage[At(chead)]
        /\ storage' = [storage EXCEPT ![At(chead)] = Nothing]
        /\ "sequence" \in cstores' /\ UNCHANGED <<pushed, popped>>
    BY <1>12 DEF MoveOut, producer
  <2>2. chead = Wrap(c) /\ c < p /\ "sequence" \notin cstores
    BY <2>1 DEF Inv, ConsumerAt
  <2>3. At(chead) = At(c)
    BY <1>1, <2>2, Numbers
  <2>4. ASSUME NEW n \in c .. p - 1
        PROVE  Item(n, c, cstores', citem', storage')
               = Item(n, c, cstores, citem, storage)
    <3>1. CASE n = c
      BY <2>1, <2>2, <2>3, <3>1 DEF Item
    <3>2. CASE n # c
      <4>1. At(n) # At(c) /\ At(n) \in Slots
        BY <1>1, <3>2, Numbers
      <4>2. QED
        BY <2>1, <2>3, <3>2, <4>1 DEF Item, Inv, TypeOK
    <3>3. QED
      BY <3>1, <3>2
  <2>5. QED
    BY <1>5, <2>1, <2>4
<1>13. CASE ReleaseSequence
  <2>1. /\ UNCHANGED <<storage, pushed, citem>> /\ popped' = c + 1
        /\ "sequence" \in cstores /\ "sequence" \notin cstores' /\ c < p
    BY <1>13 DEF ReleaseSequence, ConsumerStored, producer, Inv, ConsumerAt, TypeOK
  <2>2. \A n \in c + 1 .. p - 1 : Item(n, c + 1, cstores', citem, storage)
                                  = Item(n, c, cstores, citem, storage)
    BY <1>1, <2>1 DEF Item
  <2>3. /\ c + 1 <= p
        /\ \A n \in c + 1 .. p - 1 : Item(n, c + 1, cstores', citem, storage) \in Values
    BY <1>1, <1>3, <2>1, <2>2
  <2>4. Inside' = Items(c + 1, p, cstores', citem, storage)
    BY <1>1, <2>1, <2>3, NextInsideIs
  <2>5. /\ Inside' \in Seq(Values) /\ Len(Inside') = p - (c + 1)
        /\ \A i \in 1 .. p - (c + 1) :
              Inside'[i] = Item((c + 1) + i - 1, c + 1, cstores', citem, storage)
    BY <1>1, <2>3, <2>4, ItemsFacts
  <2>6. /\ Inside # <<>> /\ Tail(Inside) \in Seq(Values) /\ Len(Tail(Inside)) = p - (c + 1)
        /\ \A i \in 1 .. p - (c + 1) : Tail(Inside)[i] = Inside[i + 1]
    <3>1. Inside # <<>>
      BY <1>1, <1>4, <2>1, EmptySeq
    <3>2. QED
      BY <1>1, <1>4, <2>1, <3>1, HeadTailProperties
  <2>7. ASSUME NEW i \in 1 .. p - (c + 1) PROVE Inside'[i] = Tail(Inside)[i]
    <3>1. /\ (c + 1) + i - 1 = c + i /\ c + (i + 1) - 1 = c + i
          /\ c + i \in c + 1 .. p - 1 /\ i + 1 \in 1 .. p - c
      BY <1>1
    <3>2. Inside'[i] = Item(c + i, c, cstores, citem, storage)
      BY <2>2, <2>5, <3>1
    <3>3. Inside[i + 1] = Item(c + i, c, cstores, citem, storage)
      BY <1>4, <3>1
    <3>4. QED
      BY <2>6, <3>2, <3>3
  <2>8. Inside' = Tail(Inside)
    BY <2>5, <2>6, <2>7, SeqEqual
  <2>9. QED
    BY <2>6, <2>8 DEF Fifo!Next, Fifo!Pop
<1>14. CASE StoreHead
  <2>1. "sequence" \in cstores' <=> "sequence" \in cstores
    BY <1>14 DEF StoreHead, ConsumerStored
  <2>2. QED
    BY <1>6, <1>14, <2>1 DEF StoreHead, ConsumerStored, slots, producer
<1>15. CASE Size
    BY <1>6, <1>15 DEF Size, slots, producer, consumer
<1>16. QED
    BY <1>7, <1>8, <1>9, <1>10, <1>11, <1>12, <1>13, <1>14, <1>15 DEF Next, Produce, Consume

(* The ring is a FIFO of at most Capacity items, each handed over once and *)
(* in order, whatever the interleaving of the accesses and whichever of    *)
(* the stores of a push or a pop another thread sees first.                *)
THEOREM RingImplementsFifo == ASSUME RingAssumption PROVE Spec => ImplementsFifo
<1>1. Init => Fifo!Init
  <2> SUFFICES ASSUME Init PROVE Inside = <<>>
    BY DEF Fifo!Init
  <2>1. pushed - popped = 0
    BY DEF Init
  <2>2. QED
    BY <2>1 DEF Inside
<1>2. Inv /\ [Next]_vars => [Fifo!Next]_Inside
  <2>1. ASSUME Inv, Next PROVE [Fifo!Next]_Inside
    BY <2>1, StepIsFifo
  <2>2. ASSUME UNCHANGED vars PROVE Inside' = Inside
    BY <2>2 DEF Inside, vars, slots, producer, consumer
  <2>3. QED
    BY <2>1, <2>2
<1>3. QED
    BY <1>1, <1>2, InvHolds, PTL DEF Spec, ImplementsFifo, Fifo!Spec
=============================================================================
