----------------------------- MODULE L2BookView -----------------------------
(***************************************************************************)
(* L2BookView (src/include/book/l2_book.hpp), two buffers and the index of *)
(* the one to read, between the threads that publish a book and a thread   *)
(* that loads it. A snapshot is copied word by word, by both sides, in any *)
(* order: the buffers are not atomic. A word of a snapshot is the number   *)
(* of the publication it belongs to.                                       *)
(*                                                                         *)
(* In the workstation the consumer publishes symbol 0 on every turn of its *)
(* loop, the UI loads it, and a replay publishes it once more when it ends.*)
(***************************************************************************)
EXTENDS Naturals, FiniteSets

CONSTANTS Writers,      \* threads that publish
          Fields,       \* the words of an L2Snapshot
          MaxVersions   \* bound: how many snapshots are published

ASSUME ViewAssumption == MaxVersions \in Nat /\ Fields # {}

VARIABLES buffers, read_index,
          wpc, wslot, wtodo, wversion, windex,   \* publish: place and locals, per writer
          rpc, rindex, rtodo, got,               \* load: place and locals
          version,    \* the number of snapshots built
          latest,     \* history: the snapshot made readable last
          floor,      \* history: latest when the load began
          flips,      \* history: stores of read_index since the load began
          overlapped, \* history: writers whose publish another one overlaps
          mixed,      \* history: the publish that ended last was overlapped
          gotMixed    \* history: mixed when the load began

writer == <<wpc, wslot, wtodo, wversion, windex>>
reader == <<rpc, rindex, rtodo, got>>
published == <<latest, mixed>>
loaded == <<floor, flips, gotMixed>>
viewVars == <<buffers, read_index, writer, reader, version, published, loaded, overlapped>>

Buffers == {0, 1}
Versions == 0 .. MaxVersions

ViewInit == /\ buffers = [b \in Buffers |-> [f \in Fields |-> 0]]
            /\ read_index = 0
            /\ wpc = [w \in Writers |-> "idle"]
            /\ wslot = [w \in Writers |-> 0]
            /\ wtodo = [w \in Writers |-> {}]
            /\ wversion = [w \in Writers |-> 0]
            /\ windex = [w \in Writers |-> 0]
            /\ rpc = "idle" /\ rindex = 0 /\ rtodo = {} /\ got = [f \in Fields |-> 0]
            /\ version = 0 /\ latest = 0 /\ floor = 0 /\ flips = 0
            /\ overlapped = {} /\ mixed = FALSE /\ gotMixed = FALSE

-----------------------------------------------------------------------------
(* publish: the buffer not being read, the copy, and 1 - read_index, which *)
(* is a load and a store.                                                  *)

Publishing == {w \in Writers : wpc[w] # "idle"}

WriteSlot(w) ==
    /\ wpc[w] = "idle" /\ version < MaxVersions
    /\ version' = version + 1
    /\ wversion' = [wversion EXCEPT ![w] = version + 1]
    /\ wslot' = [wslot EXCEPT ![w] = 1 - read_index]
    /\ wtodo' = [wtodo EXCEPT ![w] = Fields]
    /\ wpc' = [wpc EXCEPT ![w] = "copying"]
    /\ overlapped' = IF Publishing = {} THEN {} ELSE overlapped \union Publishing \union {w}
    /\ UNCHANGED <<buffers, read_index, windex, reader, published, loaded>>

CopyIn(w, f) ==
    /\ wpc[w] = "copying" /\ f \in wtodo[w]
    /\ buffers' = [buffers EXCEPT ![wslot[w]][f] = wversion[w]]
    /\ wtodo' = [wtodo EXCEPT ![w] = @ \ {f}]
    /\ UNCHANGED <<read_index, wpc, wslot, wversion, windex, reader,
                   version, published, loaded, overlapped>>

(* Mutant: on to the index before the copy is complete. *)
LoadIndexEarly(w) ==
    /\ wpc[w] = "copying" /\ wtodo[w] # Fields
    /\ windex' = [windex EXCEPT ![w] = read_index]
    /\ wpc' = [wpc EXCEPT ![w] = "flipping"]
    /\ UNCHANGED <<buffers, read_index, wslot, wtodo, wversion, reader,
                   version, published, loaded, overlapped>>

LoadIndex(w) ==
    /\ wpc[w] = "copying" /\ wtodo[w] = {}
    /\ windex' = [windex EXCEPT ![w] = read_index]
    /\ wpc' = [wpc EXCEPT ![w] = "flipping"]
    /\ UNCHANGED <<buffers, read_index, wslot, wtodo, wversion, reader,
                   version, published, loaded, overlapped>>

(* Mutant: the index stays. *)
FlipNothing(w) ==
    /\ wpc[w] = "flipping"
    /\ read_index' = windex[w]
    /\ latest' = wversion[w] /\ mixed' = (w \in overlapped)
    /\ flips' = flips + 1
    /\ wpc' = [wpc EXCEPT ![w] = "idle"]
    /\ UNCHANGED <<buffers, wslot, wtodo, wversion, windex, reader, version,
                   floor, gotMixed, overlapped>>

Flip(w) ==
    /\ wpc[w] = "flipping"
    /\ read_index' = 1 - windex[w]
    /\ latest' = wversion[w] /\ mixed' = (w \in overlapped)
    /\ flips' = flips + 1
    /\ wpc' = [wpc EXCEPT ![w] = "idle"]
    /\ UNCHANGED <<buffers, wslot, wtodo, wversion, windex, reader, version,
                   floor, gotMixed, overlapped>>

-----------------------------------------------------------------------------
(* load.                                                                   *)

Load ==
    /\ rpc = "idle"
    /\ rindex' = read_index
    /\ rtodo' = Fields
    /\ floor' = latest /\ gotMixed' = mixed
    /\ flips' = 0
    /\ rpc' = "copying"
    /\ UNCHANGED <<buffers, read_index, writer, got, version, published, overlapped>>

CopyOut(f) ==
    /\ rpc = "copying" /\ f \in rtodo
    /\ got' = [got EXCEPT ![f] = buffers[rindex][f]]
    /\ rtodo' = rtodo \ {f}
    /\ UNCHANGED <<buffers, read_index, writer, rpc, rindex, version, published, loaded,
                   overlapped>>

ReturnSnapshot ==
    /\ rpc = "copying" /\ rtodo = {}
    /\ rpc' = "idle"
    /\ UNCHANGED <<buffers, read_index, writer, rindex, rtodo, got,
                   version, published, loaded, overlapped>>

ViewNext == \/ \E w \in Writers :
                  \/ WriteSlot(w)
                  \/ \E f \in Fields : CopyIn(w, f)
                  \/ LoadIndex(w)
                  \/ Flip(w)
            \/ Load
            \/ \E f \in Fields : CopyOut(f)
            \/ ReturnSnapshot

ViewSpec == ViewInit /\ [][ViewNext]_viewVars

-----------------------------------------------------------------------------
ViewTypeOK == /\ buffers \in [Buffers -> [Fields -> Versions]]
              /\ read_index \in Buffers
              /\ wpc \in [Writers -> {"idle", "copying", "flipping"}]
              /\ wslot \in [Writers -> Buffers] /\ windex \in [Writers -> Buffers]
              /\ wtodo \in [Writers -> SUBSET Fields] /\ wversion \in [Writers -> Versions]
              /\ rpc \in {"idle", "copying"} /\ rindex \in Buffers
              /\ rtodo \in SUBSET Fields /\ got \in [Fields -> Versions]
              /\ version \in Versions /\ latest \in Versions
              /\ floor \in Versions /\ flips \in Nat
              /\ overlapped \in SUBSET Writers
              /\ mixed \in BOOLEAN /\ gotMixed \in BOOLEAN

Copied == Fields \ rtodo

(* All the words of the load, so far, are of one publication.              *)
Whole == \A f, g \in Copied : got[f] = got[g]

(* "An immutable L2 snapshot" (submit_ticket): once a publish that no      *)
(* other one overlapped has ended, nothing is written to the buffer new    *)
(* loads are sent to and it holds that snapshot, until the next one ends.  *)
(* What breaks it is the replay's publish over one of the consumer's.      *)
PublishedIsImmutable ==
    ~ mixed =>
        /\ \A w \in Writers : wpc[w] = "copying" /\ wtodo[w] # {} => wslot[w] # read_index
        /\ \A f \in Fields : buffers[read_index][f] = latest

(* What two buffers do buy, whoever publishes: a load that finds such a    *)
(* publication, and overlaps the end of no publish, or of one with no      *)
(* other begun behind it in the buffer it reads, returns one whole         *)
(* snapshot, though publishes overlap each other while it copies.          *)
TornOnlyByTwoPublishes ==
    rpc = "copying" /\ ~ Whole =>
        \/ flips >= 2
        \/ flips = 1 /\ \E w \in Writers : wpc[w] # "idle" /\ wslot[w] = rindex
        \/ gotMixed

(* No word of a load is older than the snapshot that was the latest one    *)
(* when it began, unless the publish of that one was overlapped.           *)
NeverOlderThanLatest ==
    rpc = "copying" /\ ~ gotMixed => \A f \in Copied : got[f] >= floor

(* What load() is used for: a snapshot, the whole of it.                   *)
LoadIsWhole == rpc = "copying" => Whole
=============================================================================
