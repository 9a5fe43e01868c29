----------------------------- MODULE LinksProofs -----------------------------
(***************************************************************************)
(* What Walk reads, and the induction it takes to say so: lemmas that the  *)
(* proofs about the pool, the book and the recursive functions cite.       *)
(***************************************************************************)
EXTENDS Links, SequenceTheorems, FiniteSetTheorems, TLAPS

(* Induction over 0 .. n, stated for a set so that it can be cited: the    *)
(* k \notin T with the fewest numbers below it would be a counterexample.  *)
LEMMA InductionTo ==
    ASSUME NEW n \in Nat, NEW T, 0 \in T,
           \A k \in 1 .. n : k - 1 \in T => k \in T
    PROVE  \A k \in 0 .. n : k \in T
<1> SUFFICES ASSUME NEW j \in 0 .. n, j \notin T PROVE FALSE
    OBVIOUS
<1> DEFINE bad   == {k \in 0 .. n : k \notin T}
           below == [k \in bad |-> {i \in bad : i < k}]
           sets  == {below[k] : k \in bad}
<1>1. IsFiniteSet(bad)
  <2>1. IsFiniteSet(0 .. n) /\ bad \subseteq 0 .. n
    BY FS_Interval
  <2>2. QED
    BY <2>1, FS_Subset
<1>2. sets \subseteq FiniteSubsetsOf(bad) /\ sets # {}
  <2>1. ASSUME NEW k \in bad PROVE below[k] \in SUBSET bad /\ IsFiniteSet(below[k])
    BY <1>1, FS_Subset
  <2>2. j \in bad /\ below[j] \in sets
    OBVIOUS
  <2> HIDE DEF bad, below
  <2>3. QED
    BY <2>1, <2>2 DEF FiniteSubsetsOf
<1>3. PICK x \in sets : \A y \in sets : ~ (<<y, x>> \in StrictSubsetOrdering(bad))
  <2> HIDE DEF sets
  <2>1. IsWellFoundedOn(StrictSubsetOrdering(bad), FiniteSubsetsOf(bad))
    BY <1>1, FS_StrictSubsetOrderingWellFounded, Zenon
  <2>2. QED
    BY <1>2, <2>1, WFMin, Zenon
<1>4. PICK k \in bad : x = below[k]
    OBVIOUS
<1>5. k - 1 \in bad
    OBVIOUS
<1>6. <<below[k - 1], below[k]>> \in StrictSubsetOrdering(bad)
  <2>1. below[k - 1] \in SUBSET bad /\ below[k] \in SUBSET bad
    BY <1>5
  <2>2. below[k - 1] \subseteq below[k] /\ k - 1 \in below[k] /\ k - 1 \notin below[k - 1]
    BY <1>5
  <2> HIDE DEF below
  <2>3. QED
    BY <2>1, <2>2 DEF StrictSubsetOrdering
<1>7. QED
    BY <1>3, <1>4, <1>5, <1>6

(* A sequence without repetition has as many elements as its range.        *)
LEMMA LenOfDistinct ==
    ASSUME NEW S, NEW q \in Seq(S), \A i, j \in 1 .. Len(q) : q[i] = q[j] => i = j
    PROVE  LET R == {q[i] : i \in 1 .. Len(q)}
           IN  IsFiniteSet(R) /\ Cardinality(R) = Len(q)
<1> DEFINE R == {q[i] : i \in 1 .. Len(q)}
           f == [i \in 1 .. Len(q) |-> q[i]]
<1>1. Len(q) \in Nat /\ IsFiniteSet(1 .. Len(q)) /\ Cardinality(1 .. Len(q)) = Len(q)
    BY FS_Interval
<1>2. f \in Bijection(1 .. Len(q), R)
    BY DEF Bijection, Injection, Surjection, IsInjective
<1>3. QED
    BY <1>1, <1>2, FS_Bijection DEF ExistsBijection

(* The links of the cells of q, in that order, from first on.              *)
Linked(q, first, after, nil) ==
    /\ first = IF q = <<>> THEN nil ELSE q[1]
    /\ \A i \in 1 .. Len(q) : after[q[i]] = IF i = Len(q) THEN nil ELSE q[i + 1]

(* What is walked is what is linked.                                       *)
LEMMA WalkReads ==
    ASSUME NEW S, NEW nil, nil \notin S, NEW q \in Seq(S), NEW most \in Nat, Len(q) <= most,
           NEW first, NEW after, Linked(q, first, after, nil)
    PROVE  Walk(first, after, nil, most) = q
<1> DEFINE cell(w) == IF w = <<>> THEN first ELSE after[w[Len(w)]]
           more(w) == IF cell(w) = nil THEN w ELSE Append(w, cell(w))
           Is(f) == f = [k \in 0 .. most |-> IF k = 0 THEN <<>> ELSE more(f[k - 1])]
           upTo == CHOOSE f : Is(f)
           part(k) == SubSeq(q, 1, IF k < Len(q) THEN k ELSE Len(q))
<1>1. Len(q) \in Nat /\ \A i \in 1 .. Len(q) : q[i] \in S
    OBVIOUS
<1>2. ASSUME NEW k \in 0 .. most, k >= Len(q) PROVE part(k) = q
  <2>1. part(k) = SubSeq(q, 1, Len(q))
    BY <1>1, <1>2
  <2>2. QED
    BY <1>1, <2>1
<1>3. ASSUME NEW k \in 0 .. Len(q)
      PROVE  /\ part(k) \in Seq(S) /\ Len(part(k)) = k
             /\ \A i \in 1 .. k : part(k)[i] = q[i]
  <2>1. part(k) = SubSeq(q, 1, k)
    BY <1>1
  <2>2. QED
    BY <1>1, <2>1, SubSeqProperties
<1>4. ASSUME NEW k \in 1 .. most PROVE more(part(k - 1)) = part(k)
  <2>1. CASE k - 1 >= Len(q)
    <3>1. part(k - 1) = q /\ part(k) = q
      BY <1>1, <1>2, <2>1
    <3>2. cell(q) = nil
      <4>1. CASE q = <<>>
        BY <4>1 DEF Linked
      <4>2. CASE q # <<>>
        <5>1. Len(q) \in 1 .. Len(q)
          BY <1>1, <4>2, EmptySeq
        <5>2. QED
          BY <4>2, <5>1 DEF Linked
      <4>3. QED
        BY <4>1, <4>2
    <3> HIDE DEF part
    <3>3. QED
      BY <3>1, <3>2
  <2>2. CASE k - 1 < Len(q)
    <3> DEFINE w == part(k - 1)
    <3>1. k - 1 \in 0 .. Len(q) /\ k \in 1 .. Len(q) /\ k \in 0 .. Len(q)
      BY <1>1, <2>2
    <3>2. /\ w \in Seq(S) /\ Len(w) = k - 1
          /\ \A i \in 1 .. k - 1 : w[i] = q[i]
      BY <1>3, <3>1
    <3>3. /\ part(k) \in Seq(S) /\ Len(part(k)) = k
          /\ \A i \in 1 .. k : part(k)[i] = q[i]
      BY <1>3, <3>1
    <3> HIDE DEF part
    <3> HIDE DEF w
    <3>4. cell(w) = q[k]
      <4>1. CASE k = 1
        <5>1. w = <<>> /\ q # <<>>
          BY <3>1, <3>2, <4>1, EmptySeq
        <5>2. QED
          BY <4>1, <5>1 DEF Linked
      <4>2. CASE k # 1
        <5>1. w # <<>> /\ w[Len(w)] = q[k - 1] /\ k - 1 \in 1 .. Len(q) /\ k - 1 # Len(q)
          BY <1>1, <3>1, <3>2, <4>2
        <5>2. after[q[k - 1]] = q[(k - 1) + 1]
          BY <5>1 DEF Linked
        <5>3. QED
          BY <5>1, <5>2
      <4>3. QED
        BY <4>1, <4>2
    <3>5. q[k] \in S /\ more(w) = Append(w, q[k])
      BY <1>1, <3>1, <3>4
    <3>6. /\ Append(w, q[k]) \in Seq(S) /\ Len(Append(w, q[k])) = k
          /\ \A i \in 1 .. k : Append(w, q[k])[i] = q[i]
      BY <3>1, <3>2, <3>5, AppendProperties
    <3>7. Append(w, q[k]) = part(k)
      BY <3>3, <3>6, SeqEqual
    <3>8. QED
      BY <3>5, <3>7 DEF w
  <2>3. QED
    BY <1>1, <2>1, <2>2
<1>5. part(0) = <<>>
  <2>1. part(0) \in Seq(S) /\ Len(part(0)) = 0
    BY <1>1, <1>3
  <2>2. QED
    BY <2>1, EmptySeq
<1>6. Is(upTo)
  <2> HIDE DEF more
  <2> DEFINE all == [k \in 0 .. most |-> part(k)]
  <2>1. \A k \in 0 .. most : all[k] = IF k = 0 THEN <<>> ELSE more(all[k - 1])
    <3> HIDE DEF part
    <3> TAKE k \in 0 .. most
    <3>1. k # 0 => k - 1 \in 0 .. most /\ k \in 1 .. most
      OBVIOUS
    <3>2. QED
      BY <1>4, <1>5, <3>1
  <2>2. Is(all)
    <3> HIDE DEF part
    <3>1. all = [k \in 0 .. most |-> all[k]]
      OBVIOUS
    <3> HIDE DEF all
    <3>2. QED
      BY <2>1, <3>1
  <2> HIDE DEF Is, all
  <2>3. QED
    BY <2>2
<1>7. \A k \in 0 .. most : upTo[k] = part(k)
  <2> HIDE DEF more, part, upTo
  <2> DEFINE T == {k \in 0 .. most : upTo[k] = part(k)}
  <2>1. 0 \in T
    BY <1>5, <1>6
  <2>2. ASSUME NEW k \in 1 .. most, k - 1 \in T PROVE k \in T
    <3>1. upTo[k] = more(upTo[k - 1])
      BY <1>6
    <3>2. QED
      BY <1>4, <2>2, <3>1
  <2> HIDE DEF T
  <2>3. \A k \in 0 .. most : k \in T
    BY <2>1, <2>2, InductionTo
  <2>4. QED
    BY <2>3 DEF T
<1>8. Walk(first, after, nil, most) = upTo[most]
    BY Zenon DEF Walk
<1>9. QED
    BY <1>1, <1>2, <1>7, <1>8

-----------------------------------------------------------------------------
(* Quotients and rests.                                                    *)

LEMMA QuotientAndRest ==
    ASSUME NEW n \in Nat, NEW K \in Nat \ {0}
    PROVE  /\ n \div K \in Nat /\ n % K \in 0 .. K - 1
           /\ n = K * (n \div K) + (n % K)
    OBVIOUS

LEMMA QuotientIs ==
    ASSUME NEW n \in Nat, NEW K \in Nat \ {0}, NEW q, q = n \div K
    PROVE  q \in Nat /\ K * q <= n /\ n < K * q + K
    OBVIOUS

LEMMA RestIs ==
    ASSUME NEW K \in Nat \ {0}, NEW q \in Nat, NEW r \in 0 .. K - 1
    PROVE  (K * q + r) % K = r
<1>1. K * q + r \in Nat
    OBVIOUS
<1>2. PICK p \in Nat, s \in 0 .. K - 1 : s = (K * q + r) % K /\ K * q + r = K * p + s
    BY <1>1, QuotientAndRest
<1>3. ~ (q > p) /\ ~ (p > q)
  <2>1. ~ (q > p)
    BY <1>2
  <2>2. ~ (p > q)
    BY <1>2
  <2>3. QED
    BY <2>1, <2>2
<1>4. q = p
    BY <1>3
<1> DEFINE n == K * q + r
<1>5. n = K * p + s /\ n = K * q + r /\ s = n % K
    BY <1>2
<1> HIDE DEF n
<1>6. n % K = r
    BY <1>4, <1>5
<1>7. QED
    BY <1>6 DEF n

LEMMA WholesIs ==
    ASSUME NEW K \in Nat \ {0}, NEW q \in Nat, NEW r \in 0 .. K - 1, NEW n, n = K * q + r
    PROVE  n \div K = q /\ n % K = r
<1>1. n \in Nat
    OBVIOUS
<1>2. PICK p : p = n \div K
    OBVIOUS
<1>3. p \in Nat /\ K * p <= n /\ n < K * p + K
    BY <1>1, <1>2, QuotientIs
<1>4. ~ (q > p)
  <2> SUFFICES ASSUME q >= p + 1 PROVE FALSE
    BY <1>3
  <2>1. K * (p + 1) <= K * q /\ K * (p + 1) = K * p + K
    BY <1>3
  <2>2. QED
    BY <1>3, <2>1
<1>5. ~ (q < p)
  <2> SUFFICES ASSUME p >= q + 1 PROVE FALSE
    BY <1>3
  <2>1. K * (q + 1) <= K * p /\ K * (q + 1) = K * q + K
    BY <1>3
  <2>2. QED
    BY <1>3, <2>1
<1>6. p = q
    BY <1>3, <1>4, <1>5
<1>7. (K * q + r) % K = r
    BY RestIs
<1>8. QED
    BY <1>2, <1>6, <1>7
=============================================================================
