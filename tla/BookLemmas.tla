------------------------------ MODULE BookLemmas ------------------------------
(***************************************************************************)
(* What the operations of BookOps do to a book and what the calls of       *)
(* MatchOps do, for every value of the constants: lemmas the proofs about  *)
(* PriceTimeBook, MatchingEngine, OmsEngine and Desk cite. InductionTo (of *)
(* LinksProofs) is how they reason about the recursive functions.          *)
(***************************************************************************)
EXTENDS MatchOps, LinksProofs

LEMMA RemoveAtFacts ==
    ASSUME NEW S, NEW q \in Seq(S), NEW i \in 1 .. Len(q)
    PROVE  /\ RemoveAt(q, i) \in Seq(S)
           /\ Len(RemoveAt(q, i)) = Len(q) - 1
           /\ \A j \in 1 .. Len(q) - 1 :
                 RemoveAt(q, i)[j] = IF j < i THEN q[j] ELSE q[j + 1]
<1> DEFINE before == SubSeq(q, 1, i - 1)
           after  == SubSeq(q, i + 1, Len(q))
<1>1. /\ Len(q) \in Nat
      /\ \A j \in 1 .. i - 1 : q[j] \in S
      /\ \A j \in i + 1 .. Len(q) : q[j] \in S
    BY ElementOfSeq, LenProperties
<1>2. /\ before \in Seq(S)
      /\ Len(before) = i - 1
      /\ \A j \in 1 .. i - 1 : before[j] = q[j]
    BY <1>1, SubSeqProperties
<1>3. /\ after \in Seq(S)
      /\ Len(after) = Len(q) - i
      /\ \A j \in 1 .. Len(q) - i : after[j] = q[i + j]
    BY <1>1, SubSeqProperties
<1>4. RemoveAt(q, i) = before \o after
    BY DEF RemoveAt
<1> HIDE DEF before, after
<1>5. /\ RemoveAt(q, i) \in Seq(S)
      /\ Len(RemoveAt(q, i)) = Len(q) - 1
      /\ \A j \in 1 .. Len(q) - 1 :
            RemoveAt(q, i)[j] = IF j <= i - 1 THEN before[j] ELSE after[j - (i - 1)]
  <2>1. /\ before \o after \in Seq(S)
        /\ Len(before \o after) = Len(before) + Len(after)
        /\ \A j \in 1 .. Len(before) + Len(after) : (before \o after)[j] =
              IF j <= Len(before) THEN before[j] ELSE after[j - Len(before)]
    <3>1. before \in Seq(S) /\ after \in Seq(S)
      BY <1>2, <1>3
    <3>2. QED
      BY <3>1, ConcatProperties, Zenon
  <2>2. Len(before) + Len(after) = Len(q) - 1 /\ Len(before) = i - 1
    BY <1>1, <1>2, <1>3
  <2>3. QED
    BY <1>4, <2>1, <2>2
<1>6. ASSUME NEW j \in 1 .. Len(q) - 1
      PROVE  RemoveAt(q, i)[j] = IF j < i THEN q[j] ELSE q[j + 1]
  <2>1. CASE j < i
    BY <1>1, <1>2, <1>5, <2>1
  <2>2. CASE ~ (j < i)
    <3>1. /\ j - (i - 1) \in 1 .. Len(q) - i
          /\ i + (j - (i - 1)) = j + 1
          /\ ~ (j <= i - 1)
      BY <1>1, <2>2
    <3>2. QED
      BY <1>3, <1>5, <2>2, <3>1
  <2>3. QED
    BY <2>1, <2>2
<1>7. QED
    BY <1>5, <1>6

LEMMA AppendFacts ==
    ASSUME NEW S, NEW q \in Seq(S), NEW e \in S
    PROVE  /\ Append(q, e) \in Seq(S)
           /\ Len(Append(q, e)) = Len(q) + 1
           /\ \A j \in 1 .. Len(q) + 1 :
                 Append(q, e)[j] = IF j = Len(q) + 1 THEN e ELSE q[j]
    OBVIOUS

(* Taking id out of a queue that holds it once, at place i.                *)
LEMMA WithoutIdIsRemoveAt ==
    ASSUME NEW q, NEW i \in 1 .. Len(q), NEW id, q[i] = id,
           \A j \in 1 .. Len(q) : q[j] = id => j = i
    PROVE  WithoutId(q, id) = RemoveAt(q, i)
<1>1. Place(q, id) = i
    BY DEF Place
<1>2. QED
    BY <1>1 DEF WithoutId

-----------------------------------------------------------------------------
LEMMA RestingTyped ==
    ASSUME NEW b \in Book, NEW id \in Resting(b)
    PROVE  /\ id \in Ids
           /\ b.orders[id] \in Order
           /\ LevelOf(b.orders[id]) \in LevelKeys
    BY DEF Book, Resting, Order, LevelOf, LevelKeys

(* An order taken off its level is in no queue any more; every other queue *)
(* and every other order is as it was, and no order overtakes another.     *)
LEMMA OffLevelFacts ==
    ASSUME NEW b \in Book, NEW Q, QueuesHold(b, Q), NEW id \in Q,
           NEW off, off = OffLevel(b, id)
    PROVE  /\ off \in Book
           /\ off.orders = b.orders
           /\ QueuesHold(off, Q \ {id})
           /\ Levels(off) \subseteq Levels(b)
           /\ \A k \in LevelKeys : \A x, y \in Ids : Ahead(off, k, x, y) => Ahead(b, k, x, y)
<1> DEFINE h == LevelOf(b.orders[id])
           q == b.queue[h]
<1>1. id \in Resting(b) /\ h \in LevelKeys /\ id \in Ids
    BY RestingTyped DEF QueuesHold
<1>2. /\ q \in Seq(Ids) /\ Len(q) \in Nat
      /\ \A k \in LevelKeys : b.queue[k] \in Seq(Ids) /\ Len(b.queue[k]) \in Nat
    BY <1>1, LenProperties DEF Book
<1>3. PICK i \in 1 .. Len(q) : q[i] = id
    BY DEF QueuesHold
<1>4. \A j \in 1 .. Len(q) : q[j] = q[i] => j = i
    BY <1>1, <1>3 DEF QueuesHold
<1> DEFINE r == WithoutId(q, id)
<1>5. /\ r \in Seq(Ids)
      /\ Len(r) = Len(q) - 1
      /\ \A j \in 1 .. Len(r) : r[j] = IF j < i THEN q[j] ELSE q[j + 1]
      /\ \A j \in 1 .. Len(r) : r[j] # id
      /\ \A n \in 1 .. Len(q) : n # i => \E j \in 1 .. Len(r) : r[j] = q[n]
  <2> HIDE DEF q
  <2>1. q \in Seq(Ids) /\ Len(q) \in Nat /\ i \in 1 .. Len(q)
    BY <1>2, <1>3
  <2>2. r = RemoveAt(q, i)
    BY <1>3, <1>4, <2>1, WithoutIdIsRemoveAt
  <2> HIDE DEF r
  <2>3. /\ r \in Seq(Ids)
        /\ Len(r) = Len(q) - 1
        /\ \A j \in 1 .. Len(r) : r[j] = IF j < i THEN q[j] ELSE q[j + 1]
    BY <2>1, <2>2, RemoveAtFacts
  <2>4. \A j \in 1 .. Len(r) : r[j] # id
    BY <1>3, <1>4, <2>1, <2>3
  <2>5. ASSUME NEW n \in 1 .. Len(q), n # i
        PROVE  \E j \in 1 .. Len(r) : r[j] = q[n]
    <3>1. CASE n < i
      BY <2>1, <2>3, <3>1
    <3>2. CASE n > i
      <4>1. n - 1 \in 1 .. Len(r) /\ ~ (n - 1 < i) /\ (n - 1) + 1 = n
        BY <2>1, <2>3, <3>2
      <4>2. QED
        BY <2>3, <4>1
    <3>3. QED
      BY <2>1, <2>5, <3>1, <3>2
  <2>6. QED
    BY <2>3, <2>4, <2>5
<1>6. /\ off \in Book
      /\ off.orders = b.orders
      /\ off.queue[h] = r
      /\ \A k \in LevelKeys : k # h => off.queue[k] = b.queue[k]
    BY <1>1, <1>5 DEF OffLevel, Book
<1>7. Resting(off) = Resting(b)
    BY <1>6 DEF Resting
<1> HIDE DEF q, r
<1>8. ASSUME NEW k \in LevelKeys
      PROVE  \A j \in 1 .. Len(off.queue[k]) :
                \E n \in 1 .. Len(b.queue[k]) :
                   /\ off.queue[k][j] = b.queue[k][n]
                   /\ n = IF k = h /\ j >= i THEN j + 1 ELSE j
  <2>1. CASE k = h
    <3>1. off.queue[k] = r /\ b.queue[k] = q
      BY <1>6, <2>1 DEF q
    <3>2. Len(q) \in Nat /\ i \in 1 .. Len(q)
      BY <1>2, <1>3 DEF q
    <3>3. ASSUME NEW j \in 1 .. Len(r)
          PROVE  \E n \in 1 .. Len(q) :
                    r[j] = q[n] /\ n = IF j >= i THEN j + 1 ELSE j
      BY <1>5, <3>2
    <3>4. QED
      BY <2>1, <3>1, <3>3
  <2>2. CASE k # h
    BY <1>2, <1>6, <2>2
  <2>3. QED
    BY <2>1, <2>2
<1>9. QueuesHold(off, Q \ {id})
  <2>1. Q \ {id} \subseteq Resting(off)
    BY <1>7 DEF QueuesHold
  <2>2. ASSUME NEW k \in LevelKeys, NEW j \in 1 .. Len(off.queue[k])
        PROVE  /\ off.queue[k][j] \in Q \ {id}
               /\ LevelOf(off.orders[off.queue[k][j]]) = k
               /\ \A l \in 1 .. Len(off.queue[k]) : off.queue[k][l] = off.queue[k][j] => l = j
    <3>1. PICK n \in 1 .. Len(b.queue[k]) :
             /\ off.queue[k][j] = b.queue[k][n]
             /\ n = IF k = h /\ j >= i THEN j + 1 ELSE j
      BY <1>8
    <3>2. /\ b.queue[k][n] \in Q
          /\ LevelOf(b.orders[b.queue[k][n]]) = k
          /\ \A p \in 1 .. Len(b.queue[k]) : b.queue[k][p] = b.queue[k][n] => p = n
      BY DEF QueuesHold
    <3>3. off.queue[k][j] # id
      BY <1>5, <1>6, <3>1, <3>2 DEF q
    <3>4. ASSUME NEW l \in 1 .. Len(off.queue[k]), off.queue[k][l] = off.queue[k][j]
          PROVE  l = j
      <4>1. PICK p \in 1 .. Len(b.queue[k]) :
               /\ off.queue[k][l] = b.queue[k][p]
               /\ p = IF k = h /\ l >= i THEN l + 1 ELSE l
        BY <1>8
      <4>2. p = n
        BY <3>1, <3>2, <3>4, <4>1
      <4>3. off.queue[k] \in Seq(Ids) /\ Len(off.queue[k]) \in Nat /\ i \in Int
        BY <1>2, <1>6, LenProperties DEF Book
      <4>4. QED
        BY <3>1, <4>1, <4>2, <4>3
    <3>5. QED
      BY <1>6, <3>1, <3>2, <3>3, <3>4
  <2>3. ASSUME NEW x \in Q \ {id}
        PROVE  \E j \in 1 .. Len(off.queue[LevelOf(off.orders[x])]) :
                  off.queue[LevelOf(off.orders[x])][j] = x
    <3> DEFINE k == LevelOf(b.orders[x])
    <3>1. k \in LevelKeys /\ LevelOf(off.orders[x]) = k
      BY <1>6, RestingTyped DEF QueuesHold
    <3>2. PICK n \in 1 .. Len(b.queue[k]) : b.queue[k][n] = x
      BY DEF QueuesHold
    <3>3. CASE k = h
      <4>1. n \in 1 .. Len(q) /\ q[n] = x /\ n # i
        BY <1>3, <3>2, <3>3 DEF q
      <4>2. PICK j \in 1 .. Len(r) : r[j] = q[n]
        BY <1>5, <4>1
      <4>3. QED
        BY <1>6, <3>1, <3>3, <4>1, <4>2
    <3>4. CASE k # h
      BY <1>6, <3>1, <3>2, <3>4
    <3>5. QED
      BY <3>3, <3>4
  <2>4. QED
    BY <2>1, <2>2, <2>3 DEF QueuesHold
<1>10. Levels(off) \subseteq Levels(b)
  <2>1. ASSUME NEW k \in LevelKeys, b.queue[k] = <<>>
        PROVE  k # h
    BY <1>2, <1>3, <2>1 DEF q
  <2>2. QED
    BY <1>6, <2>1 DEF Levels
<1>11. ASSUME NEW k \in LevelKeys, NEW x \in Ids, NEW y \in Ids, Ahead(off, k, x, y)
       PROVE  Ahead(b, k, x, y)
  <2>1. PICK j, l \in 1 .. Len(off.queue[k]) :
            j < l /\ off.queue[k][j] = x /\ off.queue[k][l] = y
    BY <1>11 DEF Ahead
  <2>2. PICK n \in 1 .. Len(b.queue[k]) :
            /\ off.queue[k][j] = b.queue[k][n]
            /\ n = IF k = h /\ j >= i THEN j + 1 ELSE j
    BY <1>8
  <2>3. PICK p \in 1 .. Len(b.queue[k]) :
            /\ off.queue[k][l] = b.queue[k][p]
            /\ p = IF k = h /\ l >= i THEN l + 1 ELSE l
    BY <1>8
  <2>4. n < p
    <3>1. j \in Int /\ l \in Int /\ i \in Int
      OBVIOUS
    <3>2. QED
      BY <2>1, <2>2, <2>3, <3>1
  <2>5. QED
    BY <2>1, <2>2, <2>3, <2>4 DEF Ahead
<1>12. QED
    BY <1>6, <1>9, <1>10, <1>11

(* An order appended at its level is last there, and in no other queue.    *)
LEMMA AppendOrderFacts ==
    ASSUME NEW b \in Book, NEW id \in Ids, NEW o \in Order,
           NEW app, app = AppendOrder(b, id, o)
    PROVE  /\ app \in Book
           /\ app.orders[id] = o
           /\ \A x \in Ids : x # id => app.orders[x] = b.orders[x]
           /\ Resting(app) = Resting(b) \union {id}
           /\ Levels(app) = Levels(b) \union {LevelOf(o)}
           /\ app.queue[LevelOf(o)] = Append(b.queue[LevelOf(o)], id)
           /\ \A k \in LevelKeys : k # LevelOf(o) => app.queue[k] = b.queue[k]
<1> DEFINE h == LevelOf(o)
<1>1. h \in LevelKeys /\ o # NoOrder
    BY BookAssumption DEF Order, LevelOf, LevelKeys
<1>2. \A k \in LevelKeys : b.queue[k] \in Seq(Ids) /\ Len(b.queue[k]) \in Nat
    BY LenProperties DEF Book
<1>3. /\ app \in Book
      /\ app.orders = [b.orders EXCEPT ![id] = o]
      /\ app.queue[h] = Append(b.queue[h], id)
      /\ \A k \in LevelKeys : k # h => app.queue[k] = b.queue[k]
  <2>1. Append(b.queue[h], id) \in Seq(Ids)
    BY <1>1, <1>2
  <2>2. QED
    BY <1>1, <2>1 DEF AppendOrder, Book
<1>4. /\ Len(app.queue[h]) = Len(b.queue[h]) + 1
      /\ \A j \in 1 .. Len(b.queue[h]) + 1 :
            app.queue[h][j] = IF j = Len(b.queue[h]) + 1 THEN id ELSE b.queue[h][j]
    BY <1>1, <1>2, <1>3
<1>5. /\ app.orders[id] = o
      /\ \A x \in Ids : x # id => app.orders[x] = b.orders[x]
    BY <1>3 DEF Book
<1>6. Resting(app) = Resting(b) \union {id}
    BY <1>1, <1>5 DEF Resting
<1>7. Levels(app) = Levels(b) \union {h}
  <2>1. app.queue[h] # <<>>
    BY <1>1, <1>2, <1>4
  <2>2. QED
    BY <1>1, <1>3, <2>1 DEF Levels
<1>8. QED
    BY <1>3, <1>5, <1>6, <1>7

(* ... behind all the others,                                              *)
LEMMA AppendOrderAhead ==
    ASSUME NEW b \in Book, NEW id \in Ids, NEW o \in Order,
           NEW app, app = AppendOrder(b, id, o),
           NEW k \in LevelKeys, NEW x \in Ids, NEW y \in Ids, Ahead(app, k, x, y)
    PROVE  Ahead(b, k, x, y) \/ (y = id /\ k = LevelOf(o))
<1> DEFINE q == b.queue[k]
           r == app.queue[k]
<1>1. q \in Seq(Ids) /\ Len(q) \in Nat
    BY LenProperties DEF Book
<1>2. /\ k = LevelOf(o) => r = Append(q, id)
      /\ k # LevelOf(o) => r = q
    BY AppendOrderFacts
<1>3. /\ Append(q, id) \in Seq(Ids)
      /\ Len(Append(q, id)) = Len(q) + 1
      /\ \A n \in 1 .. Len(q) + 1 :
            Append(q, id)[n] = IF n = Len(q) + 1 THEN id ELSE q[n]
    BY <1>1, AppendFacts
<1>4. PICK i, j \in 1 .. Len(r) : i < j /\ r[i] = x /\ r[j] = y
    BY DEF Ahead
<1> HIDE DEF q, r
<1>5. CASE k = LevelOf(o) /\ j = Len(q) + 1
    BY <1>1, <1>2, <1>3, <1>4, <1>5
<1>6. CASE ~ (k = LevelOf(o) /\ j = Len(q) + 1)
  <2>1. j \in 1 .. Len(q) /\ q[j] = y
    BY <1>1, <1>2, <1>3, <1>4, <1>6
  <2>2. i \in 1 .. Len(q) /\ q[i] = x
    BY <1>1, <1>2, <1>3, <1>4, <2>1
  <2>3. QED
    BY <1>4, <2>1, <2>2 DEF Ahead, q
<1>7. QED
    BY <1>5, <1>6

(* ... so the queues hold one order more.                                  *)
LEMMA AppendOrderQueues ==
    ASSUME NEW b \in Book, NEW Q, QueuesHold(b, Q),
           NEW id \in Ids, id \notin Q, NEW o \in Order,
           NEW app, app = AppendOrder(b, id, o)
    PROVE  QueuesHold(app, Q \union {id})
<1> DEFINE h == LevelOf(o)
<1>1. h \in LevelKeys
    BY DEF Order, LevelOf, LevelKeys
<1>2. \A k \in LevelKeys : b.queue[k] \in Seq(Ids) /\ Len(b.queue[k]) \in Nat
    BY LenProperties DEF Book
<1>3. /\ app.queue[h] = Append(b.queue[h], id)
      /\ \A k \in LevelKeys : k # h => app.queue[k] = b.queue[k]
      /\ app.orders[id] = o
      /\ \A x \in Ids : x # id => app.orders[x] = b.orders[x]
      /\ Resting(app) = Resting(b) \union {id}
    BY AppendOrderFacts
<1>4. /\ Len(app.queue[h]) = Len(b.queue[h]) + 1
      /\ \A j \in 1 .. Len(b.queue[h]) + 1 :
            app.queue[h][j] = IF j = Len(b.queue[h]) + 1 THEN id ELSE b.queue[h][j]
    BY <1>1, <1>2, <1>3
<1> HIDE DEF h
<1>7. ASSUME NEW k \in LevelKeys, NEW j \in 1 .. Len(app.queue[k])
      PROVE  \/ j \in 1 .. Len(b.queue[k]) /\ app.queue[k][j] = b.queue[k][j]
             \/ k = h /\ j = Len(b.queue[k]) + 1 /\ app.queue[k][j] = id
  <2>1. CASE k = h
    BY <1>2, <1>4, <2>1
  <2>2. CASE k # h
    BY <1>3, <2>2
  <2>3. QED
    BY <2>1, <2>2
<1>8. \A k \in LevelKeys : \A j \in 1 .. Len(b.queue[k]) :
          b.queue[k][j] # id /\ b.queue[k][j] \in Q
    BY DEF QueuesHold
<1>9. QueuesHold(app, Q \union {id})
  <2>1. Q \union {id} \subseteq Resting(app)
    BY <1>3 DEF QueuesHold
  <2>2. ASSUME NEW k \in LevelKeys, NEW j \in 1 .. Len(app.queue[k])
        PROVE  /\ app.queue[k][j] \in Q \union {id}
               /\ LevelOf(app.orders[app.queue[k][j]]) = k
               /\ \A l \in 1 .. Len(app.queue[k]) : app.queue[k][l] = app.queue[k][j] => l = j
    <3>1. CASE j \in 1 .. Len(b.queue[k]) /\ app.queue[k][j] = b.queue[k][j]
      <4>1. /\ b.queue[k][j] \in Q
            /\ LevelOf(b.orders[b.queue[k][j]]) = k
            /\ \A l \in 1 .. Len(b.queue[k]) : b.queue[k][l] = b.queue[k][j] => l = j
        BY <3>1 DEF QueuesHold
      <4>2. b.queue[k][j] \in Ids /\ b.queue[k][j] # id
        BY <1>8, <3>1, <4>1 DEF QueuesHold, Resting
      <4>3. QED
        BY <1>3, <1>7, <3>1, <4>1, <4>2
    <3>2. CASE k = h /\ j = Len(b.queue[k]) + 1 /\ app.queue[k][j] = id
      <4>1. LevelOf(app.orders[id]) = k
        BY <1>3, <3>2 DEF h
      <4>2. QED
        BY <1>7, <1>8, <3>2, <4>1
    <3>3. QED
      BY <1>7, <3>1, <3>2
  <2>3. ASSUME NEW x \in Q \union {id}
        PROVE  \E j \in 1 .. Len(app.queue[LevelOf(app.orders[x])]) :
                  app.queue[LevelOf(app.orders[x])][j] = x
    <3>1. CASE x = id
      <4>1. LevelOf(app.orders[x]) = h
        BY <1>3, <3>1 DEF h
      <4>2. Len(b.queue[h]) + 1 \in 1 .. Len(app.queue[h])
        BY <1>1, <1>2, <1>4
      <4>3. QED
        BY <1>4, <3>1, <4>1, <4>2
    <3>2. CASE x # id
      <4> DEFINE k == LevelOf(b.orders[x])
      <4>1. x \in Q /\ x \in Ids /\ k \in LevelKeys /\ LevelOf(app.orders[x]) = k
        BY <1>3, <3>2, RestingTyped DEF QueuesHold
      <4>2. PICK n \in 1 .. Len(b.queue[k]) : b.queue[k][n] = x
        BY <4>1 DEF QueuesHold
      <4> HIDE DEF k
      <4>3. n \in 1 .. Len(app.queue[k]) /\ app.queue[k][n] = x
        <5>1. CASE k = h
          <6>1. Len(b.queue[h]) \in Nat /\ n \in 1 .. Len(b.queue[h])
            BY <1>1, <1>2, <4>2, <5>1
          <6>2. /\ n \in 1 .. Len(b.queue[h]) + 1
                /\ n # Len(b.queue[h]) + 1
            BY <6>1
          <6>3. app.queue[h][n] = b.queue[h][n]
            BY <1>4, <6>2
          <6>4. QED
            BY <1>4, <4>2, <5>1, <6>2, <6>3
        <5>2. CASE k # h
          BY <1>3, <4>1, <4>2, <5>2
        <5>3. QED
          BY <5>1, <5>2
      <4>4. QED
        BY <4>1, <4>3
    <3>3. QED
      BY <3>1, <3>2
  <2>4. QED
    BY <2>1, <2>2, <2>3 DEF QueuesHold
<1>10. QED
    BY <1>9

(* A change of quantity in place moves nothing.                            *)
LEMMA ResizedFacts ==
    ASSUME NEW b \in Book, QueuesHold(b, Resting(b)), NEW id \in Resting(b), NEW qty \in Int,
           NEW re, re = Resized(b, id, qty)
    PROVE  /\ re \in Book
           /\ re.queue = b.queue
           /\ Resting(re) = Resting(b)
           /\ QueuesHold(re, Resting(re))
           /\ Levels(re) = Levels(b)
<1> DEFINE o == [b.orders[id] EXCEPT !.qty = qty]
<1>1. /\ id \in Ids
      /\ b.orders[id] \in Order
    BY RestingTyped
<1>2. /\ o \in Order
      /\ LevelOf(o) = LevelOf(b.orders[id])
      /\ o # NoOrder
    BY <1>1, BookAssumption DEF Order, LevelOf
<1>3. /\ re \in Book
      /\ re.queue = b.queue
      /\ re.orders = [b.orders EXCEPT ![id] = o]
    BY <1>1, <1>2 DEF Resized, Book
<1>4. /\ re.orders[id] = o
      /\ \A x \in Ids : x # id => re.orders[x] = b.orders[x]
    BY <1>1, <1>3 DEF Book
<1> HIDE DEF o
<1>5. Resting(re) = Resting(b)
    BY <1>1, <1>2, <1>4 DEF Resting
<1>6. \A x \in Resting(b) : LevelOf(re.orders[x]) = LevelOf(b.orders[x])
    BY <1>2, <1>4 DEF Resting
<1>7. QueuesHold(re, Resting(re))
    BY <1>3, <1>5, <1>6 DEF QueuesHold
<1>8. Levels(re) = Levels(b)
    BY <1>3 DEF Levels
<1>9. QED
    BY <1>3, <1>4, <1>5, <1>7, <1>8 DEF o

(* A dropped order is out of the index and out of the queues.              *)
LEMMA DroppedFacts ==
    ASSUME NEW b \in Book, QueuesHold(b, Resting(b)), NEW id \in Resting(b),
           NEW dr, dr = Dropped(b, id)
    PROVE  /\ dr \in Book
           /\ dr.orders = [b.orders EXCEPT ![id] = NoOrder]
           /\ Resting(dr) = Resting(b) \ {id}
           /\ QueuesHold(dr, Resting(dr))
           /\ Levels(dr) \subseteq Levels(b)
           /\ \A k \in LevelKeys : \A x, y \in Ids : Ahead(dr, k, x, y) => Ahead(b, k, x, y)
<1> DEFINE off == OffLevel(b, id)
<1>1. /\ off \in Book
      /\ off.orders = b.orders
      /\ QueuesHold(off, Resting(b) \ {id})
      /\ Levels(off) \subseteq Levels(b)
      /\ \A k \in LevelKeys : \A x, y \in Ids : Ahead(off, k, x, y) => Ahead(b, k, x, y)
    BY OffLevelFacts
<1> HIDE DEF off
<1>2. /\ dr \in Book
      /\ dr.orders = [b.orders EXCEPT ![id] = NoOrder]
      /\ dr.queue = off.queue
    BY <1>1 DEF Dropped, Book, off
<1>3. Resting(dr) = Resting(b) \ {id}
    BY <1>2 DEF Resting, Book
<1>4. \A x \in Resting(dr) : dr.orders[x] = off.orders[x]
    BY <1>1, <1>2, <1>3 DEF Resting, Book
<1>5. QueuesHold(dr, Resting(dr))
    BY <1>1, <1>2, <1>3, <1>4 DEF QueuesHold
<1>6. Levels(dr) \subseteq Levels(b)
    BY <1>1, <1>2 DEF Levels
<1>7. \A k \in LevelKeys : \A x, y \in Ids : Ahead(dr, k, x, y) => Ahead(b, k, x, y)
  <2>1. \A k : \A x, y \in Ids : Ahead(dr, k, x, y) => Ahead(off, k, x, y)
    BY <1>2 DEF Ahead
  <2>2. QED
    BY <1>1, <2>1
<1>8. QED
    BY <1>2, <1>3, <1>5, <1>6, <1>7

-----------------------------------------------------------------------------
(* The operations keep a book sound, and the ones that succeed keep the    *)
(* orders of every level in their places.                                  *)

LEMMA SomeoneIsAhead ==
    ASSUME NEW b \in Book, NEW Q, QueuesHold(b, Q)
    PROVE  /\ NoOvertaking(b, b)
           /\ \A k \in LevelKeys : \A x, y \in Ids : Ahead(b, k, x, y) =>
                 /\ x \in Q /\ LevelOf(b.orders[x]) = k
                 /\ y \in Q /\ LevelOf(b.orders[y]) = k
<1>1. ASSUME NEW k \in LevelKeys, NEW x \in Ids, NEW y \in Ids, Ahead(b, k, x, y)
      PROVE  /\ x \in Q /\ LevelOf(b.orders[x]) = k
             /\ y \in Q /\ LevelOf(b.orders[y]) = k
    BY <1>1 DEF Ahead, QueuesHold
<1>2. ASSUME NEW k \in LevelKeys, NEW x \in Ids, NEW y \in Ids, Ahead(b, k, x, y), Ahead(b, k, y, x)
      PROVE  FALSE
  <2>1. PICK i, j \in 1 .. Len(b.queue[k]) :
            i < j /\ b.queue[k][i] = x /\ b.queue[k][j] = y
    BY <1>2 DEF Ahead
  <2>2. PICK l, n \in 1 .. Len(b.queue[k]) :
            l < n /\ b.queue[k][l] = y /\ b.queue[k][n] = x
    BY <1>2 DEF Ahead
  <2>3. l = j /\ n = i
    BY <2>1, <2>2 DEF QueuesHold
  <2>4. QED
    BY <2>1, <2>2, <2>3
<1>3. QED
    BY <1>1, <1>2 DEF NoOvertaking

(* Fewer levels still fit the pool, and so does one more if there is room. *)
LEMMA LevelsFit ==
    ASSUME NEW b, NEW c, FitsPools(b),
           \/ Levels(c) \subseteq Levels(b)
           \/ /\ Cardinality(Levels(b)) < MaxPriceLevels
              /\ \E k : Levels(c) = Levels(b) \union {k}
    PROVE  IsFiniteSet(Levels(c)) /\ Cardinality(Levels(c)) <= MaxPriceLevels
<1>1. /\ IsFiniteSet(Levels(b))
      /\ Cardinality(Levels(b)) \in Nat
      /\ Cardinality(Levels(b)) <= MaxPriceLevels
      /\ MaxPriceLevels \in Nat
    BY FS_CardinalityType, BookAssumption DEF FitsPools
<1>2. CASE Levels(c) \subseteq Levels(b)
  <2>1. /\ IsFiniteSet(Levels(c))
        /\ Cardinality(Levels(c)) <= Cardinality(Levels(b))
    BY <1>1, <1>2, FS_Subset
  <2>2. Cardinality(Levels(c)) \in Nat
    BY <2>1, FS_CardinalityType
  <2>3. QED
    BY <1>1, <2>1, <2>2
<1>3. CASE /\ Cardinality(Levels(b)) < MaxPriceLevels
           /\ \E k : Levels(c) = Levels(b) \union {k}
  <2>1. PICK k : Levels(c) = Levels(b) \union {k}
    BY <1>3
  <2>2. /\ IsFiniteSet(Levels(c))
        /\ Cardinality(Levels(c)) \in {Cardinality(Levels(b)), Cardinality(Levels(b)) + 1}
    BY <1>1, <2>1, FS_AddElement
  <2>3. QED
    BY <1>1, <1>3, <2>2
<1>4. QED
    BY <1>2, <1>3

LEMMA AddOrderFacts ==
    ASSUME NEW b, SoundBook(b), NEW id \in Ids, NEW s \in Side, NEW p \in Prices,
           NEW qty \in Int, NEW r, r = AddOrder(b, id, s, p, qty)
    PROVE  /\ SoundBook(r.book)
           /\ r.ok \in BOOLEAN
           /\ NoOvertaking(b, r.book)
           /\ ~ r.ok => r.book = b
<1> DEFINE o == [side |-> s, price |-> p, qty |-> qty]
           app == AppendOrder(b, id, o)
<1>1. /\ b \in Book
      /\ QueuesHold(b, Resting(b))
      /\ FitsPools(b)
    BY DEF SoundBook
<1>2. CASE ~ r.ok
  <2>1. r = Rejected(b)
    BY <1>2 DEF AddOrder, Done, Rejected
  <2>2. r.book = b /\ r.ok \in BOOLEAN
    BY <2>1 DEF Rejected
  <2>3. QED
    BY <1>1, <2>2, SomeoneIsAhead
<1>3. CASE r.ok
  <2>1. /\ r.book = app /\ r.ok \in BOOLEAN
        /\ id \notin Resting(b)
        /\ Cardinality(Resting(b)) < MaxOrders
        /\ RoomAtLevel(b, <<s, p>>)
    BY <1>3 DEF AddOrder, Done, Rejected
  <2>2. o \in Order /\ LevelOf(o) = <<s, p>>
    BY DEF Order, LevelOf
  <2> HIDE DEF o
  <2>a. app = AppendOrder(b, id, o)
    OBVIOUS
  <2> HIDE DEF app
  <2>b. b \in Book /\ o \in Order
    BY <1>1, <2>2
  <2>3. app \in Book /\ Resting(app) = Resting(b) \union {id}
    BY <2>a, <2>b, AppendOrderFacts
  <2>4. Levels(app) = Levels(b) \union {<<s, p>>}
    BY <2>2, <2>a, <2>b, AppendOrderFacts
  <2>5. QueuesHold(app, Resting(app))
    BY <1>1, <2>1, <2>3, <2>a, <2>b, AppendOrderQueues
  <2>6. NoOvertaking(b, app)
    <3>1. SUFFICES ASSUME NEW k \in LevelKeys, NEW x \in Ids, NEW y \in Ids,
                          Ahead(b, k, x, y), Ahead(app, k, y, x)
                   PROVE  FALSE
      BY DEF NoOvertaking
    <3>2. x \in Resting(b) /\ ~ Ahead(b, k, y, x)
      BY <1>1, <3>1, SomeoneIsAhead DEF NoOvertaking
    <3>3. Ahead(b, k, y, x) \/ x = id
      BY <2>a, <2>b, <3>1, AppendOrderAhead
    <3>4. QED
      BY <2>1, <3>2, <3>3
  <2>7. IsFiniteSet(Resting(app)) /\ Cardinality(Resting(app)) <= MaxOrders
    <3>1. IsFiniteSet(Resting(b)) /\ Cardinality(Resting(b)) \in Nat
      BY <1>1, FS_CardinalityType DEF FitsPools
    <3>2. /\ IsFiniteSet(Resting(app))
          /\ Cardinality(Resting(app)) = Cardinality(Resting(b)) + 1
      BY <2>1, <2>3, <3>1, FS_AddElement
    <3>3. QED
      BY <2>1, <3>1, <3>2, BookAssumption
  <2>8. IsFiniteSet(Levels(app)) /\ Cardinality(Levels(app)) <= MaxPriceLevels
    <3>1. CASE b.queue[<<s, p>>] # <<>>
      <4>1. Levels(app) \subseteq Levels(b)
        BY <2>4, <3>1 DEF Levels, LevelKeys
      <4>2. QED
        BY <1>1, <4>1, LevelsFit
    <3>2. CASE Cardinality(Levels(b)) < MaxPriceLevels
      BY <1>1, <2>4, <3>2, LevelsFit
    <3>3. QED
      BY <2>1, <3>1, <3>2 DEF RoomAtLevel
  <2>9. QED
    BY <1>3, <2>1, <2>3, <2>5, <2>6, <2>7, <2>8 DEF SoundBook, FitsPools
<1>4. QED
    BY <1>2, <1>3

LEMMA SameQueuesSameOrder ==
    ASSUME NEW b \in Book, NEW Q, QueuesHold(b, Q), NEW c, c.queue = b.queue
    PROVE  NoOvertaking(b, c)
<1>1. \A k \in LevelKeys : \A x, y \in Ids : Ahead(c, k, x, y) => Ahead(b, k, x, y)
    BY DEF Ahead
<1>2. QED
    BY <1>1, SomeoneIsAhead DEF NoOvertaking

(* Taking an order off its level leaves a book that fits the pools.        *)
LEMMA OffLevelFits ==
    ASSUME NEW b, SoundBook(b), NEW id \in Resting(b), NEW off, off = OffLevel(b, id)
    PROVE  /\ off \in Book
           /\ off.orders = b.orders
           /\ Resting(off) = Resting(b)
           /\ QueuesHold(off, Resting(b) \ {id})
           /\ Levels(off) \subseteq Levels(b)
           /\ FitsPools(off)
<1>1. /\ b \in Book
      /\ QueuesHold(b, Resting(b))
      /\ FitsPools(b)
    BY DEF SoundBook
<1>2. /\ off \in Book
      /\ off.orders = b.orders
      /\ QueuesHold(off, Resting(b) \ {id})
      /\ Levels(off) \subseteq Levels(b)
    BY <1>1, OffLevelFacts
<1>3. Resting(off) = Resting(b)
    BY <1>2 DEF Resting
<1>4. IsFiniteSet(Levels(off)) /\ Cardinality(Levels(off)) <= MaxPriceLevels
    BY <1>1, <1>2, LevelsFit
<1>5. FitsPools(off)
    BY <1>1, <1>3, <1>4 DEF FitsPools
<1>6. QED
    BY <1>2, <1>3, <1>5

(* An order put back at a level of the same side that has room.            *)
LEMMA ReappendFacts ==
    ASSUME NEW b, SoundBook(b), NEW id \in Resting(b), NEW off, off = OffLevel(b, id),
           NEW o \in Order, NEW app, app = AppendOrder(off, id, o),
           RoomAtLevel(off, LevelOf(o))
    PROVE  SoundBook(app)
<1>1. /\ off \in Book
      /\ Resting(off) = Resting(b)
      /\ QueuesHold(off, Resting(b) \ {id})
      /\ FitsPools(off)
      /\ id \in Ids
    BY OffLevelFits DEF Resting
<1>2. app \in Book /\ Resting(app) = Resting(off) \union {id}
    BY <1>1, AppendOrderFacts
<1>3. Levels(app) = Levels(off) \union {LevelOf(o)}
    BY <1>1, AppendOrderFacts
<1>4. Resting(app) = Resting(b) /\ Resting(app) = (Resting(b) \ {id}) \union {id}
    BY <1>1, <1>2
<1>5. QueuesHold(app, Resting(app))
    BY <1>1, <1>4, AppendOrderQueues
<1>6. IsFiniteSet(Levels(app)) /\ Cardinality(Levels(app)) <= MaxPriceLevels
  <2>1. CASE off.queue[LevelOf(o)] # <<>>
    <3>1. LevelOf(o) \in LevelKeys
      BY DEF Order, LevelOf, LevelKeys
    <3>2. Levels(app) \subseteq Levels(off)
      BY <1>3, <2>1, <3>1 DEF Levels
    <3>3. QED
      BY <1>1, <3>2, LevelsFit
  <2>2. CASE Cardinality(Levels(off)) < MaxPriceLevels
    BY <1>1, <1>3, <2>2, LevelsFit
  <2>3. QED
    BY <2>1, <2>2 DEF RoomAtLevel
<1>7. QED
    BY <1>1, <1>2, <1>4, <1>5, <1>6 DEF SoundBook, FitsPools

(* When the pool has no level for the new price, the old one is still      *)
(* there: emptied, it would have gone back to the pool.                    *)
LEMMA OldLevelRemains ==
    ASSUME NEW b, SoundBook(b), NEW id \in Resting(b), NEW off, off = OffLevel(b, id),
           NEW k, ~ RoomAtLevel(off, k)
    PROVE  RoomAtLevel(off, LevelOf(b.orders[id]))
<1> DEFINE h == LevelOf(b.orders[id])
<1>1. /\ off \in Book
      /\ Levels(off) \subseteq Levels(b)
      /\ QueuesHold(b, Resting(b))
      /\ FitsPools(b)
      /\ FitsPools(off)
      /\ b \in Book
    BY OffLevelFits DEF SoundBook
<1>2. h \in Levels(b)
  <2>1. h \in LevelKeys /\ Len(b.queue[h]) \in Nat /\ b.queue[h] \in Seq(Ids)
    BY <1>1, RestingTyped, LenProperties DEF Book
  <2>2. b.queue[h] # <<>>
    BY <1>1, <2>1 DEF QueuesHold
  <2>3. QED
    BY <2>1, <2>2 DEF Levels
<1>3. /\ ~ (Cardinality(Levels(off)) < MaxPriceLevels)
      /\ Cardinality(Levels(b)) <= MaxPriceLevels
      /\ Cardinality(Levels(off)) \in Nat /\ Cardinality(Levels(b)) \in Nat
      /\ IsFiniteSet(Levels(b))
      /\ MaxPriceLevels \in Nat
    BY <1>1, FS_CardinalityType, BookAssumption DEF RoomAtLevel, FitsPools
<1>4. Levels(off) = Levels(b)
  <2>1. Cardinality(Levels(off)) <= Cardinality(Levels(b))
    BY <1>1, <1>3, FS_Subset
  <2>2. Cardinality(Levels(b)) = Cardinality(Levels(off))
    BY <1>3, <2>1
  <2>3. QED
    BY <1>1, <1>3, <2>2, FS_Subset
<1>5. QED
    BY <1>2, <1>4 DEF Levels, RoomAtLevel

(* A change of price: the mover ends up behind the orders of its new level *)
(* and ahead of none.                                                      *)
LEMMA MovedKeepsOrder ==
    ASSUME NEW b, SoundBook(b), NEW id \in Resting(b), NEW off, off = OffLevel(b, id),
           NEW o \in Order, NEW app, app = AppendOrder(off, id, o),
           LevelOf(o) # LevelOf(b.orders[id])
    PROVE  NoOvertaking(b, app)
<1>1. /\ off \in Book
      /\ b \in Book
      /\ QueuesHold(b, Resting(b))
      /\ id \in Ids
    BY OffLevelFits DEF SoundBook, Resting
<1>2. SUFFICES ASSUME NEW k \in LevelKeys, NEW x \in Ids, NEW y \in Ids,
                      Ahead(b, k, x, y), Ahead(app, k, y, x)
               PROVE  FALSE
    BY DEF NoOvertaking
<1>3. ~ Ahead(b, k, y, x) /\ LevelOf(b.orders[x]) = k
    BY <1>1, <1>2, SomeoneIsAhead DEF NoOvertaking
<1>4. Ahead(off, k, y, x) \/ (x = id /\ k = LevelOf(o))
    BY <1>1, <1>2, AppendOrderAhead
<1>5. Ahead(off, k, y, x) => Ahead(b, k, y, x)
    BY <1>1, OffLevelFacts
<1>6. QED
    BY <1>3, <1>4, <1>5

LEMMA ResizedOrderFacts ==
    ASSUME NEW b, SoundBook(b), NEW id \in Resting(b), NEW qty \in Int,
           NEW re, re = Resized(b, id, qty)
    PROVE  SoundBook(re) /\ NoOvertaking(b, re)
<1>1. /\ b \in Book
      /\ QueuesHold(b, Resting(b))
      /\ FitsPools(b)
    BY DEF SoundBook
<1>2. re \in Book /\ re.queue = b.queue
    BY <1>1, ResizedFacts
<1>3. Resting(re) = Resting(b) /\ Levels(re) = Levels(b)
    BY <1>1, ResizedFacts
<1>4. QueuesHold(re, Resting(re))
    BY <1>1, ResizedFacts
<1>5. NoOvertaking(b, re)
    BY <1>1, <1>2, SameQueuesSameOrder
<1>6. QED
    BY <1>1, <1>2, <1>3, <1>4, <1>5 DEF SoundBook, FitsPools

LEMMA ModifyOrderFacts ==
    ASSUME NEW b, SoundBook(b), NEW id \in Ids, NEW p \in Prices, NEW qty \in Int,
           NEW r, r = ModifyOrder(b, id, p, qty)
    PROVE  /\ SoundBook(r.book)
           /\ r.ok \in BOOLEAN
           /\ r.ok => NoOvertaking(b, r.book)
           /\ ~ r.ok => r.book.orders = b.orders
<1>1. /\ b \in Book
      /\ QueuesHold(b, Resting(b))
      /\ FitsPools(b)
    BY DEF SoundBook
<1>2. CASE id \notin Resting(b)
  <2>1. r.book = b /\ r.ok = FALSE
    BY <1>2 DEF ModifyOrder, Rejected
  <2>2. QED
    BY <2>1
<1>3. CASE id \in Resting(b)
  <2> DEFINE o   == b.orders[id]
             o2  == [side |-> o.side, price |-> p, qty |-> qty]
             off == OffLevel(b, id)
  <2>1. o \in Order /\ o2 \in Order /\ LevelOf(o2) = <<o.side, p>>
    BY <1>1, <1>3, RestingTyped DEF Order, LevelOf
  <2>2. CASE p = o.price
    <3>1. r.book = Resized(b, id, qty) /\ r.ok = TRUE
      BY <1>3, <2>2 DEF ModifyOrder, Done
    <3>2. QED
      BY <1>3, <3>1, ResizedOrderFacts
  <2>3. CASE p # o.price /\ RoomAtLevel(off, <<o.side, p>>)
    <3> DEFINE app == AppendOrder(off, id, o2)
    <3>1. r.book = app /\ r.ok = TRUE
      BY <1>3, <2>3 DEF ModifyOrder, Done
    <3>2. app = AppendOrder(off, id, o2) /\ off = OffLevel(b, id)
      OBVIOUS
    <3>3. RoomAtLevel(off, LevelOf(o2)) /\ LevelOf(o2) # LevelOf(o)
      BY <2>1, <2>3 DEF LevelOf
    <3> HIDE DEF app, off, o2
    <3>4. SoundBook(app)
      BY <1>3, <2>1, <3>2, <3>3, ReappendFacts
    <3>5. NoOvertaking(b, app)
      BY <1>3, <2>1, <3>2, <3>3, MovedKeepsOrder
    <3>6. QED
      BY <3>1, <3>4, <3>5
  <2>4. CASE p # o.price /\ ~ RoomAtLevel(off, <<o.side, p>>)
    <3> DEFINE app == AppendOrder(off, id, o)
    <3>1. r.book = app /\ r.ok = FALSE
      BY <1>3, <2>4 DEF ModifyOrder, Rejected
    <3>2. app = AppendOrder(off, id, o) /\ off = OffLevel(b, id)
      OBVIOUS
    <3> HIDE DEF app, off
    <3>3. RoomAtLevel(off, LevelOf(o))
      BY <1>3, <2>4, <3>2, OldLevelRemains
    <3>4. SoundBook(app)
      BY <1>3, <2>1, <3>2, <3>3, ReappendFacts
    <3>5. app.orders = b.orders
      <4>1. off \in Book /\ off.orders = b.orders
        BY <1>3, <3>2, OffLevelFits
      <4>2. app.orders = [off.orders EXCEPT ![id] = o]
        BY <3>2 DEF AppendOrder
      <4>3. QED
        BY <4>1, <4>2 DEF Book
    <3>6. QED
      BY <3>1, <3>4, <3>5
  <2>5. QED
    BY <2>2, <2>3, <2>4
<1>4. QED
    BY <1>2, <1>3

LEMMA DroppedOrderFacts ==
    ASSUME NEW b, SoundBook(b), NEW id \in Resting(b), NEW dr, dr = Dropped(b, id)
    PROVE  SoundBook(dr) /\ NoOvertaking(b, dr)
<1>1. /\ b \in Book
      /\ QueuesHold(b, Resting(b))
      /\ FitsPools(b)
    BY DEF SoundBook
<1>2. /\ dr \in Book
      /\ Resting(dr) = Resting(b) \ {id}
      /\ QueuesHold(dr, Resting(dr))
      /\ Levels(dr) \subseteq Levels(b)
      /\ \A k \in LevelKeys : \A x, y \in Ids : Ahead(dr, k, x, y) => Ahead(b, k, x, y)
    BY <1>1, DroppedFacts
<1>3. IsFiniteSet(Levels(dr)) /\ Cardinality(Levels(dr)) <= MaxPriceLevels
    BY <1>1, <1>2, LevelsFit
<1>4. IsFiniteSet(Resting(dr)) /\ Cardinality(Resting(dr)) <= MaxOrders
  <2>1. IsFiniteSet(Resting(b)) /\ Cardinality(Resting(b)) \in Nat
    BY <1>1, FS_CardinalityType DEF FitsPools
  <2>2. /\ IsFiniteSet(Resting(dr))
        /\ Cardinality(Resting(dr)) = Cardinality(Resting(b)) - 1
    BY <1>2, <2>1, FS_RemoveElement
  <2>3. QED
    BY <1>1, <2>1, <2>2, BookAssumption DEF FitsPools
<1>5. NoOvertaking(b, dr)
    BY <1>1, <1>2, SomeoneIsAhead DEF NoOvertaking
<1>6. QED
    BY <1>2, <1>3, <1>4, <1>5 DEF SoundBook, FitsPools

LEMMA CancelOrderFacts ==
    ASSUME NEW b, SoundBook(b), NEW id \in Ids, NEW r, r = CancelOrder(b, id)
    PROVE  /\ SoundBook(r.book)
           /\ r.ok \in BOOLEAN
           /\ NoOvertaking(b, r.book)
           /\ ~ r.ok => r.book = b
<1>1. CASE id \notin Resting(b)
  <2>1. r.book = b /\ r.ok = FALSE
    BY <1>1 DEF CancelOrder, Rejected
  <2>2. QED
    BY <2>1, SomeoneIsAhead DEF SoundBook
<1>2. CASE id \in Resting(b)
  <2>1. r.book = Dropped(b, id) /\ r.ok = TRUE
    BY <1>2 DEF CancelOrder, Done
  <2>2. QED
    BY <1>2, <2>1, DroppedOrderFacts
<1>3. QED
    BY <1>1, <1>2

LEMMA ExecuteOrderFacts ==
    ASSUME NEW b, SoundBook(b), NEW id \in Ids, NEW fill \in Int,
           NEW r, r = ExecuteOrder(b, id, fill)
    PROVE  /\ SoundBook(r.book)
           /\ r.ok \in BOOLEAN
           /\ NoOvertaking(b, r.book)
           /\ ~ r.ok => r.book = b
<1>1. /\ b \in Book
      /\ QueuesHold(b, Resting(b))
      /\ FitsPools(b)
    BY DEF SoundBook
<1>2. CASE id \notin Resting(b) \/ fill <= 0 \/ fill > b.orders[id].qty
  <2>1. r.book = b /\ r.ok = FALSE
    BY <1>2 DEF ExecuteOrder, Rejected
  <2>2. QED
    BY <1>1, <2>1, SomeoneIsAhead
<1>3. CASE /\ id \in Resting(b) /\ ~ (fill <= 0) /\ ~ (fill > b.orders[id].qty)
           /\ fill = b.orders[id].qty
  <2>1. r.book = Dropped(b, id) /\ r.ok = TRUE
    BY <1>3 DEF ExecuteOrder, Done
  <2>2. QED
    BY <1>3, <2>1, DroppedOrderFacts
<1>4. CASE /\ id \in Resting(b) /\ ~ (fill <= 0) /\ ~ (fill > b.orders[id].qty)
           /\ fill # b.orders[id].qty
  <2>1. r.book = Resized(b, id, b.orders[id].qty - fill) /\ r.ok = TRUE
    BY <1>4 DEF ExecuteOrder, Done
  <2>2. b.orders[id].qty - fill \in Int
    BY <1>1, <1>4, RestingTyped DEF Order
  <2>3. QED
    BY <1>4, <2>1, <2>2, ResizedOrderFacts
<1>5. QED
    BY <1>2, <1>3, <1>4

-----------------------------------------------------------------------------
(* The best price of a side.                                               *)

(* A finite set of prices has a best one: take the price with the smallest *)
(* set of better ones.                                                     *)
LEMMA BestExists ==
    ASSUME NEW s \in Side, NEW P \in SUBSET Int, IsFiniteSet(P), P # {}
    PROVE  \E p \in P : \A q \in P : ~ Better(s, q, p)
<1> DEFINE D == [p \in P |-> {q \in P : Better(s, q, p)}]
           T == {D[p] : p \in P}
<1>1. T \subseteq FiniteSubsetsOf(P) /\ T # {}
  <2>1. ASSUME NEW p \in P PROVE D[p] \in SUBSET P /\ IsFiniteSet(D[p])
    BY FS_Subset
  <2>2. QED
    BY <2>1 DEF FiniteSubsetsOf
<1>2. PICK x \in T : \A y \in T : ~ (<<y, x>> \in StrictSubsetOrdering(P))
  <2> HIDE DEF T
  <2>1. IsWellFoundedOn(StrictSubsetOrdering(P), FiniteSubsetsOf(P))
    BY FS_StrictSubsetOrderingWellFounded, Zenon
  <2>2. QED
    BY <1>1, <2>1, WFMin, Zenon
<1>3. PICK p \in P : x = D[p]
    OBVIOUS
<1>4. ASSUME NEW q \in P, Better(s, q, p) PROVE FALSE
  <2> HIDE DEF T
  <2>0. /\ \A u, v, w \in P : Better(s, u, v) /\ Better(s, v, w) => Better(s, u, w)
        /\ \A u \in P : ~ Better(s, u, u)
    BY DEF Better
  <2>1. D[q] \subseteq D[p]
    BY <1>4, <2>0
  <2>2. q \in D[p] /\ q \notin D[q]
    BY <1>4, <2>0
  <2>3. <<D[q], D[p]>> \in StrictSubsetOrdering(P)
    <3>1. D[q] \in SUBSET P /\ D[p] \in SUBSET P
      OBVIOUS
    <3>2. D[q] # D[p]
      BY <2>2
    <3> HIDE DEF D
    <3>3. QED
      BY <2>1, <3>1, <3>2 DEF StrictSubsetOrdering
  <2>4. D[q] \in T
    BY DEF T
  <2>5. QED
    BY <1>2, <1>3, <2>3, <2>4
<1>5. QED
    BY <1>4

LEMMA SidePricesFinite ==
    ASSUME NEW b, IsFiniteSet(Levels(b)), NEW s \in Side
    PROVE  SidePrices(b, s) \in SUBSET Int /\ IsFiniteSet(SidePrices(b, s))
<1> DEFINE f == [p \in SidePrices(b, s) |-> <<s, p>>]
<1>1. f \in Injection(SidePrices(b, s), Levels(b))
    BY DEF Injection, IsInjective, SidePrices, Levels, LevelKeys
<1>2. QED
    BY <1>1, FS_Injection, BookAssumption DEF SidePrices

LEMMA BestIsBest ==
    ASSUME NEW b, SoundBook(b), NEW s \in Side, SidePrices(b, s) # {}
    PROVE  /\ BestPrice(b, s) \in SidePrices(b, s)
           /\ \A q \in SidePrices(b, s) : ~ Better(s, q, BestPrice(b, s))
<1>1. \E p \in SidePrices(b, s) : \A q \in SidePrices(b, s) : ~ Better(s, q, p)
    BY BestExists, SidePricesFinite DEF SoundBook, FitsPools
<1>2. BestPrice(b, s) = CHOOSE p \in SidePrices(b, s) :
                            \A q \in SidePrices(b, s) : ~ Better(s, q, p)
    BY DEF BestPrice
<1>3. QED
    BY <1>1, <1>2, Zenon

(* The order the matcher is handed: no order of its side is at a better    *)
(* price, and it is ahead of every other order of its level.               *)
LEMMA FrontFacts ==
    ASSUME NEW b, SoundBook(b), NEW s \in Side, SidePrices(b, s) # {},
           NEW id, id = FrontAtBest(b, s)
    PROVE  /\ id \in Resting(b)
           /\ b.orders[id].side = s
           /\ b.orders[id].price = BestPrice(b, s)
           /\ \A x \in Resting(b) : b.orders[x].side = s =>
                 ~ Better(s, b.orders[x].price, b.orders[id].price)
           /\ \A x \in Resting(b) : x # id /\ LevelOf(b.orders[x]) = LevelOf(b.orders[id]) =>
                 Ahead(b, LevelOf(b.orders[id]), id, x)
<1> DEFINE p == BestPrice(b, s)
           k == <<s, p>>
<1>1. /\ p \in SidePrices(b, s)
      /\ \A q \in SidePrices(b, s) : ~ Better(s, q, p)
    BY BestIsBest
<1>2. k \in LevelKeys /\ b.queue[k] # <<>> /\ b.queue[k] \in Seq(Ids)
    BY <1>1 DEF SidePrices, LevelKeys, SoundBook, Book
<1>3. id = b.queue[k][1] /\ 1 \in 1 .. Len(b.queue[k])
    BY <1>2, EmptySeq, HeadTailProperties DEF FrontAtBest
<1>4. id \in Resting(b) /\ LevelOf(b.orders[id]) = k
    BY <1>2, <1>3 DEF SoundBook, QueuesHold
<1>5. b.orders[id].side = s /\ b.orders[id].price = p
    BY <1>4 DEF LevelOf
<1>6. ASSUME NEW x \in Resting(b)
      PROVE  \E i \in 1 .. Len(b.queue[LevelOf(b.orders[x])]) :
                b.queue[LevelOf(b.orders[x])][i] = x
    BY DEF SoundBook, QueuesHold
<1>7. ASSUME NEW x \in Resting(b), b.orders[x].side = s
      PROVE  ~ Better(s, b.orders[x].price, p)
  <2>1. b.orders[x].price \in Prices /\ LevelOf(b.orders[x]) = <<s, b.orders[x].price>>
    BY <1>7, RestingTyped DEF SoundBook, LevelOf, Order
  <2>2. <<s, b.orders[x].price>> \in LevelKeys
    BY <2>1 DEF LevelKeys
  <2>3. b.queue[<<s, b.orders[x].price>>] # <<>>
    BY <1>6, <2>1, EmptySeq
  <2>4. QED
    BY <1>1, <2>1, <2>3 DEF SidePrices
<1>8. ASSUME NEW x \in Resting(b), x # id, LevelOf(b.orders[x]) = k
      PROVE  Ahead(b, k, id, x)
  <2>1. PICK i \in 1 .. Len(b.queue[k]) : b.queue[k][i] = x
    BY <1>6, <1>8
  <2>2. 1 < i
    BY <1>3, <1>8, <2>1
  <2>3. QED
    BY <1>3, <2>1, <2>2 DEF Ahead
<1>9. QED
    BY <1>4, <1>5, <1>7, <1>8

-----------------------------------------------------------------------------
(* The book during a call.                                                 *)

(* From b to c, orders have at most left or lost quantity.                 *)
Shrinks(b, c) ==
    /\ Resting(c) \subseteq Resting(b)
    /\ \A x \in Resting(c) : /\ c.orders[x].side = b.orders[x].side
                             /\ c.orders[x].price = b.orders[x].price
    /\ Levels(c) \subseteq Levels(b)
    /\ \A k \in LevelKeys : \A x, y \in Ids : Ahead(c, k, x, y) => Ahead(b, k, x, y)

LEMMA ShrinksAgain ==
    ASSUME NEW b, NEW c, NEW d, Shrinks(b, c), Shrinks(c, d)
    PROVE  Shrinks(b, d)
    BY DEF Shrinks

LEMMA DroppedShrinks ==
    ASSUME NEW b, SoundBook(b), PositiveOrders(b), NEW id \in Resting(b),
           NEW dr, dr = Dropped(b, id)
    PROVE  Shrinks(b, dr) /\ SoundBook(dr) /\ PositiveOrders(dr)
<1>1. /\ b \in Book /\ QueuesHold(b, Resting(b))
    BY DEF SoundBook
<1>2. /\ dr.orders = [b.orders EXCEPT ![id] = NoOrder]
      /\ Resting(dr) = Resting(b) \ {id}
      /\ Levels(dr) \subseteq Levels(b)
      /\ \A k \in LevelKeys : \A x, y \in Ids : Ahead(dr, k, x, y) => Ahead(b, k, x, y)
    BY <1>1, DroppedFacts
<1>3. \A x \in Resting(dr) : dr.orders[x] = b.orders[x]
    BY <1>1, <1>2 DEF Book, Resting
<1>4. QED
    BY <1>2, <1>3, DroppedOrderFacts DEF Shrinks, PositiveOrders

LEMMA ResizedShrinks ==
    ASSUME NEW b, SoundBook(b), PositiveOrders(b), NEW id \in Resting(b),
           NEW qty \in Int, qty > 0, NEW re, re = Resized(b, id, qty)
    PROVE  Shrinks(b, re) /\ SoundBook(re) /\ PositiveOrders(re)
<1>1. b \in Book /\ QueuesHold(b, Resting(b))
    BY DEF SoundBook
<1>2. /\ re.queue = b.queue
      /\ Resting(re) = Resting(b)
      /\ Levels(re) = Levels(b)
    BY <1>1, ResizedFacts
<1>3. b.orders[id] \in Order /\ id \in Ids
    BY <1>1, RestingTyped
<1>4. ASSUME NEW x \in Resting(re)
      PROVE  /\ re.orders[x].side = b.orders[x].side
             /\ re.orders[x].price = b.orders[x].price
             /\ re.orders[x].qty > 0
    BY <1>1, <1>2, <1>3 DEF Resized, Book, Order, Resting, PositiveOrders
<1>5. \A k \in LevelKeys : \A x, y \in Ids : Ahead(re, k, x, y) => Ahead(b, k, x, y)
    BY <1>2 DEF Ahead
<1>6. QED
    BY <1>2, <1>4, <1>5, ResizedOrderFacts DEF Shrinks, PositiveOrders

(* A book that shrinks does not become crossed.                            *)
LEMMA ShrinkingUncrosses ==
    ASSUME NEW b, NEW c, Shrinks(b, c), ~ Crossed(b)
    PROVE  ~ Crossed(c)
<1>1. \A s \in Side : SidePrices(c, s) \subseteq SidePrices(b, s)
    BY DEF SidePrices, Shrinks, Levels, LevelKeys
<1>2. QED
    BY <1>1 DEF Crossed, Side

(* An order added where it would not cross leaves the book uncrossed.      *)
LEMMA AddingUncrossed ==
    ASSUME NEW b, SoundBook(b), PositiveOrders(b), ~ Crossed(b), NEW id \in Ids,
           NEW s \in Side, NEW p \in Prices, NEW qty \in Int, ~ WouldCross(b, s, p),
           NEW r, r = AddOrder(b, id, s, p, qty)
    PROVE  ~ Crossed(r.book)
<1> DEFINE o == [side |-> s, price |-> p, qty |-> qty]
<1>1. CASE r.book = b
    BY <1>1
<1>2. CASE r.book = AppendOrder(b, id, o)
  <2>1. o \in Order /\ LevelOf(o) = <<s, p>> /\ b \in Book
    BY DEF Order, LevelOf, SoundBook
  <2>2. Levels(r.book) = Levels(b) \union {<<s, p>>}
    BY <1>2, <2>1, AppendOrderFacts
  <2>3. \A t \in Side : \A q \in SidePrices(r.book, t) :
            q \in SidePrices(b, t) \/ (t = s /\ q = p)
    BY <2>2 DEF SidePrices, Levels, LevelKeys
  <2>5. \A q \in SidePrices(b, Opposite(s)) : IF s = "Bid" THEN q > p ELSE q < p
    <3>1. CASE SidePrices(b, Opposite(s)) = {}
      BY <3>1
    <3>2. CASE SidePrices(b, Opposite(s)) # {}
      <4>1. Opposite(s) \in Side
        BY DEF Opposite, Side
      <4>2. /\ BestPrice(b, Opposite(s)) \in SidePrices(b, Opposite(s))
            /\ \A q \in SidePrices(b, Opposite(s)) :
                  ~ Better(Opposite(s), q, BestPrice(b, Opposite(s)))
        BY <3>2, <4>1, BestIsBest
      <4>3. Better(s, BestPrice(b, Opposite(s)), p)
        BY <3>2 DEF WouldCross
      <4>4. QED
        BY <4>2, <4>3, BookAssumption DEF Better, Opposite, Side, SidePrices
    <3>3. QED
      BY <3>1, <3>2
  <2>6. ASSUME NEW u \in SidePrices(r.book, "Bid"), NEW v \in SidePrices(r.book, "Ask"), u >= v
        PROVE  FALSE
    <3>1. /\ u \in SidePrices(b, "Bid") \/ (s = "Bid" /\ u = p)
          /\ v \in SidePrices(b, "Ask") \/ (s = "Ask" /\ v = p)
          /\ ~ (u \in SidePrices(b, "Bid") /\ v \in SidePrices(b, "Ask"))
      BY <2>3, <2>6 DEF Crossed, Side
    <3>2. u \in Int /\ v \in Int /\ p \in Int
      BY BookAssumption DEF SidePrices
    <3>3. CASE s = "Bid"
      <4>1. u = p /\ v \in SidePrices(b, "Ask")
        BY <3>1, <3>3
      <4>2. v > p
        BY <2>5, <3>3, <4>1 DEF Opposite
      <4>3. QED
        BY <2>6, <3>2, <4>1, <4>2
    <3>4. CASE s = "Ask"
      <4>1. v = p /\ u \in SidePrices(b, "Bid")
        BY <3>1, <3>4
      <4>2. u < p
        BY <2>5, <3>4, <4>1 DEF Opposite
      <4>3. QED
        BY <2>6, <3>2, <4>1, <4>2
    <3>5. QED
      BY <3>3, <3>4 DEF Side
  <2>7. QED
    BY <2>6 DEF Crossed
<1>3. QED
    BY <1>1, <1>2 DEF AddOrder, Done, Rejected

-----------------------------------------------------------------------------
(* One turn of the loop: the maker is the front of the best level of the   *)
(* other side, and what it gives is positive and no more than it has.      *)
LEMMA FillFacts ==
    ASSUME NEW b, SoundBook(b), PositiveOrders(b), NEW s \in Side, NEW limit,
           NEW rest \in Nat, rest > 0, WouldCross(b, s, limit),
           NEW t, t = NextTrade(b, s, rest),
           NEW c, c = ExecuteOrder(b, t.maker_id, t.qty).book
    PROVE  /\ t \in Trade
           /\ t.maker_id = FrontAtBest(b, Opposite(s))
           /\ t.maker_id \in Resting(b)
           /\ t.price = b.orders[t.maker_id].price
           /\ b.orders[t.maker_id].side = Opposite(s)
           /\ ~ Better(s, t.price, limit)
           /\ t.qty > 0 /\ rest - t.qty \in Nat
           /\ Shrinks(b, c) /\ SoundBook(c) /\ PositiveOrders(c)
           /\ \/ c = Dropped(b, t.maker_id) /\ t.qty = b.orders[t.maker_id].qty
              \/ c = Resized(b, t.maker_id, b.orders[t.maker_id].qty - t.qty)
<1> DEFINE id == FrontAtBest(b, Opposite(s))
<1>1. Opposite(s) \in Side /\ SidePrices(b, Opposite(s)) # {}
    BY DEF WouldCross, Opposite, Side
<1>2. /\ id \in Resting(b)
      /\ b.orders[id].side = Opposite(s)
      /\ b.orders[id].price = BestPrice(b, Opposite(s))
    BY <1>1, FrontFacts
<1> HIDE DEF id
<1>3. /\ id \in Ids /\ b.orders[id].price \in Prices
      /\ b.orders[id].qty \in Int /\ b.orders[id].qty > 0
    BY <1>2, RestingTyped DEF SoundBook, Order, PositiveOrders
<1>4. /\ t.maker_id = id
      /\ t.price = b.orders[id].price
      /\ t.qty = Least(rest, b.orders[id].qty)
      /\ t = [maker_id |-> t.maker_id, price |-> t.price, qty |-> t.qty]
    BY DEF NextTrade, id
<1>5. /\ t.qty \in Int /\ t.qty > 0
      /\ t.qty <= b.orders[id].qty /\ rest - t.qty \in Nat
    BY <1>3, <1>4 DEF Least
<1>6. t \in Trade
    BY <1>3, <1>4, <1>5 DEF Trade
<1>7. \/ c = Dropped(b, id) /\ t.qty = b.orders[id].qty
      \/ c = Resized(b, id, b.orders[id].qty - t.qty) /\ b.orders[id].qty - t.qty > 0
    BY <1>2, <1>3, <1>4, <1>5 DEF ExecuteOrder, Done
<1>8. Shrinks(b, c) /\ SoundBook(c) /\ PositiveOrders(c)
  <2>1. CASE c = Dropped(b, id)
    BY <1>2, <2>1, DroppedShrinks
  <2>2. CASE c = Resized(b, id, b.orders[id].qty - t.qty) /\ b.orders[id].qty - t.qty > 0
    <3>1. b.orders[id].qty - t.qty \in Int
      BY <1>3, <1>5
    <3>2. QED
      BY <1>2, <2>2, <3>1, ResizedShrinks
  <2>3. QED
    BY <1>7, <2>1, <2>2
<1>9. ~ Better(s, t.price, limit)
    BY <1>2, <1>4 DEF WouldCross
<1>10. QED
    BY <1>2, <1>4, <1>5, <1>6, <1>7, <1>8, <1>9 DEF id

(* In a book that only shrank since the call began, no order that came     *)
(* before the front of the best level is left.                             *)
LEMMA NothingBeforeTheFront ==
    ASSUME NEW b0, SoundBook(b0), NEW b, SoundBook(b), Shrinks(b0, b),
           NEW s \in Side, SidePrices(b, s) # {},
           NEW id, id = FrontAtBest(b, s),
           NEW x \in Resting(b), Before(b0, x, id)
    PROVE  FALSE
<1>1. /\ id \in Resting(b)
      /\ b.orders[id].side = s
      /\ b.orders[x].side = s => ~ Better(s, b.orders[x].price, b.orders[id].price)
      /\ x # id /\ LevelOf(b.orders[x]) = LevelOf(b.orders[id]) =>
            Ahead(b, LevelOf(b.orders[id]), id, x)
    BY FrontFacts
<1>2. /\ b0.orders[x].side = b.orders[x].side /\ b0.orders[x].price = b.orders[x].price
      /\ b0.orders[id].side = b.orders[id].side /\ b0.orders[id].price = b.orders[id].price
      /\ x \in Resting(b0) /\ id \in Resting(b0)
    BY <1>1 DEF Shrinks
<1>3. b.orders[x].side = s
    BY <1>1, <1>2 DEF Before
<1> DEFINE k == LevelOf(b0.orders[id])
<1>4. Ahead(b0, k, x, id)
    BY <1>1, <1>2, <1>3 DEF Before
<1>5. k \in LevelKeys /\ x \in Ids /\ id \in Ids
    BY <1>2, RestingTyped DEF SoundBook
<1>6. LevelOf(b0.orders[x]) = k /\ x # id
  <2>1. NoOvertaking(b0, b0) /\ LevelOf(b0.orders[x]) = k
    BY <1>4, <1>5, SomeoneIsAhead DEF SoundBook
  <2>2. QED
    BY <1>4, <1>5, <2>1 DEF NoOvertaking
<1>7. k = LevelOf(b.orders[id]) /\ k = LevelOf(b.orders[x])
    BY <1>2, <1>6 DEF LevelOf
<1>8. Ahead(b, k, id, x)
    BY <1>1, <1>6, <1>7
<1>9. Ahead(b0, k, id, x)
    BY <1>5, <1>8 DEF Shrinks
<1>10. NoOvertaking(b0, b0)
    BY SomeoneIsAhead DEF SoundBook
<1>11. QED
    BY <1>4, <1>5, <1>9, <1>10 DEF NoOvertaking

(* The remainder that rests.                                               *)
LEMMA RemainderFacts ==
    ASSUME NEW b, SoundBook(b), PositiveOrders(b), NEW id \in Ids, NEW s \in Side,
           NEW p \in Prices, NEW rest \in Nat, NEW r, r = Remainder(b, id, s, p, rest)
    PROVE  /\ SoundBook(r.book) /\ PositiveOrders(r.book) /\ r.ok \in BOOLEAN
           /\ ~ Crossed(b) /\ ~ (rest > 0 /\ WouldCross(b, s, p)) => ~ Crossed(r.book)
<1>1. CASE rest = 0
  <2>1. r.book = b /\ r.ok = FALSE
    BY <1>1 DEF Remainder, Rejected
  <2>2. QED
    BY <2>1
<1>2. CASE rest > 0
  <2>1. r = AddOrder(b, id, s, p, rest) /\ rest \in Int
    BY <1>2 DEF Remainder
  <2>2. SoundBook(r.book) /\ r.ok \in BOOLEAN
    BY <2>1, AddOrderFacts
  <2>3. PositiveOrders(r.book)
    <3>1. CASE r.book = b
      BY <3>1
    <3>2. CASE r.book = AppendOrder(b, id, [side |-> s, price |-> p, qty |-> rest])
      <4> DEFINE o == [side |-> s, price |-> p, qty |-> rest]
      <4>1. o \in Order /\ o.qty = rest /\ b \in Book
        BY DEF Order, SoundBook
      <4>2. /\ r.book.orders[id] = o
            /\ \A x \in Ids : x # id => r.book.orders[x] = b.orders[x]
            /\ Resting(r.book) = Resting(b) \union {id}
        BY <3>2, <4>1, AppendOrderFacts
      <4>3. QED
        BY <1>2, <4>1, <4>2 DEF PositiveOrders, Resting
    <3>3. QED
      BY <2>1, <3>1, <3>2 DEF AddOrder, Done, Rejected
  <2>4. ASSUME ~ Crossed(b), ~ WouldCross(b, s, p) PROVE ~ Crossed(r.book)
    BY <2>1, <2>4, AddingUncrossed
  <2>5. QED
    BY <1>2, <2>2, <2>3, <2>4
<1>3. QED
  BY <1>1, <1>2

LEMMA ShrinksSelf == \A b : Shrinks(b, b)
    BY DEF Shrinks

LEMMA EmptyBookSound ==
    SoundBook(EmptyBook) /\ PositiveOrders(EmptyBook) /\ ~ Crossed(EmptyBook)
<1> DEFINE e == EmptyBook
<1>1. e.orders = [id \in Ids |-> NoOrder] /\ e.queue = [k \in LevelKeys |-> <<>>]
    BY DEF EmptyBook
<1>2. e \in Book
    BY DEF EmptyBook, Book
<1>3. Resting(e) = {} /\ Levels(e) = {}
    BY <1>1 DEF Resting, Levels
<1>4. \A k \in LevelKeys : Len(e.queue[k]) = 0
    BY <1>1
<1>5. QueuesHold(e, Resting(e))
    BY <1>3, <1>4 DEF QueuesHold
<1>6. FitsPools(e)
    BY <1>3, FS_EmptySet, BookAssumption DEF FitsPools
<1>7. ~ Crossed(e) /\ PositiveOrders(e)
    BY <1>1, <1>3 DEF Crossed, SidePrices, LevelKeys, Side, PositiveOrders
<1>8. QED
    BY <1>2, <1>5, <1>6, <1>7 DEF SoundBook

-----------------------------------------------------------------------------
(* The loop of submit_order as the turns it takes.                         *)
IsRun(run, s, limit) == \A k \in 1 .. MaxTrades : run[k] = NextFill(s, limit, run[k - 1])

LEMMA FillsRun ==
    ASSUME NEW b, NEW s, NEW limit, NEW qty
    PROVE  \E run : /\ Fills(b, s, limit, qty) = run[MaxTrades]
                    /\ run[0] = [book |-> b, trades |-> <<>>, left |-> qty]
                    /\ IsRun(run, s, limit)
<1> DEFINE first == [book |-> b, trades |-> <<>>, left |-> qty]
           step(r) == NextFill(s, limit, r)
           upTo(f, n) == [k \in 0 .. n |-> IF k = 0 THEN first ELSE step(f[k - 1])]
           reached(n) == \E f : f = upTo(f, n)
           T == {n \in 0 .. MaxTrades : reached(n)}
           run == CHOOSE f : f = upTo(f, MaxTrades)
<1>1. Fills(b, s, limit, qty) = run[MaxTrades]
    BY DEF Fills
<1> HIDE DEF first, step
<1>2. reached(0)
  <2> DEFINE g == [k \in 0 .. 0 |-> first]
  <2>1. \A k \in 0 .. 0 : g[k] = upTo(g, 0)[k]
    OBVIOUS
  <2>2. QED
    BY <2>1
<1>3. ASSUME NEW n \in 1 .. MaxTrades, reached(n - 1) PROVE reached(n)
  <2>1. PICK f : f = upTo(f, n - 1)
    BY <1>3
  <2> DEFINE g == [k \in 0 .. n |-> IF k = n THEN step(f[n - 1]) ELSE f[k]]
  <2>2. \A k \in 0 .. n : g[k] = upTo(g, n)[k]
    BY <2>1, MaxTradesAssumption
  <2>3. g = upTo(g, n)
    BY <2>2
  <2>4. QED
    BY <2>3
<1>4. reached(MaxTrades)
  <2> HIDE DEF reached
  <2>1. 0 \in T /\ \A k \in 1 .. MaxTrades : k - 1 \in T => k \in T
    BY <1>2, <1>3, MaxTradesAssumption
  <2> HIDE DEF T
  <2>2. MaxTrades \in T
    BY <2>1, InductionTo, MaxTradesAssumption
  <2>3. QED
    BY <2>2 DEF T
<1>5. run = upTo(run, MaxTrades)
    BY <1>4
<1>6. run[0] = first /\ \A k \in 1 .. MaxTrades : run[k] = step(run[k - 1])
  <2> HIDE DEF run
  <2>1. \A k \in 0 .. MaxTrades : run[k] = IF k = 0 THEN first ELSE step(run[k - 1])
    BY <1>5
  <2>2. QED
    BY <2>1, MaxTradesAssumption
<1>7. QED
    BY <1>1, <1>6 DEF first, step, IsRun

(* What the loop has reached after a turn.                                 *)
Reached(r) == /\ SoundBook(r.book) /\ PositiveOrders(r.book)
              /\ r.trades \in Seq(Trade) /\ r.left \in Nat

LEMMA NextFillFacts ==
    ASSUME NEW r, Reached(r), NEW s \in Side, NEW limit
    PROVE  Reached(NextFill(s, limit, r))
<1> DEFINE t == NextTrade(r.book, s, r.left)
           c == ExecuteOrder(r.book, t.maker_id, t.qty).book
<1>1. CASE ~ KeepsTrading(r.book, s, limit, r.left, r.trades)
  <2>1. NextFill(s, limit, r) = r
    BY <1>1 DEF NextFill
  <2>2. QED
    BY <2>1
<1>2. CASE KeepsTrading(r.book, s, limit, r.left, r.trades)
  <2>1. NextFill(s, limit, r) =
           [book |-> c, trades |-> Append(r.trades, t), left |-> r.left - t.qty]
    BY <1>2 DEF NextFill
  <2>2. r.left > 0 /\ WouldCross(r.book, s, limit)
    BY <1>2 DEF KeepsTrading
  <2>3. t \in Trade /\ r.left - t.qty \in Nat /\ SoundBook(c) /\ PositiveOrders(c)
    BY <2>2, FillFacts DEF Reached
  <2> HIDE DEF t, c
  <2>4. Append(r.trades, t) \in Seq(Trade)
    BY <2>3, AppendProperties DEF Reached
  <2>5. QED
    BY <2>1, <2>3, <2>4 DEF Reached
<1>3. QED
    BY <1>1, <1>2

LEMMA FillsFacts ==
    ASSUME NEW b, SoundBook(b), PositiveOrders(b), NEW s \in Side, NEW limit,
           NEW qty \in Nat
    PROVE  Reached(Fills(b, s, limit, qty))
<1>1. PICK run : /\ Fills(b, s, limit, qty) = run[MaxTrades]
                 /\ run[0] = [book |-> b, trades |-> <<>>, left |-> qty]
                 /\ IsRun(run, s, limit)
    BY FillsRun
<1> DEFINE T == {k \in 0 .. MaxTrades : Reached(run[k])}
<1>2. 0 \in T
  <2> DEFINE first == [book |-> b, trades |-> <<>>, left |-> qty]
  <2>1. Reached(first)
    <3>1. <<>> \in Seq(Trade)
      OBVIOUS
    <3>2. QED
      BY <3>1 DEF Reached
  <2> HIDE DEF first
  <2>2. Reached(run[0])
    BY <1>1, <2>1 DEF first
  <2>3. QED
    BY <2>2, MaxTradesAssumption
<1>3. ASSUME NEW k \in 1 .. MaxTrades, k - 1 \in T PROVE k \in T
    BY <1>1, <1>3, NextFillFacts, MaxTradesAssumption DEF IsRun
<1> HIDE DEF T
<1>4. MaxTrades \in T
    BY <1>2, <1>3, InductionTo, MaxTradesAssumption
<1>5. QED
    BY <1>1, <1>4 DEF T

(* A whole call leaves a book the next call can be made on.                *)
LEMMA SubmitOrderFacts ==
    ASSUME NEW b, SoundBook(b), PositiveOrders(b), NEW id \in Ids, NEW s \in Side,
           NEW p \in Prices, NEW qty \in Int, NEW r, r = SubmitOrder(b, id, s, p, qty)
    PROVE  /\ SoundBook(r.book) /\ PositiveOrders(r.book)
           /\ r.ok \in BOOLEAN /\ r.trades \in Seq(Trade)
<1>1. CASE qty <= 0
  <2>1. r = [book |-> b, ok |-> FALSE, trades |-> <<>>, left |-> qty]
    BY <1>1 DEF SubmitOrder
  <2>2. <<>> \in Seq(Trade)
    OBVIOUS
  <2>3. QED
    BY <2>1, <2>2
<1>2. CASE ~ (qty <= 0)
  <2> DEFINE f == Fills(b, s, p, qty)
             rest == Remainder(f.book, id, s, p, f.left)
  <2>1. Reached(f)
    BY <1>2, FillsFacts
  <2>2. r = [book |-> rest.book, ok |-> rest.ok, trades |-> f.trades, left |-> f.left]
    BY <1>2 DEF SubmitOrder
  <2> HIDE DEF f
  <2>3. SoundBook(rest.book) /\ PositiveOrders(rest.book) /\ rest.ok \in BOOLEAN
    BY <2>1, RemainderFacts DEF Reached
  <2>4. QED
    BY <2>1, <2>2, <2>3 DEF Reached
<1>3. QED
    BY <1>1, <1>2

LEMMA CancelPositive ==
    ASSUME NEW b, SoundBook(b), PositiveOrders(b), NEW id \in Ids, NEW r,
           r = CancelOrder(b, id)
    PROVE  SoundBook(r.book) /\ PositiveOrders(r.book)
<1>1. CASE id \in Resting(b)
  <2>1. r.book = Dropped(b, id)
    BY <1>1 DEF CancelOrder, Done
  <2>2. QED
    BY <1>1, <2>1, DroppedShrinks
<1>2. CASE id \notin Resting(b)
    BY <1>2 DEF CancelOrder, Rejected
<1>3. QED
    BY <1>1, <1>2

-----------------------------------------------------------------------------
(* Who trades, and who rests after a call.                                 *)
TakesFrom(b, r) ==
    /\ Resting(r.book) \subseteq Resting(b)
    /\ \A i \in 1 .. Len(r.trades) : r.trades[i].maker_id \in Resting(b)

LEMMA NextFillTakes ==
    ASSUME NEW b, NEW r, Reached(r), TakesFrom(b, r), NEW s \in Side, NEW limit \in Prices
    PROVE  TakesFrom(b, NextFill(s, limit, r))
<1> DEFINE t == NextTrade(r.book, s, r.left)
           c == ExecuteOrder(r.book, t.maker_id, t.qty).book
<1>1. CASE ~ KeepsTrading(r.book, s, limit, r.left, r.trades)
  <2>1. NextFill(s, limit, r) = r
    BY <1>1 DEF NextFill
  <2>2. QED
    BY <2>1
<1>2. CASE KeepsTrading(r.book, s, limit, r.left, r.trades)
  <2>1. NextFill(s, limit, r) =
           [book |-> c, trades |-> Append(r.trades, t), left |-> r.left - t.qty]
    BY <1>2 DEF NextFill
  <2>2. r.left > 0 /\ WouldCross(r.book, s, limit)
    BY <1>2 DEF KeepsTrading
  <2>3. t \in Trade /\ t.maker_id \in Resting(r.book) /\ Shrinks(r.book, c)
    BY <2>2, FillFacts DEF Reached
  <2> HIDE DEF t, c
  <2>4. Resting(c) \subseteq Resting(b) /\ t.maker_id \in Resting(b)
    BY <2>3 DEF Shrinks, TakesFrom
  <2>5. /\ Len(Append(r.trades, t)) = Len(r.trades) + 1 /\ Len(r.trades) \in Nat
        /\ \A i \in 1 .. Len(r.trades) : Append(r.trades, t)[i] = r.trades[i]
        /\ Append(r.trades, t)[Len(r.trades) + 1] = t
    BY <2>3, AppendProperties, LenProperties DEF Reached
  <2>6. QED
    BY <2>1, <2>4, <2>5 DEF TakesFrom
<1>3. QED
    BY <1>1, <1>2

LEMMA FillsTake ==
    ASSUME NEW b, SoundBook(b), PositiveOrders(b), NEW s \in Side, NEW limit \in Prices,
           NEW qty \in Nat
    PROVE  TakesFrom(b, Fills(b, s, limit, qty))
<1>1. PICK run : /\ Fills(b, s, limit, qty) = run[MaxTrades]
                 /\ run[0] = [book |-> b, trades |-> <<>>, left |-> qty]
                 /\ IsRun(run, s, limit)
    BY FillsRun
<1> DEFINE T == {k \in 0 .. MaxTrades : Reached(run[k]) /\ TakesFrom(b, run[k])}
<1>2. 0 \in T
  <2> DEFINE first == [book |-> b, trades |-> <<>>, left |-> qty]
  <2>1. Reached(first) /\ TakesFrom(b, first)
    <3>1. <<>> \in Seq(Trade) /\ Len(<<>>) = 0
      OBVIOUS
    <3>2. QED
      BY <3>1 DEF Reached, TakesFrom
  <2> HIDE DEF first
  <2>2. Reached(run[0]) /\ TakesFrom(b, run[0])
    BY <1>1, <2>1 DEF first
  <2>3. QED
    BY <2>2, MaxTradesAssumption
<1>3. ASSUME NEW k \in 1 .. MaxTrades, k - 1 \in T PROVE k \in T
    BY <1>1, <1>3, NextFillFacts, NextFillTakes, MaxTradesAssumption DEF IsRun
<1> HIDE DEF T
<1>4. MaxTrades \in T
    BY <1>2, <1>3, InductionTo, MaxTradesAssumption
<1>5. QED
    BY <1>1, <1>4 DEF T

LEMMA SubmitOrderTakes ==
    ASSUME NEW b, SoundBook(b), PositiveOrders(b), NEW id \in Ids, NEW s \in Side,
           NEW p \in Prices, NEW qty \in Int, NEW r, r = SubmitOrder(b, id, s, p, qty)
    PROVE  /\ Resting(r.book) \subseteq Resting(b) \union {id}
           /\ \A i \in 1 .. Len(r.trades) : r.trades[i].maker_id \in Resting(b)
<1>1. CASE qty <= 0
  <2>1. r = [book |-> b, ok |-> FALSE, trades |-> <<>>, left |-> qty]
    BY <1>1 DEF SubmitOrder
  <2>2. Len(<<>>) = 0
    OBVIOUS
  <2>3. QED
    BY <2>1, <2>2
<1>2. CASE ~ (qty <= 0)
  <2> DEFINE f == Fills(b, s, p, qty)
             rest == Remainder(f.book, id, s, p, f.left)
             o == [side |-> s, price |-> p, qty |-> f.left]
  <2>1. Reached(f) /\ TakesFrom(b, f)
    BY <1>2, FillsFacts, FillsTake
  <2>2. r = [book |-> rest.book, ok |-> rest.ok, trades |-> f.trades, left |-> f.left]
    BY <1>2 DEF SubmitOrder
  <2> HIDE DEF f
  <2>3. o \in Order /\ f.book \in Book
    BY <2>1 DEF Order, Reached, SoundBook
  <2>4. rest.book = f.book \/ rest.book = AppendOrder(f.book, id, o)
    BY DEF Remainder, AddOrder, Done, Rejected
  <2>5. Resting(rest.book) \subseteq Resting(f.book) \union {id}
    BY <2>3, <2>4, AppendOrderFacts
  <2>6. QED
    BY <2>1, <2>2, <2>5 DEF TakesFrom
<1>3. QED
    BY <1>1, <1>2

-----------------------------------------------------------------------------
(* What Total adds up.                                                     *)

(* A function that starts at 0 and grows by the elements of q is its sum.  *)
LEMMA TotalIs ==
    ASSUME NEW q \in Seq(Int), NEW f, f[0] = 0,
           \A i \in 1 .. Len(q) : f[i] = f[i - 1] + q[i]
    PROVE  Total(q) = f[Len(q)]
<1> DEFINE n == Len(q)
           Is(g) == g = [i \in 0 .. n |-> IF i = 0 THEN 0 ELSE g[i - 1] + q[i]]
           upTo == CHOOSE g : Is(g)
           all == [i \in 0 .. n |-> f[i]]
<1>1. n \in Nat
    OBVIOUS
<1>2. Is(upTo)
  <2>1. \A i \in 0 .. n : all[i] = IF i = 0 THEN 0 ELSE all[i - 1] + q[i]
    <3> TAKE i \in 0 .. n
    <3>1. i # 0 => i - 1 \in 0 .. n /\ i \in 1 .. n
      BY <1>1
    <3>2. QED
      BY <3>1
  <2>2. Is(all)
    <3>1. all = [i \in 0 .. n |-> all[i]]
      OBVIOUS
    <3> HIDE DEF all
    <3>2. QED
      BY <2>1, <3>1
  <2> HIDE DEF Is, all
  <2>3. QED
    BY <2>2
<1>3. \A k \in 0 .. n : upTo[k] = f[k]
  <2> DEFINE T == {k \in 0 .. n : upTo[k] = f[k]}
  <2> HIDE DEF upTo
  <2>1. 0 \in T
    BY <1>1, <1>2
  <2>2. ASSUME NEW k \in 1 .. n, k - 1 \in T PROVE k \in T
    <3>1. upTo[k] = upTo[k - 1] + q[k]
      BY <1>1, <1>2
    <3>2. QED
      BY <2>2, <3>1
  <2> HIDE DEF T
  <2>3. \A k \in 0 .. n : k \in T
    BY <1>1, <2>1, <2>2, InductionTo
  <2>4. QED
    BY <2>3 DEF T
<1>4. Total(q) = upTo[n]
    BY Zenon DEF Total
<1>5. QED
    BY <1>1, <1>3, <1>4

(* The running sums of q: from 0, each the one before and the next element.*)
RunningTotal(f, q) == /\ f \in [0 .. Len(q) -> Int]
                      /\ f[0] = 0
                      /\ \A i \in 1 .. Len(q) : f[i] = f[i - 1] + q[i]

(* Every sequence of numbers has its running sums, and Total is the last   *)
(* of them.                                                                *)
LEMMA TotalRuns ==
    ASSUME NEW q \in Seq(Int)
    PROVE  \E f : RunningTotal(f, q) /\ f[Len(q)] = Total(q)
<1> DEFINE n == Len(q)
           sums(f, k) == /\ f \in [0 .. k -> Int]
                         /\ f[0] = 0
                         /\ \A i \in 1 .. k : f[i] = f[i - 1] + q[i]
           T == {k \in 0 .. n : \E f : sums(f, k)}
<1>1. n \in Nat /\ \A i \in 1 .. n : q[i] \in Int
    OBVIOUS
<1>2. 0 \in T
  <2>1. sums([i \in 0 .. 0 |-> 0], 0)
    OBVIOUS
  <2> HIDE DEF sums
  <2>2. QED
    BY <1>1, <2>1
<1>3. ASSUME NEW k \in 1 .. n, k - 1 \in T PROVE k \in T
  <2>1. PICK f : sums(f, k - 1)
    BY <1>3
  <2> DEFINE g == [i \in 0 .. k |-> IF i = k THEN f[k - 1] + q[k] ELSE f[i]]
  <2>2. f[k - 1] \in Int /\ q[k] \in Int /\ f \in [0 .. k - 1 -> Int] /\ f[0] = 0
    BY <1>1, <2>1
  <2>3. \A i \in 0 .. k : g[i] = IF i = k THEN f[k - 1] + q[k] ELSE f[i]
    OBVIOUS
  <2>4. g \in [0 .. k -> Int]
    <3>1. ASSUME NEW i \in 0 .. k PROVE (IF i = k THEN f[k - 1] + q[k] ELSE f[i]) \in Int
      BY <2>2
    <3>2. QED
      BY <3>1
  <2> HIDE DEF g
  <2>5. sums(g, k)
    <3>1. g[0] = 0
      BY <2>2, <2>3
    <3>2. ASSUME NEW i \in 1 .. k PROVE g[i] = g[i - 1] + q[i]
      <4>1. i \in 0 .. k /\ i - 1 \in 0 .. k /\ i - 1 # k
        OBVIOUS
      <4>2. g[i] = (IF i = k THEN f[k - 1] + q[k] ELSE f[i]) /\ g[i - 1] = f[i - 1]
        BY <2>3, <4>1
      <4>3. i # k => i \in 1 .. k - 1
        OBVIOUS
      <4>4. QED
        BY <2>1, <4>2, <4>3
    <3>3. QED
      BY <2>4, <3>1, <3>2
  <2> HIDE DEF sums
  <2>6. QED
    BY <2>5
<1>4. n \in T
  <2> HIDE DEF T
  <2>2. n \in 0 .. n
    BY <1>1
  <2>3. QED
    BY <1>1, <1>2, <1>3, <2>2, InductionTo
<1>5. PICK f : sums(f, n)
    BY <1>4
<1>6. RunningTotal(f, q)
    BY <1>5 DEF RunningTotal
<1>7. QED
    BY <1>5, <1>6, TotalIs

(* Total is what any running sums of the sequence end with.                *)
LEMMA TotalOf ==
    ASSUME NEW q \in Seq(Int), NEW f, RunningTotal(f, q)
    PROVE  Total(q) = f[Len(q)]
BY TotalIs DEF RunningTotal

(* Nothing adds up to nothing.                                             *)
LEMMA TotalOfNone == Total(<<>>) = 0
<1>1. RunningTotal([i \in 0 .. 0 |-> 0], <<>>) /\ <<>> \in Seq(Int)
    BY DEF RunningTotal
<1>2. QED
    BY <1>1, TotalOf

(* push_back adds the new quantity to the total.                           *)
LEMMA TotalOfAppend ==
    ASSUME NEW q \in Seq(Int), NEW x \in Int
    PROVE  Total(Append(q, x)) = Total(q) + x
<1>1. PICK f : RunningTotal(f, q) /\ f[Len(q)] = Total(q)
    BY TotalRuns
<1>2. PICK n \in Nat : n = Len(q)
    OBVIOUS
<1>3. f \in [0 .. n -> Int] /\ f[0] = 0 /\ f[n] = Total(q)
    BY <1>1, <1>2 DEF RunningTotal
<1>12. \A i \in 1 .. n : f[i] = f[i - 1] + q[i]
    BY <1>1, <1>2 DEF RunningTotal
<1> DEFINE g == [i \in 0 .. n + 1 |-> IF i = n + 1 THEN f[n] + x ELSE f[i]]
           w == Append(q, x)
<1>4. w \in Seq(Int) /\ Len(w) = n + 1
      /\ \A i \in 1 .. n + 1 : w[i] = IF i = n + 1 THEN x ELSE q[i]
    BY <1>2, AppendFacts
<1>5. g \in [0 .. n + 1 -> Int]
  <2>1. ASSUME NEW i \in 0 .. n + 1 PROVE (IF i = n + 1 THEN f[n] + x ELSE f[i]) \in Int
    BY <1>3
  <2>2. QED
    BY <2>1
<1>6. \A i \in 0 .. n + 1 : g[i] = IF i = n + 1 THEN f[n] + x ELSE f[i]
    OBVIOUS
<1> HIDE DEF g, w
<1>7. g[0] = 0
    BY <1>3, <1>6
<1>8. ASSUME NEW i \in 1 .. n + 1 PROVE g[i] = g[i - 1] + w[i]
  <2>1. CASE i = n + 1
    BY <1>3, <1>4, <1>6, <2>1
  <2>2. CASE i # n + 1
    <3>1. i \in 1 .. n /\ i \in 0 .. n + 1 /\ i - 1 \in 0 .. n + 1 /\ i - 1 # n + 1
      BY <2>2
    <3>2. g[i] = f[i] /\ g[i - 1] = f[i - 1] /\ w[i] = q[i]
      BY <1>4, <1>6, <2>2, <3>1
    <3>3. QED
      BY <1>12, <3>1, <3>2
  <2>3. QED
    BY <2>1, <2>2
<1>9. Total(w) = g[n + 1]
    BY <1>4, <1>5, <1>7, <1>8, TotalOf DEF RunningTotal
<1>10. QED
    BY <1>3, <1>6, <1>9 DEF w

(* unlink takes the quantity of the order that leaves off the total.       *)
LEMMA TotalOfRemoveAt ==
    ASSUME NEW q \in Seq(Int), NEW j \in 1 .. Len(q)
    PROVE  Total(RemoveAt(q, j)) = Total(q) - q[j]
<1>1. PICK f : RunningTotal(f, q) /\ f[Len(q)] = Total(q)
    BY TotalRuns
<1>2. PICK n \in Nat : n = Len(q)
    OBVIOUS
<1>3. /\ f \in [0 .. n -> Int] /\ f[0] = 0 /\ f[n] = Total(q)
      /\ j \in 1 .. n /\ q[j] \in Int
    BY <1>1, <1>2 DEF RunningTotal
<1>12. \A i \in 1 .. n : f[i] = f[i - 1] + q[i]
    BY <1>1, <1>2 DEF RunningTotal
<1> DEFINE g == [i \in 0 .. n - 1 |-> IF i < j THEN f[i] ELSE f[i + 1] - q[j]]
           w == RemoveAt(q, j)
<1>4. w \in Seq(Int) /\ Len(w) = n - 1
      /\ \A i \in 1 .. n - 1 : w[i] = IF i < j THEN q[i] ELSE q[i + 1]
    BY <1>2, RemoveAtFacts
<1>5. g \in [0 .. n - 1 -> Int]
  <2>1. ASSUME NEW i \in 0 .. n - 1 PROVE (IF i < j THEN f[i] ELSE f[i + 1] - q[j]) \in Int
    <3>1. i \in 0 .. n /\ i + 1 \in 0 .. n
      OBVIOUS
    <3>2. f[i] \in Int /\ f[i + 1] \in Int
      BY <1>3, <3>1
    <3>3. QED
      BY <1>3, <3>2
  <2>2. QED
    BY <2>1
<1>6. \A i \in 0 .. n - 1 : g[i] = IF i < j THEN f[i] ELSE f[i + 1] - q[j]
    OBVIOUS
<1> HIDE DEF g, w
<1>7. g[0] = 0
  <2>1. 0 \in 0 .. n - 1 /\ 0 < j
    BY <1>3
  <2>2. QED
    BY <1>3, <1>6, <2>1
<1>8. ASSUME NEW i \in 1 .. n - 1 PROVE g[i] = g[i - 1] + w[i]
  <2>1. i \in 1 .. n /\ i + 1 \in 1 .. n /\ i \in 0 .. n - 1 /\ i - 1 \in 0 .. n - 1
    OBVIOUS
  <2>2. f[i] = f[i - 1] + q[i] /\ f[i + 1] = f[i] + q[i + 1]
    <3>1. (i + 1) - 1 = i
      OBVIOUS
    <3>2. QED
      BY <1>12, <2>1, <3>1
  <2>3. f[i] \in Int /\ f[i + 1] \in Int /\ f[i - 1] \in Int
    BY <1>3, <2>1
  <2>4. q[i] \in Int /\ q[i + 1] \in Int /\ q[j] \in Int /\ j \in Int
    BY <1>2, <1>3, <2>1
  <2>5. CASE i < j
    <3>1. g[i] = f[i] /\ g[i - 1] = f[i - 1] /\ w[i] = q[i]
      <4>1. i - 1 < j
        BY <2>4, <2>5
      <4>2. QED
        BY <1>4, <1>6, <2>1, <2>5, <4>1
    <3>2. QED
      BY <2>2, <3>1
  <2>6. CASE i > j
    <3>1. g[i] = f[i + 1] - q[j] /\ g[i - 1] = f[i] - q[j] /\ w[i] = q[i + 1]
      <4>1. ~ (i < j) /\ ~ (i - 1 < j) /\ (i - 1) + 1 = i
        BY <1>3, <2>6
      <4>2. QED
        BY <1>4, <1>6, <2>1, <4>1
    <3>2. QED
      BY <2>2, <2>3, <2>4, <3>1
  <2>7. CASE i = j
    <3>1. g[i] = f[i + 1] - q[j] /\ g[i - 1] = f[i - 1] /\ w[i] = q[i + 1]
      <4>1. ~ (i < j) /\ i - 1 < j
        BY <1>3, <2>7
      <4>2. QED
        BY <1>4, <1>6, <2>1, <4>1
    <3>2. QED
      BY <2>2, <2>3, <2>4, <2>7, <3>1
  <2>8. QED
    BY <1>3, <2>5, <2>6, <2>7
<1>9. Total(w) = g[n - 1]
    BY <1>3, <1>4, <1>5, <1>7, <1>8, TotalOf DEF RunningTotal
<1>10. g[n - 1] = f[n] - q[j]
  <2>1. n - 1 \in 0 .. n - 1 /\ n \in 1 .. n /\ (n - 1) + 1 = n /\ f[n - 1] \in Int
    BY <1>3
  <2>2. CASE j = n
    <3>1. f[n] = f[n - 1] + q[n] /\ g[n - 1] = f[n - 1]
      BY <1>6, <1>12, <2>1, <2>2
    <3>2. QED
      BY <1>3, <2>1, <2>2, <3>1
  <2>3. CASE j # n
    <3>1. ~ (n - 1 < j)
      BY <1>3, <2>3
    <3>2. QED
      BY <1>6, <2>1, <3>1
  <2>4. QED
    BY <2>2, <2>3
<1>11. QED
    BY <1>3, <1>9, <1>10 DEF w

(* A change of one quantity changes the total by the difference.           *)
LEMMA TotalOfChanged ==
    ASSUME NEW q \in Seq(Int), NEW j \in 1 .. Len(q), NEW x \in Int
    PROVE  Total([q EXCEPT ![j] = x]) = Total(q) + (x - q[j])
<1>1. PICK f : RunningTotal(f, q) /\ f[Len(q)] = Total(q)
    BY TotalRuns
<1>2. PICK n \in Nat : n = Len(q)
    OBVIOUS
<1>3. /\ f \in [0 .. n -> Int] /\ f[0] = 0 /\ f[n] = Total(q)
      /\ j \in 1 .. n /\ q[j] \in Int
    BY <1>1, <1>2 DEF RunningTotal
<1>12. \A i \in 1 .. n : f[i] = f[i - 1] + q[i]
    BY <1>1, <1>2 DEF RunningTotal
<1> DEFINE g == [i \in 0 .. n |-> IF i < j THEN f[i] ELSE f[i] + (x - q[j])]
           w == [q EXCEPT ![j] = x]
<1>4. w \in Seq(Int) /\ Len(w) = n
      /\ \A i \in 1 .. n : w[i] = IF i = j THEN x ELSE q[i]
    BY <1>2
<1>5. g \in [0 .. n -> Int]
  <2>1. ASSUME NEW i \in 0 .. n PROVE (IF i < j THEN f[i] ELSE f[i] + (x - q[j])) \in Int
    <3>1. f[i] \in Int
      BY <1>3
    <3>2. QED
      BY <1>3, <3>1
  <2>2. QED
    BY <2>1
<1>6. \A i \in 0 .. n : g[i] = IF i < j THEN f[i] ELSE f[i] + (x - q[j])
    OBVIOUS
<1> HIDE DEF g, w
<1>7. g[0] = 0
  <2>1. 0 \in 0 .. n /\ 0 < j
    BY <1>3
  <2>2. QED
    BY <1>3, <1>6, <2>1
<1>8. ASSUME NEW i \in 1 .. n PROVE g[i] = g[i - 1] + w[i]
  <2>1. i \in 0 .. n /\ i - 1 \in 0 .. n
    OBVIOUS
  <2>2. f[i] = f[i - 1] + q[i]
    BY <1>12
  <2>7. f[i] \in Int /\ f[i - 1] \in Int /\ q[i] \in Int /\ q[j] \in Int /\ j \in Int
    BY <1>2, <1>3, <2>1
  <2>3. CASE i < j
    <3>1. g[i] = f[i] /\ g[i - 1] = f[i - 1] /\ w[i] = q[i]
      <4>1. i - 1 < j /\ i # j
        BY <2>3, <2>7
      <4>2. QED
        BY <1>4, <1>6, <2>1, <2>3, <4>1
    <3>2. QED
      BY <2>2, <3>1
  <2>4. CASE i > j
    <3>1. g[i] = f[i] + (x - q[j]) /\ g[i - 1] = f[i - 1] + (x - q[j]) /\ w[i] = q[i]
      <4>1. ~ (i < j) /\ ~ (i - 1 < j) /\ i # j
        BY <2>4, <2>7
      <4>2. QED
        BY <1>4, <1>6, <2>1, <4>1
    <3>2. QED
      BY <2>2, <2>7, <3>1
  <2>5. CASE i = j
    <3>1. g[i] = f[i] + (x - q[j]) /\ g[i - 1] = f[i - 1] /\ w[i] = x
      BY <1>3, <1>4, <1>6, <2>1, <2>5
    <3>2. QED
      BY <2>2, <2>5, <2>7, <3>1
  <2>6. QED
    BY <1>3, <2>3, <2>4, <2>5
<1>9. Total(w) = g[n]
    BY <1>4, <1>5, <1>7, <1>8, TotalOf DEF RunningTotal
<1>10. g[n] = f[n] + (x - q[j])
  <2>1. n \in 0 .. n /\ ~ (n < j)
    BY <1>3
  <2>2. QED
    BY <1>6, <2>1
<1>11. QED
    BY <1>3, <1>9, <1>10 DEF w

(* A cell put in front of a sequence.                                      *)
LEMMA ConsFacts ==
    ASSUME NEW S, NEW q \in Seq(S), NEW e \in S
    PROVE  /\ Cons(e, q) \in Seq(S)
           /\ Len(Cons(e, q)) = Len(q) + 1
           /\ \A i \in 1 .. Len(q) + 1 : Cons(e, q)[i] = IF i = 1 THEN e ELSE q[i - 1]
<1>1. <<e>> \in Seq(S) /\ Len(<<e>>) = 1 /\ <<e>>[1] = e
    OBVIOUS
<1>2. Cons(e, q) = <<e>> \o q
    BY DEF Cons
<1>3. QED
    BY <1>1, <1>2, ConcatProperties

-----------------------------------------------------------------------------
(* The chain of levels of a side.                                          *)

(* Better is a strict order of prices.                                     *)
LEMMA BetterOrders ==
    ASSUME NEW s \in Side, NEW p \in Prices, NEW q \in Prices
    PROVE  /\ ~ Better(s, p, p)
           /\ Better(s, p, q) => ~ Better(s, q, p)
           /\ p # q /\ ~ Better(s, p, q) => Better(s, q, p)
           /\ \A x \in Prices : Better(s, x, p) /\ Better(s, p, q) => Better(s, x, q)
BY BookAssumption DEF Better

(* The elements of q are all different.                                    *)
NoRepeat(q) == \A i, j \in 1 .. Len(q) : q[i] = q[j] => i = j

(* Element x is in q.                                                      *)
Has(q, x) == \E i \in 1 .. Len(q) : q[i] = x

(* A pool after its first cell is acquired.                                *)
LEMMA PoolTail ==
    ASSUME NEW S, NEW w \in Seq(S), w # <<>>, NoRepeat(w)
    PROVE  /\ Head(w) \in S /\ Has(w, Head(w))
           /\ Tail(w) \in Seq(S) /\ NoRepeat(Tail(w))
           /\ \A x : Has(Tail(w), x) <=> Has(w, x) /\ x # Head(w)
<1>1. PICK l : l = Head(w)
    OBVIOUS
<1>2. PICK q : q = Tail(w)
    OBVIOUS
<1>3. /\ Len(w) \in Nat /\ Len(w) # 0 /\ l = w[1]
      /\ q \in Seq(S) /\ Len(q) = Len(w) - 1
      /\ \A i \in 1 .. Len(q) : q[i] = w[i + 1]
    BY <1>1, <1>2, HeadTailProperties, EmptySeq
<1>4. 1 \in 1 .. Len(w) /\ w[1] \in S
    BY <1>3
<1>5. \A i, j \in 1 .. Len(w) : w[i] = w[j] => i = j
    BY DEF NoRepeat
<1>6. \A i \in 1 .. Len(q) : i + 1 \in 1 .. Len(w) /\ i + 1 # 1
    BY <1>3
<1>7. ASSUME NEW i \in 1 .. Len(q), NEW j \in 1 .. Len(q), q[i] = q[j] PROVE i = j
  <2>1. w[i + 1] = w[j + 1]
    BY <1>3, <1>7
  <2>2. i + 1 = j + 1
    BY <1>5, <1>6, <2>1
  <2>3. QED
    BY <2>2
<1>8. ASSUME NEW x PROVE Has(q, x) <=> Has(w, x) /\ x # l
  <2>1. ASSUME NEW i \in 1 .. Len(q), q[i] = x PROVE Has(w, x) /\ x # l
    <3>1. w[i + 1] = x /\ i + 1 \in 1 .. Len(w) /\ i + 1 # 1
      BY <1>3, <1>6, <2>1
    <3>2. x # l
      BY <1>3, <1>4, <1>5, <3>1
    <3>3. QED
      BY <3>1, <3>2 DEF Has
  <2>2. ASSUME NEW i \in 1 .. Len(w), w[i] = x, x # l PROVE Has(q, x)
    <3>1. i # 1
      BY <1>3, <2>2
    <3>2. i - 1 \in 1 .. Len(q) /\ (i - 1) + 1 = i
      BY <1>3, <3>1
    <3>3. q[i - 1] = w[(i - 1) + 1]
      BY <1>3, <3>2
    <3>4. q[i - 1] = x
      BY <2>2, <3>2, <3>3
    <3>5. QED
      BY <3>2, <3>4 DEF Has
  <2>3. QED
    BY <2>1, <2>2 DEF Has
<1>9. l \in S /\ Has(w, l)
    BY <1>3, <1>4 DEF Has
<1>10. NoRepeat(q)
    BY <1>7 DEF NoRepeat
<1>11. QED
    BY <1>1, <1>2, <1>3, <1>8, <1>9, <1>10

(* A pool after a cell is released.                                        *)
LEMMA PoolCons ==
    ASSUME NEW S, NEW w \in Seq(S), NoRepeat(w), NEW l \in S, ~ Has(w, l)
    PROVE  /\ Cons(l, w) \in Seq(S) /\ Cons(l, w) # <<>> /\ NoRepeat(Cons(l, w))
           /\ \A x : Has(Cons(l, w), x) <=> Has(w, x) \/ x = l
<1>1. Len(w) \in Nat
    OBVIOUS
<1>2. PICK q : q = Cons(l, w)
    OBVIOUS
<1>3. /\ q \in Seq(S) /\ Len(q) = Len(w) + 1
      /\ \A i \in 1 .. Len(w) + 1 : q[i] = IF i = 1 THEN l ELSE w[i - 1]
  <2>1. /\ Cons(l, w) \in Seq(S) /\ Len(Cons(l, w)) = Len(w) + 1
        /\ \A i \in 1 .. Len(w) + 1 : Cons(l, w)[i] = IF i = 1 THEN l ELSE w[i - 1]
    BY ConsFacts
  <2>2. QED
    BY <1>2, <2>1
<1>4. /\ \A i, j \in 1 .. Len(w) : w[i] = w[j] => i = j
      /\ \A i \in 1 .. Len(w) : w[i] # l
    BY DEF NoRepeat, Has
<1>5. \A i \in 1 .. Len(q) : i # 1 => i - 1 \in 1 .. Len(w) /\ q[i] = w[i - 1]
    BY <1>1, <1>3
<1>6. 1 \in 1 .. Len(q) /\ q[1] = l
    BY <1>1, <1>3
<1>7. ASSUME NEW i \in 1 .. Len(q), NEW j \in 1 .. Len(q), q[i] = q[j] PROVE i = j
  <2>1. CASE i = 1
    <3>1. ASSUME j # 1 PROVE FALSE
      <4>1. q[j] = w[j - 1] /\ w[j - 1] # l
        BY <1>4, <1>5, <3>1
      <4>2. QED
        BY <1>6, <1>7, <2>1, <4>1
    <3>2. QED
      BY <2>1, <3>1
  <2>2. CASE i # 1 /\ j = 1
    <3>1. q[i] = w[i - 1] /\ w[i - 1] # l
      BY <1>4, <1>5, <2>2
    <3>2. QED
      BY <1>6, <1>7, <2>2, <3>1
  <2>3. CASE i # 1 /\ j # 1
    <3>1. w[i - 1] = w[j - 1] /\ i - 1 \in 1 .. Len(w) /\ j - 1 \in 1 .. Len(w)
      BY <1>5, <1>7, <2>3
    <3>2. i - 1 = j - 1
      BY <1>4, <3>1
    <3>3. QED
      BY <1>1, <1>3, <3>2
  <2>4. QED
    BY <2>1, <2>2, <2>3
<1>8. ASSUME NEW x PROVE Has(q, x) <=> Has(w, x) \/ x = l
  <2>1. ASSUME NEW i \in 1 .. Len(q), q[i] = x PROVE Has(w, x) \/ x = l
    BY <1>5, <1>6, <2>1 DEF Has
  <2>2. ASSUME NEW i \in 1 .. Len(w), w[i] = x PROVE Has(q, x)
    <3>1. i + 1 \in 1 .. Len(q) /\ i + 1 # 1 /\ (i + 1) - 1 = i
      BY <1>1, <1>3
    <3>2. q[i + 1] = w[(i + 1) - 1]
      BY <1>5, <3>1
    <3>3. q[i + 1] = x
      BY <2>2, <3>1, <3>2
    <3>4. QED
      BY <3>1, <3>3 DEF Has
  <2>3. ASSUME x = l PROVE Has(q, x)
    BY <1>6, <2>3 DEF Has
  <2>4. QED
    BY <2>1, <2>2, <2>3 DEF Has
<1>9. q # <<>> /\ NoRepeat(q)
    BY <1>1, <1>3, <1>7 DEF NoRepeat
<1>10. QED
    BY <1>2, <1>3, <1>8, <1>9

-----------------------------------------------------------------------------
(* The cell in hand.                                                       *)

(* A set with a cell for each element is as large as the pool once no cell *)
(* is left.                                                                *)
LEMMA InjectionFits ==
    ASSUME NEW n \in Nat \ {0}, NEW S, NEW f \in [S -> 1 .. n],
           \A x, y \in S : f[x] = f[y] => x = y
    PROVE  /\ IsFiniteSet(S) /\ Cardinality(S) \in Nat /\ Cardinality(S) <= n
           /\ Cardinality(S) < n <=> \E c \in 1 .. n : \A x \in S : f[x] # c
<1>1. IsFiniteSet(1 .. n) /\ Cardinality(1 .. n) = n
    BY FS_Interval
<1>2. f \in Injection(S, 1 .. n)
    BY DEF Injection, IsInjective
<1>3. /\ IsFiniteSet(S) /\ Cardinality(S) <= n
      /\ Cardinality(S) = n <=> f \in Surjection(S, 1 .. n)
    BY <1>1, <1>2, FS_Injection
<1>4. Cardinality(S) \in Nat
    BY <1>3, FS_CardinalityType
<1>5. f \in Surjection(S, 1 .. n) <=> ~ \E c \in 1 .. n : \A x \in S : f[x] # c
    BY DEF Surjection
<1>6. QED
    BY <1>3, <1>4, <1>5

(* A pool is empty when no cell is in it.                                  *)
LEMMA PoolEmpty ==
    ASSUME NEW S, NEW q \in Seq(S)
    PROVE  q # <<>> <=> \E c \in S : Has(q, c)
<1>1. Len(q) \in Nat /\ \A i \in 1 .. Len(q) : q[i] \in S
    OBVIOUS
<1>2. ASSUME q # <<>> PROVE \E c \in S : Has(q, c)
  <2>1. 1 \in 1 .. Len(q)
    BY <1>1, <1>2, EmptySeq
  <2>2. QED
    BY <1>1, <2>1 DEF Has
<1>3. ASSUME NEW c, Has(q, c) PROVE q # <<>>
    BY <1>1, <1>3 DEF Has
<1>4. QED
    BY <1>2, <1>3

(* A set without two elements has one or none.                             *)
LEMMA OneOrNone ==
    ASSUME NEW S, \A x, y \in S : x = y
    PROVE  Cardinality(S) = IF S = {} THEN 0 ELSE 1
<1>1. CASE S = {}
    BY <1>1, FS_EmptySet
<1>2. CASE S # {}
  <2>1. PICK x \in S : TRUE
    BY <1>2
  <2>2. S = {x}
    BY <2>1
  <2>3. QED
    BY <1>2, <2>2, FS_Singleton
<1>3. QED
    BY <1>1, <1>2

(* A cell is in a pool of different cells once or not at all.              *)
LEMMA CountedIn ==
    ASSUME NEW S, NEW q \in Seq(S), NoRepeat(q), NEW c
    PROVE  Cardinality({i \in DOMAIN q : q[i] = c}) = IF Has(q, c) THEN 1 ELSE 0
<1>1. PICK T : T = {i \in DOMAIN q : q[i] = c}
    OBVIOUS
<1>2. DOMAIN q = 1 .. Len(q)
    OBVIOUS
<1>3. \A x, y \in T : x = y
    BY <1>1, <1>2 DEF NoRepeat
<1>4. T = {} <=> ~ Has(q, c)
    BY <1>1, <1>2 DEF Has
<1>5. QED
    BY <1>1, <1>3, <1>4, OneOrNone

(* Prices each better than the next: their number, and how many are better *)
(* than the i-th.                                                          *)
Ranked(s, w, P) ==
    /\ w \in Seq(Prices) /\ P = {w[i] : i \in 1 .. Len(w)}
    /\ \A i, j \in 1 .. Len(w) : i < j => Better(s, w[i], w[j])

(* No price is there twice, and the order of places is the order of        *)
(* prices.                                                                 *)
LEMMA RankedDistinct ==
    ASSUME NEW s \in Side, NEW w, NEW P, Ranked(s, w, P)
    PROVE  /\ w \in Seq(Prices) /\ Len(w) \in Nat
           /\ \A i, j \in 1 .. Len(w) : w[i] = w[j] => i = j
           /\ \A i, j \in 1 .. Len(w) : Better(s, w[i], w[j]) <=> i < j
<1>1. w \in Seq(Prices) /\ Len(w) \in Nat /\ \A i \in 1 .. Len(w) : w[i] \in Prices
    BY DEF Ranked
<1>2. ASSUME NEW i \in 1 .. Len(w), NEW j \in 1 .. Len(w)
      PROVE  (w[i] = w[j] => i = j) /\ (Better(s, w[i], w[j]) <=> i < j)
  <2>1. CASE i < j
    <3>1. Better(s, w[i], w[j])
      BY <2>1 DEF Ranked
    <3>2. QED
      BY <1>1, <2>1, <3>1, BetterOrders
  <2>2. CASE j < i
    <3>1. Better(s, w[j], w[i])
      BY <2>2 DEF Ranked
    <3>2. QED
      BY <1>1, <2>2, <3>1, BetterOrders
  <2>3. CASE i = j
    BY <1>1, <2>3, BetterOrders
  <2>4. QED
    BY <1>1, <2>1, <2>2, <2>3
<1>3. QED
    BY <1>1, <1>2

(* There are as many prices as places, and i - 1 are better than the i-th. *)
LEMMA RankOf ==
    ASSUME NEW s \in Side, NEW w, NEW P, Ranked(s, w, P)
    PROVE  /\ IsFiniteSet(P) /\ Cardinality(P) = Len(w) /\ (P = {} <=> Len(w) = 0)
           /\ \A i \in 1 .. Len(w) :
                 w[i] \in P /\ Cardinality({q \in P : Better(s, q, w[i])}) = i - 1
<1>1. /\ w \in Seq(Prices) /\ Len(w) \in Nat
      /\ \A i, j \in 1 .. Len(w) : w[i] = w[j] => i = j
      /\ \A i, j \in 1 .. Len(w) : Better(s, w[i], w[j]) <=> i < j
    BY RankedDistinct
<1>2. P = {w[i] : i \in 1 .. Len(w)}
    BY DEF Ranked
<1>3. IsFiniteSet(P) /\ Cardinality(P) = Len(w)
    BY <1>1, <1>2, LenOfDistinct
<1>4. P = {} <=> Len(w) = 0
  <2>1. ASSUME Len(w) # 0 PROVE w[1] \in P
    BY <1>1, <1>2, <2>1
  <2>2. QED
    BY <1>1, <1>2, <2>1
<1>5. ASSUME NEW i \in 1 .. Len(w)
      PROVE  w[i] \in P /\ Cardinality({q \in P : Better(s, q, w[i])}) = i - 1
  <2>1. PICK n \in Nat : n = i - 1
    OBVIOUS
  <2>2. PICK v : v = [j \in 1 .. n |-> w[j]]
    OBVIOUS
  <2>3. \A j \in 1 .. n : j \in 1 .. Len(w) /\ j < i
    BY <1>1, <2>1
  <2>4. v \in Seq(Prices) /\ Len(v) = n /\ \A j \in 1 .. n : v[j] = w[j]
    BY <1>1, <2>1, <2>2, <2>3
  <2>5. \A j, k \in 1 .. Len(v) : v[j] = v[k] => j = k
    BY <1>1, <2>3, <2>4
  <2>6. PICK R : R = {v[j] : j \in 1 .. Len(v)}
    OBVIOUS
  <2>7. Cardinality(R) = n
    BY <2>4, <2>5, <2>6, LenOfDistinct
  <2>8. {q \in P : Better(s, q, w[i])} = R
    <3>1. ASSUME NEW q \in P, Better(s, q, w[i]) PROVE q \in R
      <4>1. PICK j \in 1 .. Len(w) : q = w[j]
        BY <1>2
      <4>2. j < i
        BY <1>1, <3>1, <4>1
      <4>3. j \in 1 .. n
        BY <1>1, <2>1, <4>2
      <4>4. QED
        BY <2>4, <2>6, <4>1, <4>3
    <3>2. ASSUME NEW q \in R PROVE q \in P /\ Better(s, q, w[i])
      <4>1. PICK j \in 1 .. n : q = w[j]
        BY <2>4, <2>6
      <4>2. QED
        BY <1>1, <1>2, <2>3, <4>1
    <3>3. QED
      BY <3>1, <3>2
  <2>9. QED
    BY <1>2, <2>1, <2>7, <2>8
<1>6. QED
    BY <1>3, <1>4, <1>5

(* The first price is the best one.                                        *)
LEMMA RankedBest ==
    ASSUME NEW s \in Side, NEW w, NEW P, Ranked(s, w, P), Len(w) # 0
    PROVE  (CHOOSE p \in P : \A q \in P : ~ Better(s, q, p)) = w[1]
<1>1. /\ Len(w) \in Nat
      /\ \A i, j \in 1 .. Len(w) : Better(s, w[i], w[j]) <=> i < j
    BY RankedDistinct
<1>2. P = {w[i] : i \in 1 .. Len(w)}
    BY DEF Ranked
<1>3. 1 \in 1 .. Len(w)
    BY <1>1
<1>4. w[1] \in P /\ \A q \in P : ~ Better(s, q, w[1])
    BY <1>1, <1>2, <1>3
<1>5. PICK p : p = CHOOSE x \in P : \A q \in P : ~ Better(s, q, x)
    OBVIOUS
<1>6. p \in P /\ \A q \in P : ~ Better(s, q, p)
    BY <1>4, <1>5
<1>7. PICK i \in 1 .. Len(w) : p = w[i]
    BY <1>2, <1>6
<1>8. i = 1
  <2>1. ~ (1 < i)
    BY <1>1, <1>3, <1>4, <1>6, <1>7
  <2>2. QED
    BY <1>1, <2>1
<1>9. QED
    BY <1>5, <1>7, <1>8

(* The price that i - 1 others are better than.                            *)
RowAt(P, s, i) == CHOOSE p \in P : Cardinality({q \in P : Better(s, q, p)}) = i - 1

(* It is the i-th one.                                                     *)
LEMMA RankedRow ==
    ASSUME NEW s \in Side, NEW w, NEW P, Ranked(s, w, P), NEW i \in 1 .. Len(w)
    PROVE  RowAt(P, s, i) = w[i]
<1>1. Len(w) \in Nat
    BY RankedDistinct
<1>2. \A j \in 1 .. Len(w) :
         w[j] \in P /\ Cardinality({q \in P : Better(s, q, w[j])}) = j - 1
    BY RankOf
<1>3. P = {w[j] : j \in 1 .. Len(w)}
    BY DEF Ranked
<1>4. PICK p : p = RowAt(P, s, i)
    OBVIOUS
<1>5. p \in P /\ Cardinality({q \in P : Better(s, q, p)}) = i - 1
    BY <1>2, <1>4 DEF RowAt
<1>6. PICK j \in 1 .. Len(w) : p = w[j]
    BY <1>3, <1>5
<1>7. j - 1 = i - 1
    BY <1>2, <1>5, <1>6
<1>8. j = i
    BY <1>1, <1>7
<1>9. QED
    BY <1>4, <1>6, <1>8

(* Every cell of 1 .. n is in the sequence of all of them, once.           *)
LEMMA AllOfThem ==
    ASSUME NEW n \in Nat, NEW q, q = [i \in 1 .. n |-> i]
    PROVE  /\ Len(q) = n
           /\ \A i, j \in 1 .. Len(q) : q[i] = q[j] => i = j
           /\ \A c \in 1 .. n : \E i \in 1 .. Len(q) : q[i] = c
<1>1. Len(q) = n
  <2>1. q \in Seq(1 .. n)
    OBVIOUS
  <2>2. QED
    OBVIOUS
<1>2. \A i \in 1 .. n : q[i] = i
    OBVIOUS
<1>3. QED
    BY <1>1, <1>2

-----------------------------------------------------------------------------
(* Sums over sets, one element after the other, in whatever order CHOOSE   *)
(* takes them.                                                             *)
Adds(g, f, S) ==
    /\ DOMAIN g = SUBSET S /\ g[{}] = 0
    /\ \A s \in SUBSET S : s # {} => LET x == CHOOSE x \in s : TRUE
                                     IN  g[s] = f[x] + g[s \ {x}]

Summed(f, S, total) == \E g \in [SUBSET S -> Int] : Adds(g, f, S) /\ g[S] = total

LEMMA AddsAlike ==
    ASSUME NEW S, IsFiniteSet(S), NEW f, NEW g, NEW h, Adds(g, f, S), Adds(h, f, S)
    PROVE  g[S] = h[S]
<1> DEFINE N == Cardinality(S)
           Alike(n) == \A s \in SUBSET S : Cardinality(s) = n => g[s] = h[s]
           T == {n \in 0 .. N : Alike(n)}
<1>1. N \in Nat
    BY FS_CardinalityType
<1>2. Alike(0)
  <2> SUFFICES ASSUME NEW s \in SUBSET S, Cardinality(s) = 0 PROVE g[s] = h[s]
    OBVIOUS
  <2>1. s = {}
    BY FS_Subset, FS_EmptySet
  <2>2. QED
    BY <2>1 DEF Adds
<1>3. ASSUME NEW n \in 1 .. N, Alike(n - 1) PROVE Alike(n)
  <2> SUFFICES ASSUME NEW s \in SUBSET S, Cardinality(s) = n PROVE g[s] = h[s]
    OBVIOUS
  <2>1. IsFiniteSet(s) /\ s # {}
    BY FS_Subset, FS_EmptySet
  <2>2. PICK x \in s : x = CHOOSE y \in s : TRUE
    BY <2>1
  <2>3. g[s] = f[x] + g[s \ {x}] /\ h[s] = f[x] + h[s \ {x}]
    BY <2>1, <2>2 DEF Adds
  <2>4. Cardinality(s \ {x}) = n - 1 /\ s \ {x} \in SUBSET S
    BY <2>1, FS_RemoveElement
  <2>5. g[s \ {x}] = h[s \ {x}]
    BY <1>3, <2>4
  <2>6. QED
    BY <2>3, <2>5
<1> HIDE DEF Alike
<1>4. 0 \in T /\ \A n \in 1 .. N : n - 1 \in T => n \in T
    BY <1>1, <1>2, <1>3
<1> HIDE DEF T
<1>5. N \in T
    BY <1>1, <1>4, InductionTo
<1>6. Alike(N)
    BY <1>5 DEF T
<1>7. QED
    BY <1>6 DEF Alike

LEMMA SummedOfNothing ==
    ASSUME NEW S
    PROVE  Summed([x \in S |-> 0], S, 0)
<1> DEFINE f == [x \in S |-> 0]
           g == [s \in SUBSET S |-> 0]
<1>1. g \in [SUBSET S -> Int] /\ DOMAIN g = SUBSET S /\ \A s \in SUBSET S : g[s] = 0
    OBVIOUS
<1>2. \A x \in S : f[x] = 0
    OBVIOUS
<1> HIDE DEF f, g
<1>3. ASSUME NEW s \in SUBSET S, s # {}, NEW x, x = CHOOSE y \in s : TRUE
      PROVE  g[s] = f[x] + g[s \ {x}]
  <2>1. x \in s /\ s \ {x} \in SUBSET S
    BY <1>3
  <2>2. QED
    BY <1>1, <1>2, <2>1
<1>4. Adds(g, f, S)
    BY <1>1, <1>3 DEF Adds
<1>5. QED
    BY <1>1, <1>4 DEF Summed, f

(* One number is changed, and the sum by as much.                          *)
LEMMA SummedChanged ==
    ASSUME NEW S, NEW f \in [S -> Int], NEW total, Summed(f, S, total),
           NEW x \in S, NEW v \in Int
    PROVE  Summed([f EXCEPT ![x] = v], S, total + (v - f[x]))
<1>1. PICK g \in [SUBSET S -> Int] : Adds(g, f, S) /\ g[S] = total
    BY DEF Summed
<1>2. PICK d \in Int : d = v - f[x]
    OBVIOUS
<1> DEFINE e == [f EXCEPT ![x] = v]
           more(s) == IF x \in s THEN d ELSE 0
           h == [s \in SUBSET S |-> g[s] + more(s)]
<1>3. h \in [SUBSET S -> Int]
  <2>1. \A s \in SUBSET S : g[s] + more(s) \in Int
    BY <1>2
  <2>2. QED
    BY <2>1
<1>4. DOMAIN h = SUBSET S /\ \A s \in SUBSET S : h[s] = g[s] + more(s)
    OBVIOUS
<1>5. e \in [S -> Int] /\ e[x] = v /\ \A y \in S : y # x => e[y] = f[y]
    OBVIOUS
<1> HIDE DEF e, h
<1>6. ASSUME NEW s \in SUBSET S, s # {}, NEW y, y = CHOOSE z \in s : TRUE
      PROVE  h[s] = e[y] + h[s \ {y}]
  <2>1. y \in s /\ s \ {y} \in SUBSET S
    BY <1>6
  <2>2. g[s] = f[y] + g[s \ {y}]
    BY <1>1, <1>6 DEF Adds
  <2>3. h[s] = g[s] + more(s) /\ h[s \ {y}] = g[s \ {y}] + more(s \ {y})
    BY <1>4, <2>1
  <2>4. f[y] \in Int /\ g[s \ {y}] \in Int /\ g[s] \in Int
    BY <2>1
  <2>5. CASE y = x
    <3>1. more(s) = d /\ more(s \ {y}) = 0 /\ e[y] = v /\ d = v - f[y]
      BY <1>2, <1>5, <2>1, <2>5
    <3> HIDE DEF more
    <3>2. QED
      BY <2>2, <2>3, <2>4, <3>1
  <2>6. CASE y # x
    <3>1. more(s) = more(s \ {y}) /\ e[y] = f[y] /\ more(s) \in Int
      BY <1>2, <1>5, <2>1, <2>6
    <3> HIDE DEF more
    <3>2. QED
      BY <2>2, <2>3, <2>4, <3>1
  <2>7. QED
    BY <2>5, <2>6
<1>7. h[{}] = 0
    BY <1>1, <1>4 DEF Adds
<1>8. Adds(h, e, S)
    BY <1>4, <1>6, <1>7 DEF Adds
<1>9. h[S] = total + (v - f[x])
    BY <1>1, <1>2, <1>4
<1>10. QED
    BY <1>3, <1>8, <1>9 DEF Summed, e

(* The quantities of the orders of a level, as Total adds them up.         *)
QtysAt(b, k) == [i \in 1 .. Len(b.queue[k]) |-> b.orders[b.queue[k][i]].qty]

LEMMA QtysAtTyped ==
    ASSUME NEW b \in Book, QueuesHold(b, Resting(b)), NEW k \in LevelKeys
    PROVE  /\ b.queue[k] \in Seq(Ids) /\ Len(b.queue[k]) \in Nat
           /\ QtysAt(b, k) \in Seq(Int) /\ Len(QtysAt(b, k)) = Len(b.queue[k])
           /\ \A i \in 1 .. Len(b.queue[k]) :
                 b.queue[k][i] \in Resting(b) /\ QtysAt(b, k)[i] = b.orders[b.queue[k][i]].qty
           /\ LevelQty(b, k) = Total(QtysAt(b, k)) /\ LevelQty(b, k) \in Int
<1>1. b.queue[k] \in Seq(Ids) /\ Len(b.queue[k]) \in Nat
    BY LenProperties DEF Book
<1>2. PICK n \in Nat : n = Len(b.queue[k])
    BY <1>1
<1>3. \A i \in 1 .. n : b.queue[k][i] \in Resting(b)
    BY <1>2 DEF QueuesHold
<1>4. \A i \in 1 .. n : b.orders[b.queue[k][i]].qty \in Int
    BY <1>3, RestingTyped DEF Order
<1>5. QtysAt(b, k) = [i \in 1 .. n |-> b.orders[b.queue[k][i]].qty]
    BY <1>2 DEF QtysAt
<1>6. QtysAt(b, k) \in Seq(Int) /\ Len(QtysAt(b, k)) = n
    BY <1>4, <1>5
<1>7. LevelQty(b, k) = Total(QtysAt(b, k))
    BY DEF LevelQty, QtysAt
<1>8. Total(QtysAt(b, k)) \in Int
  <2>1. PICK f : RunningTotal(f, QtysAt(b, k)) /\ f[Len(QtysAt(b, k))] = Total(QtysAt(b, k))
    BY <1>6, TotalRuns
  <2>2. f \in [0 .. n -> Int]
    BY <1>6, <2>1 DEF RunningTotal
  <2>3. QED
    BY <1>6, <2>1, <2>2
<1>9. QED
    BY <1>1, <1>2, <1>3, <1>5, <1>6, <1>7, <1>8
=============================================================================
