-------------------------- MODULE OrderBookProofs --------------------------
(***************************************************************************)
(* Proofs about OrderBook for every set of order ids and every set of      *)
(* requests.  Two invariants are inductive:                                *)
(*                                                                         *)
(*   IInv        the shape of the book, and what takers and trades are;    *)
(*               InitIInv and StepIInv, one lemma for each action;         *)
(*   FillInv     on top of it: volumes, statuses, fills and what a         *)
(*               fill-or-kill order finds; InitFills and StepFills.        *)
(*                                                                         *)
(* They imply the safety theorems that follow each of them.  The lemmas of *)
(* the first part are about sequences, what a book update does to the      *)
(* positions of the queued orders, and the actions; those of the second    *)
(* about queues as sets, sums over them, and the effect of each action on  *)
(* the orders.  The third part follows who is before whom from step to     *)
(* step, which gives price-time priority.  The last two show that each     *)
(* step of the shard is a step of OrderLife, and a step of PriceTimeBook:  *)
(* for the latter, the queues of a side read one after the other are a     *)
(* list arranged by that same relation, and two lists of the same orders   *)
(* so arranged are equal.                                                  *)
(***************************************************************************)
EXTENDS OrderBookRefinement, SumTheorems, SequenceTheorems, TLAPS

(***************************************************************************)
(* Sequences.                                                              *)
(***************************************************************************)
\* RemoveAt closes the gap it makes.
LEMMA RemoveAtFacts ==
    ASSUME NEW S, NEW s \in Seq(S), NEW i \in 1 .. Len(s)
    PROVE  /\ RemoveAt(s, i) \in Seq(S)
           /\ Len(RemoveAt(s, i)) = Len(s) - 1
           /\ \A j \in 1 .. Len(s) - 1 :
                 RemoveAt(s, i)[j] = IF j < i THEN s[j] ELSE s[j+1]
<1> DEFINE a == SubSeq(s, 1, i-1)
           b == SubSeq(s, i+1, Len(s))
<1>0. /\ Len(s) \in Nat
      /\ \A j \in 1 .. Len(s) : s[j] \in S
  BY LenProperties, ElementOfSeq
<1>1. /\ a \in Seq(S) /\ Len(a) = i - 1
      /\ \A j \in 1 .. i-1 : a[j] = s[j]
  BY <1>0, SubSeqProperties
<1>2. /\ b \in Seq(S) /\ Len(b) = Len(s) - i
      /\ \A j \in 1 .. Len(s) - i : b[j] = s[i+j]
  BY <1>0, SubSeqProperties
<1>3. /\ a \o b \in Seq(S)
      /\ Len(a \o b) = Len(a) + Len(b)
      /\ \A j \in 1 .. Len(a) + Len(b) :
            (a \o b)[j] = IF j <= Len(a) THEN a[j] ELSE b[j - Len(a)]
  BY <1>1, <1>2, ConcatProperties
<1> HIDE DEF a, b
<1>4. ASSUME NEW j \in 1 .. Len(s) - 1
      PROVE  (a \o b)[j] = IF j < i THEN s[j] ELSE s[j+1]
  <2>1. CASE j < i
    BY <2>1, <1>0, <1>1, <1>2, <1>3
  <2>2. CASE ~(j < i)
    <3>1. j - (i - 1) \in 1 .. Len(s) - i
      BY <2>2, <1>0
    <3>2. b[j - (i - 1)] = s[i + (j - (i - 1))]
      BY <3>1, <1>2
    <3>3. i + (j - (i - 1)) = j + 1
      BY <1>0
    <3> QED
      BY <3>1, <3>2, <3>3, <2>2, <1>0, <1>1, <1>2, <1>3
  <2> QED
    BY <1>0, <2>1, <2>2
<1>5. RemoveAt(s, i) = a \o b
  BY DEF RemoveAt, a, b
<1> QED
  BY <1>0, <1>1, <1>2, <1>3, <1>4, <1>5

\* InsertAt makes room for the new element.
LEMMA InsertAtFacts ==
    ASSUME NEW S, NEW s \in Seq(S), NEW i \in 1 .. Len(s) + 1, NEW e \in S
    PROVE  /\ InsertAt(s, i, e) \in Seq(S)
           /\ Len(InsertAt(s, i, e)) = Len(s) + 1
           /\ \A j \in 1 .. Len(s) + 1 :
                 InsertAt(s, i, e)[j] =
                     IF j < i THEN s[j] ELSE IF j = i THEN e ELSE s[j-1]
<1> DEFINE a == SubSeq(s, 1, i-1)
           b == SubSeq(s, i, Len(s))
           c == <<e>>
<1>0. /\ Len(s) \in Nat
      /\ \A j \in 1 .. Len(s) : s[j] \in S
  BY LenProperties, ElementOfSeq
<1>1. /\ a \in Seq(S) /\ Len(a) = i - 1
      /\ \A j \in 1 .. i-1 : a[j] = s[j]
  BY <1>0, SubSeqProperties
<1>2. /\ b \in Seq(S) /\ Len(b) = Len(s) - i + 1
      /\ \A j \in 1 .. Len(s) - i + 1 : b[j] = s[i+j-1]
  BY <1>0, SubSeqProperties
<1>3. c \in Seq(S) /\ Len(c) = 1 /\ c[1] = e
  OBVIOUS
<1>4. /\ a \o c \in Seq(S)
      /\ Len(a \o c) = i
      /\ \A j \in 1 .. i : (a \o c)[j] = IF j < i THEN s[j] ELSE e
  <2>1. /\ a \o c \in Seq(S)
        /\ Len(a \o c) = Len(a) + Len(c)
        /\ \A j \in 1 .. Len(a) + Len(c) :
              (a \o c)[j] = IF j <= Len(a) THEN a[j] ELSE c[j - Len(a)]
    BY <1>1, <1>3, ConcatProperties
  <2> HIDE DEF a, c
  <2> QED
    BY <2>1, <1>0, <1>1, <1>3
<1>5. /\ (a \o c) \o b \in Seq(S)
      /\ Len((a \o c) \o b) = Len(a \o c) + Len(b)
      /\ \A j \in 1 .. Len(a \o c) + Len(b) :
            ((a \o c) \o b)[j] =
                IF j <= Len(a \o c) THEN (a \o c)[j] ELSE b[j - Len(a \o c)]
  <2> DEFINE ac == a \o c
  <2>1. ac \in Seq(S) /\ b \in Seq(S)
    BY <1>2, <1>4
  <2> HIDE DEF ac, b
  <2> QED
    <3>1. /\ ac \o b \in Seq(S)
          /\ Len(ac \o b) = Len(ac) + Len(b)
          /\ \A j \in 1 .. Len(ac) + Len(b) :
                (ac \o b)[j] = IF j <= Len(ac) THEN ac[j] ELSE b[j - Len(ac)]
      BY <2>1, ConcatProperties
    <3> QED
      BY <3>1 DEF ac
<1>6. InsertAt(s, i, e) = (a \o c) \o b
  BY DEF InsertAt, a, b, c
<1> HIDE DEF a, b, c
<1>7. ASSUME NEW j \in 1 .. Len(s) + 1
      PROVE  ((a \o c) \o b)[j] =
                 IF j < i THEN s[j] ELSE IF j = i THEN e ELSE s[j-1]
  BY <1>0, <1>2, <1>4, <1>5
<1> QED
  BY <1>0, <1>2, <1>4, <1>5, <1>6, <1>7

\* The lengths of the sequences of this module.
LEMMA Lengths ==
    /\ \A s \in Seq(OrderIds) : Len(s) \in Nat /\ (s # <<>> <=> Len(s) > 0)
    /\ \A s \in Seq(PriceLevel) : Len(s) \in Nat /\ (s # <<>> <=> Len(s) > 0)
<1>1. ASSUME NEW S, NEW s \in Seq(S)
      PROVE  Len(s) \in Nat /\ (s # <<>> <=> Len(s) > 0)
  BY EmptySeq, LenProperties
<1> QED
  BY <1>1

\* A level, and a level after its volume or its queue has changed.
LEMMA LevelTypes ==
    ASSUME NEW l \in PriceLevel
    PROVE  l.queue \in Seq(OrderIds) /\ l.price \in Nat /\ l.volume \in Int
  BY DEF PriceLevel

\* A new volume leaves the rest of a level alone.
LEMMA NewVolume ==
    ASSUME NEW l \in PriceLevel, NEW v \in Int
    PROVE  LET m == [l EXCEPT !.volume = v]
           IN  m \in PriceLevel /\ m.price = l.price /\ m.queue = l.queue
  BY DEF PriceLevel

\* A new queue leaves the rest of a level alone.
LEMMA NewQueue ==
    ASSUME NEW l \in PriceLevel, NEW s \in Seq(OrderIds)
    PROVE  LET m == [l EXCEPT !.queue = s]
           IN  m \in PriceLevel /\ m.price = l.price /\ m.queue = s
  BY DEF PriceLevel

(***************************************************************************)
(* Positions.  new thins out old when each of its levels is a level of old *)
(* and each of its queues a selection from that level's queue: f and g say *)
(* where the levels and the orders come from.                              *)
(***************************************************************************)
Thins(new, old, f, g) ==
    /\ \A i \in 1 .. Len(new) :
          /\ f[i] \in 1 .. Len(old)
          /\ new[i].price = old[f[i]].price
          /\ new[i].queue # <<>>
          /\ \A k \in 1 .. Len(new[i].queue) :
                /\ g[i][k] \in 1 .. Len(old[f[i]].queue)
                /\ new[i].queue[k] = old[f[i]].queue[g[i][k]]
          /\ \A k, l \in 1 .. Len(new[i].queue) : g[i][k] = g[i][l] => k = l
    /\ \A i, j \in 1 .. Len(new) : i < j => f[i] < f[j]

\* The queued order id is still worth its place after the step.
StaysOpen(id) ==
    /\ order'[id].side = order[id].side
    /\ order'[id].price = order[id].price
    /\ order'[id].status = "open"
    /\ order'[id].filled < order'[id].qty

AllStayOpen ==
    \A s \in Sides : \A i \in 1 .. Len(book'[s]) :
        \A k \in 1 .. Len(book'[s][i].queue) : StaysOpen(book'[s][i].queue[k])

\* An order that is At two places is at one.
LEMMA OneSeat ==
    ASSUME BookWellFormed, NEW s1 \in Sides, NEW s2 \in Sides,
           NEW i1, NEW i2, NEW k1, NEW k2, NEW id,
           At(s1, i1, k1, id), At(s2, i2, k2, id)
    PROVE  s1 = s2 /\ i1 = i2 /\ k1 = k2
<1>1. /\ i1 \in 1 .. Len(book[s1]) /\ k1 \in 1 .. Len(book[s1][i1].queue)
      /\ i2 \in 1 .. Len(book[s2]) /\ k2 \in 1 .. Len(book[s2][i2].queue)
      /\ book[s1][i1].queue[k1] = book[s2][i2].queue[k2]
  BY DEF At
<1>2. \A i \in 1 .. Len(book[s1]), j \in 1 .. Len(book[s2]) :
      \A k \in 1 .. Len(book[s1][i].queue), l \in 1 .. Len(book[s2][j].queue) :
          book[s1][i].queue[k] = book[s2][j].queue[l]
              => s1 = s2 /\ i = j /\ k = l
  BY DEF BookWellFormed, QueuedOnce
<1>3. \A k \in 1 .. Len(book[s1][i1].queue), l \in 1 .. Len(book[s2][i2].queue) :
          book[s1][i1].queue[k] = book[s2][i2].queue[l]
              => s1 = s2 /\ i1 = i2 /\ k = l
  BY <1>1, <1>2
<1> QED
  BY <1>1, <1>3

\* What QueuesSound says of one order.
LEMMA SoundSeat ==
    ASSUME BookWellFormed, NEW s \in Sides, NEW i, NEW k, NEW id, At(s, i, k, id)
    PROVE  /\ order[id].side = s
           /\ order[id].price = book[s][i].price
           /\ order[id].status = "open"
           /\ order[id].filled < order[id].qty
<1>1. /\ i \in 1 .. Len(book[s]) /\ k \in 1 .. Len(book[s][i].queue)
      /\ book[s][i].queue[k] = id
  BY DEF At
<1>2. LET o == order[book[s][i].queue[k]]
      IN  /\ o.side = s /\ o.price = book[s][i].price
          /\ o.status = "open"
          /\ o.filled < o.qty
  BY <1>1 DEF BookWellFormed, QueuesSound
<1> QED
  BY <1>1, <1>2

\* Taking orders and levels out of one side of the book keeps its shape.
LEMMA ThinnedBook ==
    ASSUME book \in [Sides -> Seq(PriceLevel)], BookWellFormed, Uncrossed,
           NEW side \in Sides, NEW new \in Seq(PriceLevel), NEW f, NEW g,
           Thins(new, book[side], f, g),
           book' = [book EXCEPT ![side] = new],
           AllStayOpen
    PROVE  BookWellFormed' /\ Uncrossed'
<1> DEFINE Lv(s, i) == IF s = side THEN f[i] ELSE i
           Ps(s, i, k) == IF s = side THEN g[i][k] ELSE k
<1>1. \A s \in Sides : book'[s] = IF s = side THEN new ELSE book[s]
  OBVIOUS
<1>2. \A s \in Sides : Len(book[s]) \in Nat /\ Len(book'[s]) \in Nat
  BY <1>1, LenProperties
<1>3. ASSUME NEW s \in Sides, NEW i \in 1 .. Len(book'[s])
      PROVE  /\ Lv(s, i) \in 1 .. Len(book[s])
             /\ book'[s][i].price = book[s][Lv(s, i)].price
             /\ book'[s][i].queue # <<>>
             /\ \A k \in 1 .. Len(book'[s][i].queue) :
                   /\ Ps(s, i, k) \in 1 .. Len(book[s][Lv(s, i)].queue)
                   /\ book'[s][i].queue[k] = book[s][Lv(s, i)].queue[Ps(s, i, k)]
             /\ \A k, l \in 1 .. Len(book'[s][i].queue) :
                   Ps(s, i, k) = Ps(s, i, l) => k = l
  <2>1. CASE s = side
    <3>1. book'[s] = new
      BY <1>1, <2>1
    <3>2. i \in 1 .. Len(new)
      BY <3>1
    <3>3. /\ f[i] \in 1 .. Len(book[side])
          /\ new[i].price = book[side][f[i]].price
          /\ new[i].queue # <<>>
          /\ \A k \in 1 .. Len(new[i].queue) :
                /\ g[i][k] \in 1 .. Len(book[side][f[i]].queue)
                /\ new[i].queue[k] = book[side][f[i]].queue[g[i][k]]
          /\ \A k, l \in 1 .. Len(new[i].queue) : g[i][k] = g[i][l] => k = l
      BY <3>2 DEF Thins
    <3>4. Lv(s, i) = f[i] /\ \A k : Ps(s, i, k) = g[i][k]
      BY <2>1
    <3> HIDE DEF Lv, Ps
    <3>5. /\ Lv(s, i) \in 1 .. Len(book[s])
          /\ book'[s][i].price = book[s][Lv(s, i)].price
          /\ book'[s][i].queue # <<>>
      BY <2>1, <3>1, <3>3, <3>4
    <3>6. ASSUME NEW k \in 1 .. Len(book'[s][i].queue)
          PROVE  /\ Ps(s, i, k) \in 1 .. Len(book[s][Lv(s, i)].queue)
                 /\ book'[s][i].queue[k] = book[s][Lv(s, i)].queue[Ps(s, i, k)]
      <4>1. k \in 1 .. Len(new[i].queue)
        BY <3>1
      <4>2. /\ g[i][k] \in 1 .. Len(book[side][f[i]].queue)
            /\ new[i].queue[k] = book[side][f[i]].queue[g[i][k]]
        BY <3>3, <4>1
      <4>3. Lv(s, i) = f[i] /\ Ps(s, i, k) = g[i][k]
        BY <3>4
      <4> QED
        BY <2>1, <3>1, <4>2, <4>3
    <3>7. ASSUME NEW k \in 1 .. Len(book'[s][i].queue),
                 NEW l \in 1 .. Len(book'[s][i].queue), Ps(s, i, k) = Ps(s, i, l)
          PROVE  k = l
      <4>1. k \in 1 .. Len(new[i].queue) /\ l \in 1 .. Len(new[i].queue)
        BY <3>1
      <4>2. g[i][k] = g[i][l]
        BY <3>4, <3>7
      <4> QED
        BY <3>3, <4>1, <4>2
    <3> QED
      BY <3>5, <3>6, <3>7
  <2>2. CASE s # side
    BY <1>1, <2>2 DEF BookWellFormed, QueuesSound
  <2> QED
    BY <2>1, <2>2
<1>4. ASSUME NEW s \in Sides,
             NEW i \in 1 .. Len(book'[s]), NEW j \in 1 .. Len(book'[s])
      PROVE  /\ i < j => Lv(s, i) < Lv(s, j)
             /\ Lv(s, i) = Lv(s, j) => i = j
  <2>1. i < j => Lv(s, i) < Lv(s, j)
    BY <1>1 DEF Thins
  <2>2. j < i => Lv(s, j) < Lv(s, i)
    BY <1>1 DEF Thins
  <2> QED
    BY <1>2, <1>3, <2>1, <2>2
<1> HIDE DEF Lv, Ps
<1>5. LevelsSorted'
  <2> SUFFICES ASSUME NEW s \in Sides, NEW i \in 1 .. Len(book'[s]),
                      NEW j \in 1 .. Len(book'[s]), i < j
               PROVE  Better(s, book'[s][i].price, book'[s][j].price)
    BY DEF LevelsSorted
  <2>1. Better(s, book[s][Lv(s, i)].price, book[s][Lv(s, j)].price)
    BY <1>3, <1>4 DEF BookWellFormed, LevelsSorted
  <2> QED
    BY <1>3, <2>1
<1>6. QueuesSound'
  <2> SUFFICES ASSUME NEW s \in Sides, NEW i \in 1 .. Len(book'[s])
               PROVE  /\ book'[s][i].queue # <<>>
                      /\ \A k \in 1 .. Len(book'[s][i].queue) :
                            LET o == order'[book'[s][i].queue[k]]
                            IN  /\ o.side = s /\ o.price = book'[s][i].price
                                /\ o.status = "open"
                                /\ o.filled < o.qty
    BY DEF QueuesSound
  <2>1. ASSUME NEW k \in 1 .. Len(book'[s][i].queue)
        PROVE  LET o == order'[book'[s][i].queue[k]]
               IN  /\ o.side = s /\ o.price = book'[s][i].price
                   /\ o.status = "open"
                   /\ o.filled < o.qty
    <3>1. At(s, Lv(s, i), Ps(s, i, k), book'[s][i].queue[k])
      <4>1. /\ Lv(s, i) \in 1 .. Len(book[s])
            /\ Ps(s, i, k) \in 1 .. Len(book[s][Lv(s, i)].queue)
            /\ book'[s][i].queue[k] = book[s][Lv(s, i)].queue[Ps(s, i, k)]
        BY <1>3
      <4> HIDE DEF Lv, Ps
      <4> QED
        BY <4>1 DEF At
    <3>2. /\ order[book'[s][i].queue[k]].side = s
          /\ order[book'[s][i].queue[k]].price = book[s][Lv(s, i)].price
      BY <3>1, SoundSeat
    <3>3. StaysOpen(book'[s][i].queue[k])
      BY DEF AllStayOpen
    <3>4. book'[s][i].price = book[s][Lv(s, i)].price
      BY <1>3
    <3> QED
      BY <3>2, <3>3, <3>4 DEF StaysOpen
  <2>2. book'[s][i].queue # <<>>
    BY <1>3
  <2> QED
    BY <2>1, <2>2
<1>7. QueuedOnce'
  <2> SUFFICES ASSUME NEW s1 \in Sides, NEW s2 \in Sides,
                      NEW i1 \in 1 .. Len(book'[s1]), NEW i2 \in 1 .. Len(book'[s2]),
                      NEW k1 \in 1 .. Len(book'[s1][i1].queue),
                      NEW k2 \in 1 .. Len(book'[s2][i2].queue),
                      book'[s1][i1].queue[k1] = book'[s2][i2].queue[k2]
               PROVE  s1 = s2 /\ i1 = i2 /\ k1 = k2
    BY DEF QueuedOnce
  <2>1. /\ s1 = s2 /\ Lv(s1, i1) = Lv(s2, i2)
        /\ Ps(s1, i1, k1) = Ps(s2, i2, k2)
    <3>0. ASSUME NEW s \in Sides, NEW i \in 1 .. Len(book'[s]),
                 NEW k \in 1 .. Len(book'[s][i].queue)
          PROVE  At(s, Lv(s, i), Ps(s, i, k), book'[s][i].queue[k])
      <4>1. /\ Lv(s, i) \in 1 .. Len(book[s])
            /\ Ps(s, i, k) \in 1 .. Len(book[s][Lv(s, i)].queue)
            /\ book'[s][i].queue[k] = book[s][Lv(s, i)].queue[Ps(s, i, k)]
        BY <1>3
      <4> HIDE DEF Lv, Ps
      <4> QED
        BY <4>1 DEF At
    <3> HIDE DEF Lv, Ps
    <3>1. At(s1, Lv(s1, i1), Ps(s1, i1, k1), book'[s1][i1].queue[k1])
      BY <3>0
    <3>2. At(s2, Lv(s2, i2), Ps(s2, i2, k2), book'[s1][i1].queue[k1])
      BY <3>0
    <3> QED
      BY <3>1, <3>2, OneSeat
  <2>2. i1 = i2
    BY <1>4, <2>1
  <2> QED
    BY <1>3, <2>1, <2>2
<1>8. Uncrossed'
  <2> SUFFICES ASSUME book'["buy"] # <<>>, book'["sell"] # <<>>
               PROVE  book'["buy"][1].price < book'["sell"][1].price
    BY DEF Uncrossed, BestPrice
  <2>1. 1 \in 1 .. Len(book'["buy"]) /\ 1 \in 1 .. Len(book'["sell"])
    <3>1. book'["buy"] \in Seq(PriceLevel) /\ book'["sell"] \in Seq(PriceLevel)
      BY <1>1 DEF Sides
    <3> QED
      BY <3>1, EmptySeq
  <2> DEFINE b == Lv("buy", 1)
             a == Lv("sell", 1)
  <2>2. /\ b \in 1 .. Len(book["buy"]) /\ a \in 1 .. Len(book["sell"])
        /\ book'["buy"][1].price = book["buy"][b].price
        /\ book'["sell"][1].price = book["sell"][a].price
    BY <1>3, <2>1 DEF Sides
  <2>3. /\ book["buy"] # <<>> /\ book["sell"] # <<>>
        /\ 1 \in 1 .. Len(book["buy"]) /\ 1 \in 1 .. Len(book["sell"])
    BY <2>2, <1>2 DEF Sides
  <2>4. book["buy"][1].price < book["sell"][1].price
    BY <2>3 DEF Uncrossed, BestPrice
  <2>5. /\ \A i \in 1 .. Len(book["buy"]) : book["buy"][i].price \in Nat
        /\ \A i \in 1 .. Len(book["sell"]) : book["sell"][i].price \in Nat
    <3>1. ASSUME NEW s \in Sides, NEW i \in 1 .. Len(book[s])
          PROVE  book[s][i].price \in Nat
      <4>1. book[s][i] \in PriceLevel
        BY ElementOfSeq
      <4> QED
        BY <4>1 DEF PriceLevel
    <3> QED
      BY <3>1 DEF Sides
  <2>6. book["buy"][b].price <= book["buy"][1].price
    BY <2>2, <2>3, <2>5 DEF BookWellFormed, LevelsSorted, Better, Sides
  <2>7. book["sell"][1].price <= book["sell"][a].price
    BY <2>2, <2>3, <2>5 DEF BookWellFormed, LevelsSorted, Better, Sides
  <2> HIDE DEF a, b
  <2> QED
    BY <2>2, <2>3, <2>4, <2>5, <2>6, <2>7
<1> QED
  BY <1>5, <1>6, <1>7, <1>8 DEF BookWellFormed

\* No level of the list is empty.
NoneEmpty(levels) == \A i \in 1 .. Len(levels) : levels[i].queue # <<>>

\* Nothing in new comes from the k-th order of the i-th level.
Skips(new, f, g, i, k) ==
    \A j \in 1 .. Len(new) : \A l \in 1 .. Len(new[j].queue) :
        ~(f[j] = i /\ g[j][l] = k)

ThinsOut(new, old) == \E f, g : Thins(new, old, f, g)

ThinsSkipping(new, old, i, k) ==
    \E f, g : Thins(new, old, f, g) /\ Skips(new, f, g, i, k)

\* The queue new is a selection from the queue old, h[k] being the old place.
Selects(new, old, h) ==
    /\ \A k \in 1 .. Len(new) : h[k] \in 1 .. Len(old) /\ new[k] = old[h[k]]
    /\ \A k, l \in 1 .. Len(new) : h[k] = h[l] => k = l

\* Giving one level a selection of its queue thins out the list.
LEMMA ReplaceLevel ==
    ASSUME NEW levels \in Seq(PriceLevel), NoneEmpty(levels),
           NEW i0 \in 1 .. Len(levels), NEW lev \in PriceLevel, NEW h, NEW k0,
           lev.price = levels[i0].price, lev.queue # <<>>,
           Selects(lev.queue, levels[i0].queue, h)
    PROVE  /\ [levels EXCEPT ![i0] = lev] \in Seq(PriceLevel)
           /\ ThinsOut([levels EXCEPT ![i0] = lev], levels)
           /\ (\A k \in 1 .. Len(lev.queue) : h[k] # k0)
                 => ThinsSkipping([levels EXCEPT ![i0] = lev], levels, i0, k0)
<1> DEFINE new == [levels EXCEPT ![i0] = lev]
           f == [i \in 1 .. Len(levels) |-> i]
           g == [i \in 1 .. Len(levels) |->
                    IF i = i0 THEN h ELSE [k \in 1 .. Len(levels[i].queue) |-> k]]
<1>1. /\ new \in Seq(PriceLevel) /\ Len(new) = Len(levels)
      /\ \A j \in 1 .. Len(levels) : new[j] = IF j = i0 THEN lev ELSE levels[j]
  BY ExceptSeq
<1>2. \A j \in 1 .. Len(levels) :
          /\ f[j] = j
          /\ g[j] = IF j = i0 THEN h ELSE [k \in 1 .. Len(levels[j].queue) |-> k]
  OBVIOUS
<1> HIDE DEF new, f, g
<1>3. ASSUME NEW j \in 1 .. Len(new)
      PROVE  /\ f[j] \in 1 .. Len(levels)
             /\ new[j].price = levels[f[j]].price
             /\ new[j].queue # <<>>
             /\ \A k \in 1 .. Len(new[j].queue) :
                   /\ g[j][k] \in 1 .. Len(levels[f[j]].queue)
                   /\ new[j].queue[k] = levels[f[j]].queue[g[j][k]]
             /\ \A k, l \in 1 .. Len(new[j].queue) : g[j][k] = g[j][l] => k = l
  <2>1. j \in 1 .. Len(levels) /\ f[j] = j
    BY <1>1, <1>2
  <2>2. CASE j = i0
    <3>1. new[j] = lev /\ g[j] = h
      BY <1>1, <1>2, <2>1, <2>2
    <3> QED
      BY <2>1, <2>2, <3>1 DEF Selects
  <2>3. CASE j # i0
    <3>1. /\ new[j] = levels[j]
          /\ \A k \in 1 .. Len(levels[j].queue) : g[j][k] = k
      BY <1>1, <1>2, <2>1, <2>3
    <3> QED
      BY <2>1, <3>1 DEF NoneEmpty
  <2> QED
    BY <2>2, <2>3
<1>4. ASSUME NEW i \in 1 .. Len(new), NEW j \in 1 .. Len(new), i < j
      PROVE  f[i] < f[j]
  <2>1. f[i] = i /\ f[j] = j
    BY <1>1, <1>2
  <2> QED
    BY <1>4, <2>1
<1>5. Thins(new, levels, f, g)
  BY <1>3, <1>4 DEF Thins
<1>6. (\A k \in 1 .. Len(lev.queue) : h[k] # k0) => Skips(new, f, g, i0, k0)
  <2> SUFFICES ASSUME \A k \in 1 .. Len(lev.queue) : h[k] # k0,
                      NEW j \in 1 .. Len(new), NEW l \in 1 .. Len(new[j].queue),
                      f[j] = i0, g[j][l] = k0
               PROVE  FALSE
    BY DEF Skips
  <2>1. j = i0 /\ new[j] = lev /\ g[j] = h
    BY <1>1, <1>2
  <2> QED
    BY <2>1
<1> QED
  BY <1>1, <1>5, <1>6 DEF new, ThinsOut, ThinsSkipping

\* So does taking a level out.
LEMMA RemoveLevel ==
    ASSUME NEW levels \in Seq(PriceLevel), NoneEmpty(levels),
           NEW i0 \in 1 .. Len(levels), NEW k0, NEW new \in Seq(PriceLevel),
           Len(new) = Len(levels) - 1,
           \A j \in 1 .. Len(levels) - 1 :
              new[j] = IF j < i0 THEN levels[j] ELSE levels[j+1]
    PROVE  ThinsOut(new, levels) /\ ThinsSkipping(new, levels, i0, k0)
<1> DEFINE f == [i \in 1 .. Len(new) |-> IF i < i0 THEN i ELSE i + 1]
           g == [i \in 1 .. Len(new) |-> [k \in 1 .. Len(new[i].queue) |-> k]]
<1>1. Len(levels) \in Nat
  BY LenProperties
<1>2. \A j \in 1 .. Len(new) :
          /\ f[j] = IF j < i0 THEN j ELSE j + 1
          /\ \A k \in 1 .. Len(new[j].queue) : g[j][k] = k
  OBVIOUS
<1> HIDE DEF f, g
<1>3. ASSUME NEW j \in 1 .. Len(new)
      PROVE  f[j] \in 1 .. Len(levels) /\ f[j] # i0 /\ new[j] = levels[f[j]]
  <2>1. CASE j < i0
    BY <1>1, <1>2, <2>1
  <2>2. CASE ~(j < i0)
    BY <1>1, <1>2, <2>2
  <2> QED
    BY <2>1, <2>2
<1>4. \A i, j \in 1 .. Len(new) : i < j => f[i] < f[j]
  BY <1>1, <1>2
<1>5. ASSUME NEW j \in 1 .. Len(new)
      PROVE  /\ f[j] \in 1 .. Len(levels)
             /\ new[j].price = levels[f[j]].price
             /\ new[j].queue # <<>>
             /\ \A k \in 1 .. Len(new[j].queue) :
                   /\ g[j][k] \in 1 .. Len(levels[f[j]].queue)
                   /\ new[j].queue[k] = levels[f[j]].queue[g[j][k]]
             /\ \A k, l \in 1 .. Len(new[j].queue) : g[j][k] = g[j][l] => k = l
  <2>1. f[j] \in 1 .. Len(levels) /\ new[j] = levels[f[j]]
    BY <1>3
  <2>2. \A k \in 1 .. Len(new[j].queue) : g[j][k] = k
    BY <1>2
  <2>3. levels[f[j]].queue # <<>>
    BY <2>1 DEF NoneEmpty
  <2> QED
    BY <2>1, <2>2, <2>3
<1>6. Thins(new, levels, f, g)
  BY <1>4, <1>5 DEF Thins
<1>7. Skips(new, f, g, i0, k0)
  BY <1>3 DEF Skips
<1> QED
  BY <1>6, <1>7 DEF ThinsOut, ThinsSkipping

\* A trade thins out the side it takes from; a maker that is done is not left.
LEMMA ConsumeThins ==
    ASSUME NEW levels \in Seq(PriceLevel), levels # <<>>, NoneEmpty(levels),
           NEW q \in Int, NEW done \in BOOLEAN
    PROVE  /\ Consume(levels, q, done) \in Seq(PriceLevel)
           /\ ThinsOut(Consume(levels, q, done), levels)
           /\ done => ThinsSkipping(Consume(levels, q, done), levels, 1, 1)
<1> DEFINE best == [levels[1] EXCEPT !.volume = @ - q]
           queue == levels[1].queue
           popped == [best EXCEPT !.queue = Tail(@)]
<1>1. 1 \in 1 .. Len(levels)
  BY Lengths
<1>2. levels[1] \in PriceLevel
  BY <1>1, ElementOfSeq
<1>3. /\ queue \in Seq(OrderIds) /\ queue # <<>>
      /\ Len(queue) \in Nat /\ Len(queue) > 0
  <2>1. queue \in Seq(OrderIds)
    BY <1>2, LevelTypes
  <2>2. queue # <<>>
    BY <1>1 DEF NoneEmpty
  <2> HIDE DEF queue
  <2> QED
    BY <2>1, <2>2, Lengths
<1>4. best \in PriceLevel /\ best.price = levels[1].price /\ best.queue = queue
  <2>1. levels[1].volume - q \in Int
    BY <1>2, LevelTypes
  <2> QED
    BY <1>2, <2>1, NewVolume
<1>5. CASE ~done
  <2>1. Consume(levels, q, done) = [levels EXCEPT ![1] = best]
    BY <1>5 DEF Consume
  <2> DEFINE h == [k \in 1 .. Len(queue) |-> k]
  <2>2. Selects(queue, queue, h)
    BY DEF Selects
  <2>3. Selects(best.queue, levels[1].queue, h)
    BY <1>4, <2>2
  <2> HIDE DEF best, h
  <2>4. /\ [levels EXCEPT ![1] = best] \in Seq(PriceLevel)
        /\ ThinsOut([levels EXCEPT ![1] = best], levels)
    BY <1>1, <1>3, <1>4, <2>3, ReplaceLevel
  <2> QED
    BY <1>5, <2>1, <2>4
<1>6. CASE done /\ Len(queue) = 1
  <2>1. Consume(levels, q, done) = Tail(levels)
    BY <1>6, <1>4 DEF Consume
  <2>2. /\ Tail(levels) \in Seq(PriceLevel)
        /\ Len(Tail(levels)) = Len(levels) - 1
        /\ \A j \in 1 .. Len(levels) - 1 :
              Tail(levels)[j] = IF j < 1 THEN levels[j] ELSE levels[j+1]
    BY HeadTailProperties
  <2> QED
    BY <1>1, <2>1, <2>2, RemoveLevel
<1>7. CASE done /\ Len(queue) # 1
  <2>1. Consume(levels, q, done) = [levels EXCEPT ![1] = popped]
    BY <1>7, <1>4 DEF Consume
  <2>2. /\ Tail(queue) \in Seq(OrderIds)
        /\ Len(Tail(queue)) = Len(queue) - 1
        /\ \A k \in 1 .. Len(queue) - 1 : Tail(queue)[k] = queue[k+1]
    BY <1>3, HeadTailProperties
  <2>3. popped = [best EXCEPT !.queue = Tail(queue)]
    BY <1>4
  <2>4. /\ popped \in PriceLevel /\ popped.price = levels[1].price
        /\ popped.queue = Tail(queue)
    <3> HIDE DEF best, queue, popped
    <3> QED
      BY <1>4, <2>2, <2>3, NewQueue
  <2>5. popped.queue # <<>>
    <3> HIDE DEF best, queue, popped
    <3>1. Len(Tail(queue)) > 0
      BY <1>3, <1>7, <2>2
    <3> QED
      BY <2>2, <2>4, <3>1, Lengths
  <2> DEFINE h == [k \in 1 .. Len(queue) - 1 |-> k + 1]
  <2>6. \A k \in 1 .. Len(queue) - 1 : h[k] = k + 1
    OBVIOUS
  <2> HIDE DEF best, popped, h, queue
  <2>7. /\ Selects(Tail(queue), queue, h)
        /\ \A k \in 1 .. Len(Tail(queue)) : h[k] # 1
    BY <1>3, <2>2, <2>6 DEF Selects
  <2>8. /\ Selects(popped.queue, levels[1].queue, h)
        /\ \A k \in 1 .. Len(popped.queue) : h[k] # 1
    BY <2>4, <2>7 DEF queue
  <2>9. /\ [levels EXCEPT ![1] = popped] \in Seq(PriceLevel)
        /\ ThinsOut([levels EXCEPT ![1] = popped], levels)
        /\ ThinsSkipping([levels EXCEPT ![1] = popped], levels, 1, 1)
    BY <1>1, <2>4, <2>5, <2>8, ReplaceLevel
  <2> QED
    BY <2>1, <2>9
<1> QED
  BY <1>5, <1>6, <1>7

\* A cancellation thins out the side it finds the order on.
LEMMA DropThins ==
    ASSUME order \in [OrderIds -> Order],
           NEW levels \in Seq(PriceLevel), NoneEmpty(levels),
           NEW i \in 1 .. Len(levels), NEW k \in 1 .. Len(levels[i].queue)
    PROVE  /\ Drop(levels, i, k) \in Seq(PriceLevel)
           /\ ThinsOut(Drop(levels, i, k), levels)
           /\ ThinsSkipping(Drop(levels, i, k), levels, i, k)
<1> DEFINE queue == levels[i].queue
           vol == levels[i].volume - Remaining(order[queue[k]])
           less == [levels[i] EXCEPT !.queue = RemoveAt(queue, k), !.volume = vol]
<1>1. levels[i] \in PriceLevel
  BY ElementOfSeq
<1>2. /\ queue \in Seq(OrderIds) /\ queue # <<>>
      /\ Len(queue) \in Nat /\ Len(queue) > 0
  <2>1. queue \in Seq(OrderIds)
    BY <1>1, LevelTypes
  <2>2. queue # <<>>
    BY DEF NoneEmpty
  <2> HIDE DEF queue
  <2> QED
    BY <2>1, <2>2, Lengths
<1>3. vol \in Int
  <2>1. queue[k] \in OrderIds
    BY <1>2, ElementOfSeq
  <2>2. Remaining(order[queue[k]]) \in Int
    BY <2>1 DEF Remaining, Order
  <2>3. levels[i].volume \in Int
    BY <1>1 DEF PriceLevel
  <2> QED
    BY <2>2, <2>3
<1>4. CASE Len(queue) = 1
  <2>1. Drop(levels, i, k) = RemoveAt(levels, i)
    BY <1>4 DEF Drop
  <2>2. /\ RemoveAt(levels, i) \in Seq(PriceLevel)
        /\ Len(RemoveAt(levels, i)) = Len(levels) - 1
        /\ \A j \in 1 .. Len(levels) - 1 :
              RemoveAt(levels, i)[j] = IF j < i THEN levels[j] ELSE levels[j+1]
    BY RemoveAtFacts
  <2> QED
    BY <2>1, <2>2, RemoveLevel
<1>5. CASE Len(queue) # 1
  <2>1. Drop(levels, i, k) = [levels EXCEPT ![i] = less]
    BY <1>5 DEF Drop
  <2>2. /\ RemoveAt(queue, k) \in Seq(OrderIds)
        /\ Len(RemoveAt(queue, k)) = Len(queue) - 1
        /\ \A l \in 1 .. Len(queue) - 1 :
              RemoveAt(queue, k)[l] = IF l < k THEN queue[l] ELSE queue[l+1]
    BY <1>2, RemoveAtFacts
  <2>3. /\ less \in PriceLevel /\ less.price = levels[i].price
        /\ less.queue = RemoveAt(queue, k)
    <3> DEFINE shorter == RemoveAt(queue, k)
    <3>1. shorter \in Seq(OrderIds)
      BY <2>2
    <3> HIDE DEF queue, vol, shorter
    <3>2. LET m == [levels[i] EXCEPT !.queue = shorter, !.volume = vol]
          IN  m \in PriceLevel /\ m.price = levels[i].price /\ m.queue = shorter
      BY <1>1, <1>3, <3>1 DEF PriceLevel
    <3> QED
      BY <3>2 DEF shorter
  <2>4. less.queue # <<>>
    <3> HIDE DEF queue, vol, less
    <3>1. Len(RemoveAt(queue, k)) > 0
      BY <1>2, <1>5, <2>2
    <3> QED
      BY <2>2, <2>3, <3>1, Lengths
  <2> DEFINE h == [l \in 1 .. Len(queue) - 1 |-> IF l < k THEN l ELSE l + 1]
  <2>5. \A l \in 1 .. Len(queue) - 1 : h[l] = IF l < k THEN l ELSE l + 1
    OBVIOUS
  <2>6. k \in 1 .. Len(queue)
    OBVIOUS
  <2> HIDE DEF less, h, queue, vol
  <2>7. ASSUME NEW l \in 1 .. Len(RemoveAt(queue, k))
        PROVE  /\ h[l] \in 1 .. Len(queue)
               /\ RemoveAt(queue, k)[l] = queue[h[l]]
               /\ h[l] # k
    BY <1>2, <2>2, <2>5, <2>6
  <2>8. \A l, m \in 1 .. Len(RemoveAt(queue, k)) : h[l] = h[m] => l = m
    BY <1>2, <2>2, <2>5, <2>6
  <2>9. /\ Selects(less.queue, levels[i].queue, h)
        /\ \A l \in 1 .. Len(less.queue) : h[l] # k
    BY <2>3, <2>7, <2>8 DEF Selects, queue
  <2>10. /\ [levels EXCEPT ![i] = less] \in Seq(PriceLevel)
         /\ ThinsOut([levels EXCEPT ![i] = less], levels)
         /\ ThinsSkipping([levels EXCEPT ![i] = less], levels, i, k)
    BY <2>3, <2>4, <2>9, ReplaceLevel
  <2> QED
    BY <2>1, <2>10
<1> QED
  BY <1>4, <1>5

\* new is old with order id added as the k-th of level i: f says where the
\* levels come from, and every other order keeps its place in its queue.
Places(new, old, f, i, k, id) ==
    /\ i \in 1 .. Len(new) /\ k \in 1 .. Len(new[i].queue)
    /\ new[i].queue[k] = id
    /\ \A j \in 1 .. Len(new) : \A l \in 1 .. Len(new[j].queue) :
          \/ j = i /\ l = k
          \/ /\ f[j] \in 1 .. Len(old)
             /\ new[j].price = old[f[j]].price
             /\ l \in 1 .. Len(old[f[j]].queue)
             /\ new[j].queue[l] = old[f[j]].queue[l]
    /\ \A j \in 1 .. Len(new) : new[j].queue # <<>>
    /\ \A j, m \in 1 .. Len(new) : f[j] = f[m] => j = m

Sorted(side, levels) ==
    \A i, j \in 1 .. Len(levels) :
        i < j => Better(side, levels[i].price, levels[j].price)

\* push appends to the queue of a level.
LEMMA PushLevel ==
    ASSUME order \in [OrderIds -> Order], NEW l \in PriceLevel, NEW id \in OrderIds
    PROVE  /\ Push(l, id) \in PriceLevel
           /\ Push(l, id).price = l.price
           /\ Push(l, id).queue = Append(l.queue, id)
<1> DEFINE queue == Append(l.queue, id)
           vol == l.volume + Remaining(order[id])
<1>1. Push(l, id) = [l EXCEPT !.queue = queue, !.volume = vol]
  BY DEF Push
<1>2. l.queue \in Seq(OrderIds) /\ l.volume \in Int
  BY LevelTypes
<1>3. Remaining(order[id]) \in Int
  BY DEF Remaining, Order
<1>4. queue \in Seq(OrderIds) /\ vol \in Int
  BY <1>2, <1>3
<1> HIDE DEF queue, vol
<1>5. LET m == [l EXCEPT !.queue = queue, !.volume = vol]
      IN  m \in PriceLevel /\ m.price = l.price /\ m.queue = queue
  BY <1>4 DEF PriceLevel
<1> QED
  BY <1>1, <1>5 DEF queue

\* InsertAtFacts for lists of levels.
LEMMA InsertLevel ==
    ASSUME NEW levels \in Seq(PriceLevel), NEW i \in 1 .. Len(levels) + 1,
           NEW l \in PriceLevel
    PROVE  /\ InsertAt(levels, i, l) \in Seq(PriceLevel)
           /\ Len(InsertAt(levels, i, l)) = Len(levels) + 1
           /\ \A j \in 1 .. Len(levels) + 1 :
                 InsertAt(levels, i, l)[j] =
                     IF j < i THEN levels[j] ELSE IF j = i THEN l ELSE levels[j-1]
<1>1. \A s \in Seq(PriceLevel) : \A p \in 1 .. Len(s) + 1 : \A e \in PriceLevel :
        /\ InsertAt(s, p, e) \in Seq(PriceLevel)
        /\ Len(InsertAt(s, p, e)) = Len(s) + 1
        /\ \A j \in 1 .. Len(s) + 1 :
              InsertAt(s, p, e)[j] =
                  IF j < p THEN s[j] ELSE IF j = p THEN e ELSE s[j-1]
  BY InsertAtFacts
<1>2. \A p \in 1 .. Len(levels) + 1 : \A e \in PriceLevel :
        /\ InsertAt(levels, p, e) \in Seq(PriceLevel)
        /\ Len(InsertAt(levels, p, e)) = Len(levels) + 1
        /\ \A j \in 1 .. Len(levels) + 1 :
              InsertAt(levels, p, e)[j] =
                  IF j < p THEN levels[j] ELSE IF j = p THEN e ELSE levels[j-1]
  BY <1>1
<1> QED
  BY <1>2

\* sort.Search and the insertion keep a side sorted, and place one order.
LEMMA AddPlaces ==
    ASSUME order \in [OrderIds -> Order], NEW side \in Sides, NEW id \in OrderIds,
           NEW levels \in Seq(PriceLevel), NoneEmpty(levels), Sorted(side, levels),
           NEW i \in 1 .. Len(levels) + 1,
           IsInsertionPoint(i, levels, side, order[id].price)
    PROVE  /\ AddAt(levels, i, id) \in Seq(PriceLevel)
           /\ Sorted(side, AddAt(levels, i, id))
           /\ \E f, k : Places(AddAt(levels, i, id), levels, f, i, k, id)
           /\ i <= Len(AddAt(levels, i, id))
           /\ AddAt(levels, i, id)[i].price = order[id].price
           /\ \A j \in 1 .. i-1 : AddAt(levels, i, id)[j] = levels[j]
<1> DEFINE p == order[id].price
           fits == i <= Len(levels) /\ levels[i].price = p
<1>1. Len(levels) \in Nat /\ p \in Nat /\ Remaining(order[id]) \in Int
  BY Lengths DEF Order, Remaining
<1>2. \A j \in 1 .. Len(levels) : levels[j] \in PriceLevel /\ levels[j].price \in Nat
  BY ElementOfSeq, LevelTypes
<1>3. CASE fits
  <2>1. i \in 1 .. Len(levels)
    BY <1>1, <1>3
  <2> DEFINE queue == levels[i].queue
             more == Push(levels[i], id)
             new == [levels EXCEPT ![i] = more]
             f == [j \in 1 .. Len(levels) |-> j]
  <2>2. AddAt(levels, i, id) = new
    BY <1>3 DEF AddAt
  <2>3. levels[i] \in PriceLevel /\ queue \in Seq(OrderIds)
    BY <1>2, <2>1, LevelTypes
  <2>4. /\ Append(queue, id) \in Seq(OrderIds)
        /\ Len(Append(queue, id)) = Len(queue) + 1
        /\ Append(queue, id)[Len(queue) + 1] = id
        /\ \A l \in 1 .. Len(queue) : Append(queue, id)[l] = queue[l]
        /\ Len(queue) \in Nat
    <3> HIDE DEF queue
    <3> QED
      BY <2>3, Lengths
  <2>5. more \in PriceLevel /\ more.price = p /\ more.queue = Append(queue, id)
    BY <1>3, <2>3, PushLevel
  <2>6. \A j \in 1 .. Len(levels) : f[j] = j
    OBVIOUS
  <2> HIDE DEF more, f
  <2>7. /\ new \in Seq(PriceLevel) /\ Len(new) = Len(levels)
        /\ \A j \in 1 .. Len(levels) : new[j] = IF j = i THEN more ELSE levels[j]
    BY <2>1, <2>5, ExceptSeq
  <2> HIDE DEF new
  <2>8. \A j \in 1 .. Len(levels) : new[j].price = levels[j].price
    BY <1>3, <2>5, <2>7
  <2>9. Sorted(side, new)
    BY <2>7, <2>8 DEF Sorted
  <2>10. new[i] = more /\ i \in 1 .. Len(new)
    BY <2>1, <2>7
  <2>11. ASSUME NEW j \in 1 .. Len(new), NEW l \in 1 .. Len(new[j].queue),
                ~(j = i /\ l = Len(queue) + 1)
         PROVE  /\ f[j] \in 1 .. Len(levels)
                /\ new[j].price = levels[f[j]].price
                /\ l \in 1 .. Len(levels[f[j]].queue)
                /\ new[j].queue[l] = levels[f[j]].queue[l]
    <3>1. j \in 1 .. Len(levels) /\ f[j] = j /\ new[j].price = levels[j].price
      BY <2>6, <2>7, <2>8
    <3>2. CASE j = i
      <4>1. /\ l \in 1 .. Len(Append(queue, id)) /\ l # Len(queue) + 1
            /\ new[j].queue = Append(queue, id)
        BY <2>5, <2>10, <2>11, <3>2
      <4>2. l \in 1 .. Len(queue)
        BY <2>4, <4>1
      <4>3. Append(queue, id)[l] = queue[l]
        BY <2>4, <4>2
      <4> QED
        BY <3>1, <3>2, <4>1, <4>2, <4>3
    <3>3. CASE j # i
      BY <2>7, <3>1, <3>3
    <3> QED
      BY <3>2, <3>3
  <2>12. /\ Len(queue) + 1 \in 1 .. Len(new[i].queue)
         /\ new[i].queue[Len(queue) + 1] = id
    <3> HIDE DEF queue
    <3> QED
      BY <2>4, <2>5, <2>10
  <2>13. ASSUME NEW j \in 1 .. Len(new) PROVE new[j].queue # <<>>
    <3>1. CASE j = i
      <4>1. /\ new[j].queue = Append(queue, id)
            /\ Append(queue, id) \in Seq(OrderIds) /\ Len(Append(queue, id)) > 0
        BY <2>4, <2>5, <2>10, <3>1
      <4> QED
        BY <4>1, Lengths
    <3>2. CASE j # i
      BY <2>7, <3>2 DEF NoneEmpty
    <3> QED
      BY <3>1, <3>2
  <2>14. \A j, m \in 1 .. Len(new) : f[j] = f[m] => j = m
    BY <2>6, <2>7
  <2>15. Places(new, levels, f, i, Len(queue) + 1, id)
    BY <2>10, <2>11, <2>12, <2>13, <2>14 DEF Places
  <2>16. \A j \in 1 .. i-1 : new[j] = levels[j]
    BY <1>1, <2>1, <2>7
  <2> QED
    BY <1>1, <2>1, <2>2, <2>5, <2>7, <2>9, <2>10, <2>15, <2>16
<1>4. CASE ~fits
  <2> DEFINE lev == Push([price |-> p, queue |-> <<>>, volume |-> 0], id)
             new == InsertAt(levels, i, lev)
             f == [j \in 1 .. Len(levels) + 1 |->
                      IF j < i THEN j ELSE IF j = i THEN 0 ELSE j - 1]
  <2>1. AddAt(levels, i, id) = new
    BY <1>4 DEF AddAt
  <2>2. lev \in PriceLevel /\ lev.price = p /\ lev.queue = <<id>>
    <3> DEFINE empty == [price |-> p, queue |-> <<>>, volume |-> 0]
    <3>1. empty \in PriceLevel /\ empty.price = p /\ empty.queue = <<>>
      BY <1>1 DEF PriceLevel
    <3> HIDE DEF empty
    <3>2. /\ Push(empty, id) \in PriceLevel
          /\ Push(empty, id).price = p /\ Push(empty, id).queue = Append(<<>>, id)
      BY <3>1, PushLevel
    <3> QED
      BY <3>2 DEF empty
  <2> HIDE DEF lev
  <2>3. /\ new \in Seq(PriceLevel) /\ Len(new) = Len(levels) + 1
        /\ \A j \in 1 .. Len(levels) + 1 :
              new[j] = IF j < i THEN levels[j] ELSE IF j = i THEN lev ELSE levels[j-1]
    BY <2>2, InsertLevel
  <2>4. \A j \in 1 .. Len(levels) + 1 :
            f[j] = IF j < i THEN j ELSE IF j = i THEN 0 ELSE j - 1
    OBVIOUS
  <2> HIDE DEF new, f
  <2>5. /\ i \in 1 .. Len(new) /\ new[i] = lev
        /\ \A j \in 1 .. i-1 : new[j] = levels[j]
    BY <1>1, <2>3
  <2>6. ASSUME NEW j \in 1 .. Len(new), j # i
        PROVE  f[j] \in 1 .. Len(levels) /\ new[j] = levels[f[j]]
    <3>1. CASE j < i
      BY <1>1, <2>3, <2>4, <3>1
    <3>2. CASE j > i
      BY <1>1, <2>3, <2>4, <3>2
    <3> QED
      BY <1>1, <2>6, <3>1, <3>2
  <2>7. \A j, m \in 1 .. Len(new) : f[j] = f[m] => j = m
    BY <1>1, <2>3, <2>4
  <2>8. ASSUME NEW j \in i .. Len(levels) PROVE Better(side, p, levels[j].price)
    <3>1. /\ ~Better(side, levels[j].price, p) /\ ~Better(side, levels[i].price, p)
          /\ j \in 1 .. Len(levels) /\ i \in 1 .. Len(levels)
      BY <1>1 DEF IsInsertionPoint
    <3>2. levels[i].price # p
      BY <1>4, <3>1
    <3>3. j = i \/ Better(side, levels[i].price, levels[j].price)
      BY <1>1, <3>1 DEF Sorted
    <3> QED
      BY <1>1, <1>2, <3>1, <3>2, <3>3 DEF Better
  <2>9. \A j \in 1 .. i-1 : Better(side, levels[j].price, p)
    BY DEF IsInsertionPoint
  <2>10. ASSUME NEW j \in 1 .. Len(new), NEW m \in 1 .. Len(new), j < m
         PROVE  Better(side, new[j].price, new[m].price)
    <3>1. CASE j = i
      <4>1. new[m] = levels[m-1] /\ m-1 \in i .. Len(levels)
        BY <1>1, <2>3, <2>10, <3>1
      <4> QED
        BY <2>2, <2>5, <2>8, <3>1, <4>1
    <3>2. CASE m = i
      <4>1. new[j] = levels[j] /\ j \in 1 .. i-1
        BY <1>1, <2>3, <2>10, <3>2
      <4> QED
        BY <2>2, <2>5, <2>9, <3>2, <4>1
    <3>3. CASE j # i /\ m # i
      <4>1. f[j] < f[m]
        BY <1>1, <2>3, <2>4, <2>10, <3>3
      <4> QED
        BY <2>6, <3>3, <4>1 DEF Sorted
    <3> QED
      BY <3>1, <3>2, <3>3
  <2>11. Sorted(side, new)
    BY <2>10 DEF Sorted
  <2>12. /\ Len(<<id>>) = 1 /\ <<id>>[1] = id /\ <<id>> # <<>>
    OBVIOUS
  <2>13. ASSUME NEW j \in 1 .. Len(new), NEW l \in 1 .. Len(new[j].queue),
                ~(j = i /\ l = 1)
         PROVE  /\ f[j] \in 1 .. Len(levels)
                /\ new[j].price = levels[f[j]].price
                /\ l \in 1 .. Len(levels[f[j]].queue)
                /\ new[j].queue[l] = levels[f[j]].queue[l]
    <3>1. j # i
      <4> SUFFICES ASSUME j = i PROVE l = 1
        BY <2>13
      <4>1. new[j].queue = <<id>>
        BY <2>2, <2>5
      <4> QED
        BY <2>12, <4>1
    <3> QED
      BY <2>6, <3>1
  <2>14. \A j \in 1 .. Len(new) : new[j].queue # <<>>
    BY <2>2, <2>5, <2>6, <2>12 DEF NoneEmpty
  <2>15. Places(new, levels, f, i, 1, id)
    BY <2>2, <2>5, <2>7, <2>12, <2>13, <2>14 DEF Places
  <2> QED
    BY <1>1, <2>1, <2>2, <2>3, <2>5, <2>11, <2>15
<1> QED
  BY <1>3, <1>4

\* Placing an order that is in no queue keeps the shape of the book.
LEMMA PlacedBook ==
    ASSUME book \in [Sides -> Seq(PriceLevel)], BookWellFormed,
           NEW side \in Sides, NEW new \in Seq(PriceLevel),
           NEW f, NEW i, NEW k, NEW id,
           Places(new, book[side], f, i, k, id), Sorted(side, new),
           order[id].status # "open", order[id].side = side,
           new[i].price = order[id].price,
           book' = [book EXCEPT ![side] = new], AllStayOpen
    PROVE  BookWellFormed'
<1> DEFINE IsNew(s, j, l) == s = side /\ j = i /\ l = k
           Lv(s, j) == IF s = side THEN f[j] ELSE j
<1>1. \A s \in Sides : book'[s] = IF s = side THEN new ELSE book[s]
  OBVIOUS
<1>2. ASSUME NEW s \in Sides, NEW j \in 1 .. Len(book'[s]),
             NEW l \in 1 .. Len(book'[s][j].queue), ~IsNew(s, j, l)
      PROVE  /\ At(s, Lv(s, j), l, book'[s][j].queue[l])
             /\ book'[s][j].price = book[s][Lv(s, j)].price
  <2>1. CASE s = side
    <3>1. book'[s] = new /\ Lv(s, j) = f[j]
      BY <1>1, <2>1
    <3>2. j \in 1 .. Len(new) /\ l \in 1 .. Len(new[j].queue) /\ ~(j = i /\ l = k)
      BY <1>2, <2>1, <3>1
    <3>3. /\ f[j] \in 1 .. Len(book[side])
          /\ new[j].price = book[side][f[j]].price
          /\ l \in 1 .. Len(book[side][f[j]].queue)
          /\ new[j].queue[l] = book[side][f[j]].queue[l]
      BY <3>2 DEF Places
    <3> HIDE DEF Lv
    <3> QED
      BY <2>1, <3>1, <3>3 DEF At
  <2>2. CASE s # side
    BY <1>1, <2>2 DEF At
  <2> QED
    BY <2>1, <2>2
<1>3. ASSUME NEW s \in Sides, NEW j \in 1 .. Len(book'[s]),
             NEW l \in 1 .. Len(book'[s][j].queue), IsNew(s, j, l)
      PROVE  /\ book'[s][j].queue[l] = id
             /\ order[id].side = s /\ order[id].price = book'[s][j].price
  BY <1>1, <1>3 DEF Places
<1>4. ASSUME NEW s \in Sides, NEW j \in 1 .. Len(book'[s]),
             NEW l \in 1 .. Len(book'[s][j].queue), ~IsNew(s, j, l)
      PROVE  /\ order[book'[s][j].queue[l]].side = s
             /\ order[book'[s][j].queue[l]].price = book'[s][j].price
             /\ book'[s][j].queue[l] # id
  <2>1. At(s, Lv(s, j), l, book'[s][j].queue[l])
    BY <1>2, <1>4
  <2>2. book'[s][j].price = book[s][Lv(s, j)].price
    BY <1>2, <1>4
  <2> HIDE DEF Lv
  <2> QED
    BY <2>1, <2>2, SoundSeat
<1>5. \A j, m \in 1 .. Len(new) : f[j] = f[m] => j = m
  BY DEF Places
<1>6. LevelsSorted'
  <2> SUFFICES ASSUME NEW s \in Sides, NEW j \in 1 .. Len(book'[s]),
                      NEW m \in 1 .. Len(book'[s]), j < m
               PROVE  Better(s, book'[s][j].price, book'[s][m].price)
    BY DEF LevelsSorted
  <2>1. CASE s = side
    BY <1>1, <2>1 DEF Sorted
  <2>2. CASE s # side
    BY <1>1, <2>2 DEF BookWellFormed, LevelsSorted
  <2> QED
    BY <2>1, <2>2
<1> HIDE DEF IsNew
<1>7. QueuesSound'
  <2> SUFFICES ASSUME NEW s \in Sides, NEW j \in 1 .. Len(book'[s])
               PROVE  /\ book'[s][j].queue # <<>>
                      /\ \A l \in 1 .. Len(book'[s][j].queue) :
                            LET o == order'[book'[s][j].queue[l]]
                            IN  /\ o.side = s /\ o.price = book'[s][j].price
                                /\ o.status = "open"
                                /\ o.filled < o.qty
    BY DEF QueuesSound
  <2>1. book'[s][j].queue # <<>>
    <3>1. CASE s = side
      BY <1>1, <3>1 DEF Places
    <3>2. CASE s # side
      <4>1. book'[s] = book[s] /\ j \in 1 .. Len(book[s])
        BY <1>1, <3>2
      <4>2. \A m \in 1 .. Len(book[s]) : book[s][m].queue # <<>>
        BY DEF BookWellFormed, QueuesSound
      <4> QED
        BY <4>1, <4>2
    <3> QED
      BY <3>1, <3>2
  <2>2. ASSUME NEW l \in 1 .. Len(book'[s][j].queue)
        PROVE  LET o == order'[book'[s][j].queue[l]]
               IN  /\ o.side = s /\ o.price = book'[s][j].price
                   /\ o.status = "open"
                   /\ o.filled < o.qty
    <3>1. /\ order[book'[s][j].queue[l]].side = s
          /\ order[book'[s][j].queue[l]].price = book'[s][j].price
      <4>1. CASE IsNew(s, j, l)
        <5>1. /\ book'[s][j].queue[l] = id
              /\ order[id].side = s /\ order[id].price = book'[s][j].price
          BY <1>3, <4>1
        <5> QED
          BY <5>1
      <4>2. CASE ~IsNew(s, j, l)
        BY <1>4, <4>2
      <4> QED
        BY <4>1, <4>2
    <3>2. StaysOpen(book'[s][j].queue[l])
      BY DEF AllStayOpen
    <3> QED
      BY <3>1, <3>2 DEF StaysOpen
  <2> QED
    BY <2>1, <2>2
<1>8. QueuedOnce'
  <2> SUFFICES ASSUME NEW s1 \in Sides, NEW s2 \in Sides,
                      NEW i1 \in 1 .. Len(book'[s1]), NEW i2 \in 1 .. Len(book'[s2]),
                      NEW k1 \in 1 .. Len(book'[s1][i1].queue),
                      NEW k2 \in 1 .. Len(book'[s2][i2].queue),
                      book'[s1][i1].queue[k1] = book'[s2][i2].queue[k2]
               PROVE  s1 = s2 /\ i1 = i2 /\ k1 = k2
    BY DEF QueuedOnce
  <2>1. CASE IsNew(s1, i1, k1)
    <3>1. IsNew(s2, i2, k2)
      BY <1>3, <1>4, <2>1
    <3> QED
      BY <2>1, <3>1 DEF IsNew
  <2>2. CASE ~IsNew(s1, i1, k1)
    <3>1. ~IsNew(s2, i2, k2)
      BY <1>3, <1>4, <2>2
    <3>2. At(s1, Lv(s1, i1), k1, book'[s1][i1].queue[k1])
      BY <1>2, <2>2
    <3>3. At(s2, Lv(s2, i2), k2, book'[s1][i1].queue[k1])
      BY <1>2, <3>1
    <3>4. s1 = s2 /\ Lv(s1, i1) = Lv(s2, i2) /\ k1 = k2
      BY <3>2, <3>3, OneSeat
    <3>5. CASE s1 = side
      BY <1>1, <1>5, <3>4, <3>5
    <3>6. CASE s1 # side
      BY <3>4, <3>6
    <3> QED
      BY <3>4, <3>5, <3>6
  <2> QED
    BY <2>1, <2>2
<1> QED
  BY <1>6, <1>7, <1>8 DEF BookWellFormed

\* Every order in the book is still worth its place, but for the one that
\* leaves, if any: the k-th of level i of side.
SeatsStay(leaves, side, i, k) ==
    \A s \in Sides : \A j, l, id :
        At(s, j, l, id) => (leaves /\ s = side /\ j = i /\ l = k) \/ StaysOpen(id)

\* ThinnedBook with its last premise stated of the book before the step.
LEMMA TakenFromBook ==
    ASSUME book \in [Sides -> Seq(PriceLevel)], BookWellFormed, Uncrossed,
           NEW side \in Sides, NEW new \in Seq(PriceLevel),
           NEW leaves \in BOOLEAN, NEW i, NEW k,
           ThinsOut(new, book[side]),
           leaves => ThinsSkipping(new, book[side], i, k),
           book' = [book EXCEPT ![side] = new],
           SeatsStay(leaves, side, i, k)
    PROVE  BookWellFormed' /\ Uncrossed'
<1>1. PICK f, g : /\ Thins(new, book[side], f, g)
                  /\ leaves => Skips(new, f, g, i, k)
  BY DEF ThinsOut, ThinsSkipping
<1>2. \A s \in Sides : book'[s] = IF s = side THEN new ELSE book[s]
  OBVIOUS
<1>3. ASSUME NEW s \in Sides, NEW j \in 1 .. Len(book'[s]),
             NEW l \in 1 .. Len(book'[s][j].queue)
      PROVE  StaysOpen(book'[s][j].queue[l])
  <2>1. CASE s = side
    <3>1. book'[s] = new /\ j \in 1 .. Len(new) /\ l \in 1 .. Len(new[j].queue)
      BY <1>2, <2>1
    <3>2. /\ f[j] \in 1 .. Len(book[side])
          /\ g[j][l] \in 1 .. Len(book[side][f[j]].queue)
          /\ new[j].queue[l] = book[side][f[j]].queue[g[j][l]]
      BY <1>1, <3>1 DEF Thins
    <3>3. At(side, f[j], g[j][l], new[j].queue[l])
      BY <3>2 DEF At
    <3>4. leaves => ~(f[j] = i /\ g[j][l] = k)
      BY <1>1, <3>1 DEF Skips
    <3> QED
      BY <3>1, <3>3, <3>4 DEF SeatsStay
  <2>2. CASE s # side
    <3>1. At(s, j, l, book'[s][j].queue[l])
      BY <1>2, <2>2 DEF At
    <3> QED
      BY <2>2, <3>1 DEF SeatsStay
  <2> QED
    BY <2>1, <2>2
<1>4. AllStayOpen
  BY <1>3 DEF AllStayOpen
<1> QED
  BY <1>1, <1>4, ThinnedBook

\* PlacedBook with its last premise stated of the book before the step.
LEMMA PlacedInBook ==
    ASSUME book \in [Sides -> Seq(PriceLevel)], BookWellFormed,
           NEW side \in Sides, NEW new \in Seq(PriceLevel),
           NEW f, NEW i, NEW k, NEW id,
           Places(new, book[side], f, i, k, id), Sorted(side, new),
           order[id].status # "open", order[id].side = side,
           new[i].price = order[id].price,
           book' = [book EXCEPT ![side] = new],
           StaysOpen(id), SeatsStay(FALSE, side, i, k)
    PROVE  BookWellFormed'
<1>1. \A s \in Sides : book'[s] = IF s = side THEN new ELSE book[s]
  OBVIOUS
<1>2. ASSUME NEW s \in Sides, NEW j \in 1 .. Len(book'[s]),
             NEW l \in 1 .. Len(book'[s][j].queue)
      PROVE  StaysOpen(book'[s][j].queue[l])
  <2>1. CASE s = side
    <3>1. book'[s] = new /\ j \in 1 .. Len(new) /\ l \in 1 .. Len(new[j].queue)
      BY <1>1, <2>1
    <3>2. CASE j = i /\ l = k
      BY <3>1, <3>2 DEF Places
    <3>3. CASE ~(j = i /\ l = k)
      <4>1. At(side, f[j], l, new[j].queue[l])
        BY <3>1, <3>3 DEF Places, At
      <4> QED
        BY <3>1, <4>1 DEF SeatsStay
    <3> QED
      BY <3>2, <3>3
  <2>2. CASE s # side
    <3>1. At(s, j, l, book'[s][j].queue[l])
      BY <1>1, <2>2 DEF At
    <3> QED
      BY <3>1 DEF SeatsStay
  <2> QED
    BY <2>1, <2>2
<1>3. AllStayOpen
  BY <1>2 DEF AllStayOpen
<1> QED
  BY <1>3, PlacedBook

\* A step that leaves the book and the orders in it alone.
LEMMA SameBook ==
    ASSUME book \in [Sides -> Seq(PriceLevel)], BookWellFormed, Uncrossed,
           book' = book,
           \A id : order[id].status = "open" => order'[id] = order[id]
    PROVE  BookWellFormed' /\ Uncrossed'
<1>1. LevelsSorted'
  BY DEF BookWellFormed, LevelsSorted
<1>2. QueuedOnce'
  <2> SUFFICES ASSUME NEW s1 \in Sides, NEW s2 \in Sides,
                      NEW i1 \in 1 .. Len(book'[s1]), NEW i2 \in 1 .. Len(book'[s2]),
                      NEW k1 \in 1 .. Len(book'[s1][i1].queue),
                      NEW k2 \in 1 .. Len(book'[s2][i2].queue),
                      book'[s1][i1].queue[k1] = book'[s2][i2].queue[k2]
               PROVE  s1 = s2 /\ i1 = i2 /\ k1 = k2
    BY DEF QueuedOnce
  <2>1. /\ At(s1, i1, k1, book[s1][i1].queue[k1])
        /\ At(s2, i2, k2, book[s1][i1].queue[k1])
    BY DEF At
  <2> QED
    BY <2>1, OneSeat
<1>3. Uncrossed'
  BY DEF Uncrossed
<1>4. QueuesSound'
  <2> SUFFICES ASSUME NEW s \in Sides, NEW i \in 1 .. Len(book[s])
               PROVE  /\ book[s][i].queue # <<>>
                      /\ \A k \in 1 .. Len(book[s][i].queue) :
                            LET o == order'[book[s][i].queue[k]]
                            IN  /\ o.side = s /\ o.price = book[s][i].price
                                /\ o.status = "open"
                                /\ o.filled < o.qty
    BY DEF QueuesSound
  <2>1. ASSUME NEW k \in 1 .. Len(book[s][i].queue)
        PROVE  LET o == order'[book[s][i].queue[k]]
               IN  /\ o.side = s /\ o.price = book[s][i].price
                   /\ o.status = "open"
                   /\ o.filled < o.qty
    <3>1. At(s, i, k, book[s][i].queue[k])
      BY DEF At
    <3> QED
      BY <3>1, SoundSeat
  <2> QED
    BY <2>1 DEF BookWellFormed, QueuesSound
<1> QED
  BY <1>1, <1>2, <1>3, <1>4 DEF BookWellFormed

(***************************************************************************)
(* The first state.                                                        *)
(***************************************************************************)
\* The empty book satisfies the invariant.
LEMMA InitIInv == Init => IInv
<1> SUFFICES ASSUME Init PROVE IInv
  OBVIOUS
<1> USE DEF Init
<1>1. Unsubmitted \in Order
  BY DEF Unsubmitted, Order, Sides, Types, TimesInForce, Statuses
<1>2. <<>> \in Seq(PriceLevel) /\ <<>> \in Seq(MatchResult)
      /\ Len(<<>>) = 0
  OBVIOUS
<1>3. TypeOK
  BY <1>1, <1>2, NoOrderAssumption DEF TypeOK
<1>4. \A s \in Sides : book[s] = <<>> /\ Len(book[s]) = 0
  OBVIOUS
<1>5. BookWellFormed /\ Uncrossed
  BY <1>4 DEF BookWellFormed, LevelsSorted, QueuesSound, QueuedOnce, Uncrossed, Sides
<1>6. NoOverfill
  BY DEF NoOverfill, Unsubmitted
<1>7. TakerSound /\ RestSound
  BY DEF TakerSound, RestSound
<1>8. MatchesSound /\ TradesSound
  BY <1>2 DEF MatchesSound, TradesSound, OnePerPair
<1> QED
  BY <1>3, <1>5, <1>6, <1>7, <1>8 DEF IInv

(***************************************************************************)
(* Submit: RejectFOK, RejectMarket and MatchOrder.                         *)
(***************************************************************************)
\* A request as the shard receives it is an order with nothing filled.
LEMMA NewOrderType ==
    ASSUME NEW req \in Requests, NEW status \in Statuses
    PROVE  /\ NewOrder(req, status) \in Order
           /\ NewOrder(req, status).status = status
           /\ NewOrder(req, status).filled = 0
           /\ NewOrder(req, status).qty \in Nat
  BY RequestsAssumption DEF RequestType, NewOrder, Order

\* Refusing an order keeps the invariant.
LEMMA RefuseIInv ==
    ASSUME IInv, NEW id \in OrderIds, NEW req \in Requests, Idle,
           order[id].status = "none", Refuse(id, NewOrder(req, "created"))
    PROVE  IInv'
<1> DEFINE o == NewOrder(req, "created")
           r == [o EXCEPT !.status = "rejected"]
<1>1. order' = [order EXCEPT ![id] = r]
      /\ UNCHANGED <<book, seqNum, phase, taker, matches, trades>>
  BY DEF Refuse
<1>2. o \in Order /\ o.filled = 0 /\ o.qty \in Nat
  BY NewOrderType DEF Statuses
<1> HIDE DEF o
<1>3. r \in Order /\ r.status = "rejected" /\ r.filled = 0 /\ r.qty \in Nat
  BY <1>2 DEF Order, Statuses
<1> HIDE DEF r
<1>4. /\ order \in [OrderIds -> Order] /\ book \in [Sides -> Seq(PriceLevel)]
      /\ phase = "idle" /\ matches = <<>> /\ Len(matches) = 0
  BY DEF IInv, TypeOK, Idle, MatchesSound
<1>5. TypeOK'
  BY <1>1, <1>3 DEF IInv, TypeOK
<1>6. \A x : order[x].status = "open" => order'[x] = order[x]
  BY <1>1, <1>4
<1>7. BookWellFormed' /\ Uncrossed'
  BY <1>1, <1>4, <1>6, SameBook DEF IInv
<1>8. NoOverfill'
  BY <1>1, <1>3, <1>4 DEF IInv, NoOverfill
<1>9. TakerSound' /\ RestSound'
  BY <1>1, <1>4 DEF TakerSound, RestSound
<1>10. MatchesSound'
  BY <1>1, <1>4 DEF MatchesSound
<1>11. TradesSound'
  <2>1. ASSUME NEW n \in 1 .. Len(trades)
        PROVE  order'[trades[n].taker].status # "none"
    <3>1. order[trades[n].taker].status # "none"
      BY DEF IInv, TradesSound
    <3> QED
      BY <1>1, <1>3, <1>4, <3>1
  <2> QED
    BY <1>1, <1>4, <2>1 DEF IInv, TradesSound
<1> QED
  BY <1>5, <1>7, <1>8, <1>9, <1>10, <1>11 DEF IInv

\* Taking up an order keeps the invariant.
LEMMA MatchOrderIInv ==
    ASSUME IInv, NEW id \in OrderIds, NEW req \in Requests, MatchOrder(id, req)
    PROVE  IInv'
<1> DEFINE o == NewOrder(req, "created")
<1>1. /\ phase = "idle" /\ order[id].status = "none"
      /\ order' = [order EXCEPT ![id] = o]
      /\ phase' = "matching" /\ taker' = id /\ matches' = <<>>
      /\ UNCHANGED <<book, seqNum, trades>>
  BY DEF MatchOrder, Idle
<1>2. o \in Order /\ o.status = "created" /\ o.filled = 0 /\ o.qty \in Nat
  BY NewOrderType DEF Statuses
<1> HIDE DEF o
<1>3. order \in [OrderIds -> Order] /\ book \in [Sides -> Seq(PriceLevel)]
  BY DEF IInv, TypeOK
<1>4. TypeOK'
  <2>1. matches' \in Seq(MatchResult)
    BY <1>1
  <2> QED
    BY <1>1, <1>2, <2>1 DEF IInv, TypeOK
<1>5. \A x : order[x].status = "open" => order'[x] = order[x]
  BY <1>1, <1>3
<1>6. BookWellFormed' /\ Uncrossed'
  BY <1>1, <1>3, <1>5, SameBook DEF IInv
<1>7. NoOverfill'
  BY <1>1, <1>2, <1>3 DEF IInv, NoOverfill
<1>8. TakerSound' /\ RestSound'
  BY <1>1, <1>2, <1>3 DEF TakerSound, RestSound
<1>9. MatchesSound'
  BY <1>1 DEF MatchesSound
<1>10. TradesSound'
  <2>1. ASSUME NEW n \in 1 .. Len(trades)
        PROVE  order'[trades[n].taker].status # "none" /\ trades[n].taker # id
    <3>1. order[trades[n].taker].status # "none"
      BY DEF IInv, TradesSound
    <3> QED
      BY <1>1, <1>3, <3>1
  <2> QED
    BY <1>1, <2>1 DEF IInv, TradesSound
<1> QED
  BY <1>4, <1>6, <1>7, <1>8, <1>9, <1>10 DEF IInv

\* Either way, a new request does.
LEMMA SubmitIInv ==
    ASSUME IInv, NEW id \in OrderIds, NEW req \in Requests, Submit(id, req)
    PROVE  IInv'
<1>1. CASE RejectFOK(id, req)
  BY <1>1, RefuseIInv DEF RejectFOK
<1>2. CASE RejectMarket(id, req)
  BY <1>2, RefuseIInv DEF RejectMarket
<1>3. CASE MatchOrder(id, req)
  BY <1>3, MatchOrderIInv
<1> QED
  BY <1>1, <1>2, <1>3 DEF Submit

(***************************************************************************)
(* Match: one iteration of the loop.                                       *)
(***************************************************************************)
\* The maker is a queued order, the trade is positive and fits both orders.
LEMMA MatchFacts ==
    ASSUME IInv, phase = "matching", CanMatch,
           NEW maker, maker = Head(Facing[1].queue),
           NEW q, q = TradeQty(taker, maker)
    PROVE  /\ taker \in OrderIds /\ maker \in OrderIds /\ maker # taker
           /\ order[taker].status = "created"
           /\ At(Opposite(order[taker].side), 1, 1, maker)
           /\ order[maker].status = "open"
           /\ q \in Nat /\ q > 0
           /\ q <= Remaining(order[taker]) /\ q <= Remaining(order[maker])
           /\ q = Remaining(order[taker]) \/ q = Remaining(order[maker])
<1> DEFINE opp == Opposite(order[taker].side)
<1>1. /\ order \in [OrderIds -> Order] /\ book \in [Sides -> Seq(PriceLevel)]
      /\ taker \in OrderIds /\ order[taker].status = "created"
  BY DEF IInv, TypeOK, TakerSound
<1>2. opp \in Sides
  BY DEF Opposite, Sides
<1>3. /\ Facing = book[opp] /\ Facing # <<>> /\ Remaining(order[taker]) > 0
  BY DEF CanMatch, Facing
<1> HIDE DEF opp
<1>4. book[opp] \in Seq(PriceLevel) /\ 1 \in 1 .. Len(book[opp])
  <2>1. book[opp] \in Seq(PriceLevel) /\ book[opp] # <<>>
    BY <1>1, <1>2, <1>3
  <2>2. Len(book[opp]) \in Nat /\ Len(book[opp]) > 0
    BY <2>1, Lengths
  <2> QED
    BY <2>1, <2>2
<1>5. book[opp][1] \in PriceLevel /\ book[opp][1].queue \in Seq(OrderIds)
  BY <1>4, ElementOfSeq, LevelTypes
<1>6. book[opp][1].queue # <<>>
  BY <1>2, <1>4 DEF IInv, BookWellFormed, QueuesSound
<1>7. /\ 1 \in 1 .. Len(book[opp][1].queue)
      /\ maker = book[opp][1].queue[1] /\ maker \in OrderIds
  <2>1. 1 \in 1 .. Len(book[opp][1].queue)
    BY <1>5, <1>6, Lengths
  <2>2. maker = book[opp][1].queue[1]
    BY <1>3
  <2> QED
    BY <1>5, <2>1, <2>2, ElementOfSeq
<1>8. At(opp, 1, 1, maker)
  BY <1>4, <1>7 DEF At
<1>9. order[maker].status = "open" /\ order[maker].filled < order[maker].qty
  <2>1. BookWellFormed
    BY DEF IInv
  <2> QED
    BY <1>2, <1>8, <2>1, SoundSeat
<1>10. /\ Remaining(order[maker]) \in Int /\ Remaining(order[maker]) > 0
       /\ Remaining(order[taker]) \in Int
  <2>1. order[maker] \in Order /\ order[taker] \in Order
    BY <1>1, <1>7
  <2>2. ASSUME NEW o \in Order
        PROVE  o.qty \in Nat /\ o.filled \in Nat
    BY DEF Order
  <2>3. /\ order[maker].qty \in Nat /\ order[maker].filled \in Nat
        /\ order[taker].qty \in Nat /\ order[taker].filled \in Nat
    BY <2>1, <2>2
  <2> QED
    BY <1>9, <2>3 DEF Remaining
<1>11. /\ q \in Nat /\ q > 0
       /\ q <= Remaining(order[taker]) /\ q <= Remaining(order[maker])
       /\ q = Remaining(order[taker]) \/ q = Remaining(order[maker])
  <2> DEFINE x == Remaining(order[taker])
             y == Remaining(order[maker])
  <2>1. x \in Int /\ x > 0 /\ y \in Int /\ y > 0
    BY <1>3, <1>10
  <2>2. q = IF x > y THEN y ELSE x
    BY DEF TradeQty
  <2> HIDE DEF x, y
  <2>3. q \in Nat /\ q > 0 /\ q <= x /\ q <= y /\ (q = x \/ q = y)
    BY <2>1, <2>2
  <2> QED
    BY <2>3 DEF x, y
<1>12. maker # taker
  BY <1>1, <1>9
<1>13. At(Opposite(order[taker].side), 1, 1, maker)
  BY <1>8 DEF opp
<1> QED
  BY <1>1, <1>7, <1>9, <1>11, <1>12, <1>13

\* A trade moves the filled quantity, and may end the order.
LEMMA FillFacts ==
    ASSUME NEW o \in Order, NEW q \in Nat, NEW done \in BOOLEAN
    PROVE  LET r == Fill(o, q, done)
           IN  /\ r \in Order /\ r.status = IF done THEN "filled" ELSE o.status
               /\ r.side = o.side /\ r.price = o.price
               /\ r.filled = o.filled + q /\ r.qty = o.qty
<1> DEFINE filled == o.filled + q
           status == IF done THEN "filled" ELSE o.status
<1>1. filled \in Nat /\ status \in Statuses
  BY DEF Order, Statuses
<1>2. Fill(o, q, done) = [o EXCEPT !.filled = filled, !.status = status]
  BY DEF Fill
<1> HIDE DEF filled, status
<1>3. LET r == [o EXCEPT !.filled = filled, !.status = status]
      IN  /\ r \in Order /\ r.status = status
          /\ r.side = o.side /\ r.price = o.price
          /\ r.filled = filled /\ r.qty = o.qty
  BY <1>1 DEF Order
<1> QED
  BY <1>2, <1>3 DEF filled, status

\* One iteration of the loop keeps the invariant.
LEMMA MatchIInv == ASSUME IInv, Match PROVE IInv'
<1> DEFINE opp == Opposite(order[taker].side)
           maker == Head(Facing[1].queue)
           q == TradeQty(taker, maker)
           done == Remaining(order[maker]) = q
           m == [taker |-> taker, maker |-> maker,
                 price |-> order[maker].price, qty |-> q]
           took == Fill(order[taker], q, FALSE)
           gave == Fill(order[maker], q, done)
           new == Consume(book[opp], q, done)
<1>1. /\ phase = "matching" /\ CanMatch
      /\ matches' = Append(matches, m)
      /\ order' = [order EXCEPT ![taker] = Fill(@, q, FALSE),
                                ![maker] = Fill(@, q, done)]
      /\ book' = [book EXCEPT ![opp] = new]
      /\ UNCHANGED <<seqNum, phase, taker, trades>>
  BY DEF Match
<1>2. /\ taker \in OrderIds /\ maker \in OrderIds /\ maker # taker
      /\ order[taker].status = "created"
      /\ At(opp, 1, 1, maker)
      /\ order[maker].status = "open"
      /\ q \in Nat /\ q > 0
      /\ q <= Remaining(order[taker]) /\ q <= Remaining(order[maker])
      /\ q = Remaining(order[taker]) \/ q = Remaining(order[maker])
  BY <1>1, MatchFacts
<1>3. /\ order \in [OrderIds -> Order] /\ book \in [Sides -> Seq(PriceLevel)]
      /\ matches \in Seq(MatchResult) /\ opp \in Sides
  BY DEF IInv, TypeOK, Opposite, Sides
<1>4. /\ Facing = book[opp] /\ book[opp] # <<>> /\ Remaining(order[taker]) > 0
  BY <1>1 DEF CanMatch, Facing
<1>5. done \in BOOLEAN
  OBVIOUS
<1> HIDE DEF opp, maker, q
<1>6. order' = [order EXCEPT ![taker] = took, ![maker] = gave]
  <2> HIDE DEF done
  <2> QED
    BY <1>1, <1>2, <1>3
<1>7. order[taker] \in Order /\ order[maker] \in Order
  BY <1>2, <1>3
<1>8. /\ took \in Order /\ took.status = "created"
      /\ took.filled = order[taker].filled + q /\ took.qty = order[taker].qty
  BY <1>2, <1>7, FillFacts
<1>9. /\ gave \in Order /\ gave.status = IF done THEN "filled" ELSE "open"
      /\ gave.side = order[maker].side /\ gave.price = order[maker].price
      /\ gave.filled = order[maker].filled + q /\ gave.qty = order[maker].qty
  <2>1. order[maker] \in Order /\ order[maker].status = "open" /\ q \in Nat
    BY <1>2, <1>7
  <2> HIDE DEF done
  <2> QED
    BY <1>5, <2>1, FillFacts
<1> HIDE DEF took, gave
<1>10. \A x \in OrderIds :
          order'[x] = IF x = maker THEN gave ELSE IF x = taker THEN took ELSE order[x]
  BY <1>2, <1>3, <1>6
<1>11. m \in MatchResult
  BY <1>2, <1>7 DEF MatchResult, Order
<1>12. NoneEmpty(book[opp])
  BY <1>3 DEF IInv, BookWellFormed, QueuesSound, NoneEmpty
<1>13. /\ new \in Seq(PriceLevel) /\ ThinsOut(new, book[opp])
       /\ done => ThinsSkipping(new, book[opp], 1, 1)
  <2> HIDE DEF done
  <2>1. q \in Int /\ book[opp] \in Seq(PriceLevel)
    BY <1>2, <1>3
  <2> QED
    BY <1>4, <1>5, <1>12, <2>1, ConsumeThins
<1> HIDE DEF new, m
<1>14. TypeOK'
  <2>1. order' \in [OrderIds -> Order] /\ book' \in [Sides -> Seq(PriceLevel)]
    BY <1>1, <1>2, <1>3, <1>6, <1>8, <1>9, <1>13
  <2>2. matches' \in Seq(MatchResult)
    BY <1>1, <1>3, <1>11
  <2> QED
    BY <1>1, <2>1, <2>2 DEF IInv, TypeOK
<1>15. SeatsStay(done, opp, 1, 1)
  <2> SUFFICES ASSUME NEW s \in Sides, NEW j, NEW l, NEW x, At(s, j, l, x),
                      ~(done /\ s = opp /\ j = 1 /\ l = 1)
               PROVE  StaysOpen(x)
    BY DEF SeatsStay
  <2>1. order[x].status = "open" /\ order[x].filled < order[x].qty
    BY SoundSeat DEF IInv, BookWellFormed
  <2>2. x # taker
    BY <1>2, <2>1
  <2>3. x \in OrderIds
    <3>1. book[s][j] \in PriceLevel /\ l \in 1 .. Len(book[s][j].queue)
      BY <1>3, ElementOfSeq DEF At
    <3>2. book[s][j].queue \in Seq(OrderIds)
      BY <3>1, LevelTypes
    <3> QED
      BY <3>1, <3>2, ElementOfSeq DEF At
  <2>4. CASE x = maker
    <3>1. s = opp /\ j = 1 /\ l = 1
      BY <1>2, <1>3, <2>4, OneSeat DEF IInv, BookWellFormed
    <3>2. ~done
      BY <3>1
    <3>3. gave.filled < gave.qty
      BY <1>2, <1>7, <1>9, <3>2 DEF Remaining, Order
    <3> QED
      BY <1>9, <1>10, <2>3, <2>4, <3>2, <3>3 DEF StaysOpen
  <2>5. CASE x # maker
    BY <1>10, <2>1, <2>2, <2>3, <2>5 DEF StaysOpen
  <2> QED
    BY <2>4, <2>5
<1>16. BookWellFormed' /\ Uncrossed'
  <2> HIDE DEF done
  <2> QED
    BY <1>1, <1>3, <1>5, <1>13, <1>15, TakenFromBook DEF IInv
<1>17. NoOverfill'
  <2>1. took.filled <= took.qty /\ gave.filled <= gave.qty
    BY <1>2, <1>7, <1>8, <1>9 DEF Remaining, Order
  <2> QED
    BY <1>10, <2>1 DEF IInv, NoOverfill
<1>18. TakerSound' /\ RestSound'
  BY <1>1, <1>2, <1>8, <1>10 DEF TakerSound, RestSound
<1>19. MatchesSound'
  <2>1. /\ Len(matches) \in Nat /\ Len(matches') = Len(matches) + 1
        /\ matches'[Len(matches) + 1] = m
        /\ \A n \in 1 .. Len(matches) : matches'[n] = matches[n]
    BY <1>1, <1>3, LenProperties
  <2>2. m.taker = taker /\ m.maker = maker
    BY DEF m
  <2>3. ASSUME NEW n \in 1 .. Len(matches)
        PROVE  /\ matches[n].taker = taker
               /\ order[matches[n].maker].status = "filled"
               /\ order'[matches[n].maker].status = "filled"
               /\ matches[n].maker # maker
    <3>1. /\ matches[n].taker = taker
          /\ order[matches[n].maker].status = "filled"
      BY <1>4, <1>7 DEF IInv, MatchesSound, Remaining, Order
    <3>2. matches[n].maker \in OrderIds
      <4>1. matches[n] \in MatchResult
        BY <1>3, ElementOfSeq
      <4> QED
        BY <4>1 DEF MatchResult
    <3> QED
      BY <1>2, <1>10, <3>1, <3>2
  <2>4. \/ order'[maker].status = "filled"
        \/ Remaining(order'[taker]) = 0
    BY <1>2, <1>7, <1>8, <1>9, <1>10 DEF Remaining, Order
  <2>5. ASSUME NEW n \in 1 .. Len(matches')
        PROVE  /\ matches'[n].taker = taker
               /\ \/ order'[matches'[n].maker].status = "filled"
                  \/ Remaining(order'[taker]) = 0
    <3>1. n \in 1 .. Len(matches) \/ n = Len(matches) + 1
      BY <2>1
    <3> QED
      BY <2>1, <2>2, <2>3, <2>4, <3>1
  <2>6. ASSUME NEW n \in 1 .. Len(matches'), NEW k \in 1 .. Len(matches'),
               matches'[n].maker = matches'[k].maker
        PROVE  n = k
    <3>1. /\ n \in 1 .. Len(matches) \/ n = Len(matches) + 1
          /\ k \in 1 .. Len(matches) \/ k = Len(matches) + 1
      BY <2>1
    <3>2. CASE n \in 1 .. Len(matches) /\ k \in 1 .. Len(matches)
      BY <2>1, <2>6, <3>2 DEF IInv, MatchesSound
    <3> QED
      BY <2>1, <2>2, <2>3, <2>6, <3>1, <3>2
  <2> QED
    BY <1>1, <2>5, <2>6 DEF MatchesSound
<1>20. TradesSound'
  <2>1. ASSUME NEW n \in 1 .. Len(trades)
        PROVE  order'[trades[n].taker].status # "none"
    <3>1. order[trades[n].taker].status # "none"
      BY DEF IInv, TradesSound
    <3>2. trades[n] \in MatchResult
      BY ElementOfSeq DEF IInv, TypeOK
    <3>3. trades[n].taker \in OrderIds
      BY <3>2 DEF MatchResult
    <3> QED
      BY <1>8, <1>9, <1>10, <3>1, <3>3
  <2> QED
    BY <1>1, <2>1 DEF IInv, TradesSound
<1> QED
  BY <1>14, <1>16, <1>17, <1>18, <1>19, <1>20 DEF IInv

(***************************************************************************)
(* FinishMatch: the outcome of the loop.                                   *)
(***************************************************************************)
\* A step that publishes nothing and forgets no order keeps TradesSound.
LEMMA PublishedStay ==
    ASSUME TypeOK, TradesSound, trades' = trades, phase' # "matching", NEW id,
           order'[id].status # "none",
           \A x \in OrderIds : x # id => order'[x].status = order[x].status
    PROVE  TradesSound'
<1>1. ASSUME NEW n \in 1 .. Len(trades)
      PROVE  order'[trades[n].taker].status # "none"
  <2>1. trades[n] \in MatchResult
    BY ElementOfSeq DEF TypeOK
  <2>2. trades[n].taker \in OrderIds
    BY <2>1 DEF MatchResult
  <2>3. order[trades[n].taker].status # "none"
    BY DEF TradesSound
  <2> QED
    BY <2>2, <2>3
<1> QED
  BY <1>1 DEF TradesSound

\* Two lists of trades with no taker in common.
LEMMA PairsConcat ==
    ASSUME NEW a \in Seq(MatchResult), NEW b \in Seq(MatchResult),
           OnePerPair(a), OnePerPair(b),
           \A m \in 1 .. Len(a), n \in 1 .. Len(b) : a[m].taker # b[n].taker
    PROVE  OnePerPair(a \o b)
<1>1. Len(a) \in Nat /\ Len(b) \in Nat
  BY LenProperties
<1>2. /\ Len(a \o b) = Len(a) + Len(b)
      /\ \A n \in 1 .. Len(a) + Len(b) :
            (a \o b)[n] = IF n <= Len(a) THEN a[n] ELSE b[n - Len(a)]
  BY ConcatProperties
<1> DEFINE c == a \o b
<1> HIDE DEF c
<1> SUFFICES ASSUME NEW m \in 1 .. Len(a) + Len(b), NEW n \in 1 .. Len(a) + Len(b),
                    c[m].taker = c[n].taker, c[m].maker = c[n].maker
             PROVE  m = n
  BY <1>2 DEF OnePerPair, c
<1>3. /\ m <= Len(a) => m \in 1 .. Len(a) /\ c[m] = a[m]
      /\ m > Len(a) => m - Len(a) \in 1 .. Len(b) /\ c[m] = b[m - Len(a)]
      /\ n <= Len(a) => n \in 1 .. Len(a) /\ c[n] = a[n]
      /\ n > Len(a) => n - Len(a) \in 1 .. Len(b) /\ c[n] = b[n - Len(a)]
  BY <1>1, <1>2 DEF c
<1>4. CASE m <= Len(a) /\ n <= Len(a)
  BY <1>3, <1>4 DEF OnePerPair
<1>5. CASE m > Len(a) /\ n > Len(a)
  <2>1. m - Len(a) = n - Len(a)
    BY <1>3, <1>5 DEF OnePerPair
  <2> QED
    BY <1>1, <2>1
<1>6. CASE m <= Len(a) /\ n > Len(a)
  BY <1>3, <1>6
<1>7. CASE m > Len(a) /\ n <= Len(a)
  BY <1>3, <1>7
<1> QED
  BY <1>1, <1>4, <1>5, <1>6, <1>7

\* The loop's trades are distinct from each other and from the published ones.
LEMMA AllPairsOnce ==
    ASSUME TypeOK, MatchesSound, TradesSound, phase = "matching"
    PROVE  OnePerPair(trades \o matches)
<1>1. trades \in Seq(MatchResult) /\ matches \in Seq(MatchResult)
  BY DEF TypeOK
<1>2. OnePerPair(trades) /\ OnePerPair(matches)
  BY DEF TradesSound, MatchesSound, OnePerPair
<1>3. \A m \in 1 .. Len(trades), n \in 1 .. Len(matches) :
          trades[m].taker # matches[n].taker
  BY DEF TradesSound, MatchesSound
<1> QED
  BY <1>1, <1>2, <1>3, PairsConcat

\* The end of MatchOrder keeps the invariant.
LEMMA FinishIInv == ASSUME IInv, FinishMatch PROVE IInv'
<1> DEFINE o == order[taker]
           out == Outcome(o)
           last == [o EXCEPT !.status = out]
<1>1. /\ phase = "matching" /\ ~CanMatch
      /\ order' = [order EXCEPT ![taker].status = Outcome(order[taker])]
      /\ trades' \in {trades, trades \o matches}
      /\ matches' = <<>>
      /\ \/ IsFinal(out) /\ phase' = "idle" /\ taker' = NoOrder
         \/ ~IsFinal(out) /\ phase' = "resting" /\ taker' = taker
      /\ UNCHANGED <<book, seqNum>>
  BY DEF FinishMatch
<1>2. /\ order \in [OrderIds -> Order] /\ book \in [Sides -> Seq(PriceLevel)]
      /\ taker \in OrderIds /\ o \in Order /\ o.status = "created"
  BY <1>1 DEF IInv, TypeOK, TakerSound
<1>3. order' = [order EXCEPT ![taker] = last]
  BY <1>1
<1>4. /\ out \in {"filled", "cancelled", "created"}
      /\ ~IsFinal(out) => out = "created" /\ ~(Remaining(o) <= 0)
  BY <1>2 DEF Outcome, IsFinal
<1> HIDE DEF o, out
<1>5. /\ last \in Order /\ last.status = out
      /\ last.side = o.side /\ last.price = o.price /\ last.type = o.type
      /\ last.qty = o.qty /\ last.filled = o.filled
  BY <1>2, <1>4 DEF Order, Statuses
<1> HIDE DEF last
<1>6. \A x \in OrderIds : order'[x] = IF x = taker THEN last ELSE order[x]
  BY <1>2, <1>3
<1>7. TypeOK'
  <2>1. order' \in [OrderIds -> Order]
    BY <1>2, <1>3, <1>5
  <2>2. trades' \in Seq(MatchResult) /\ matches' \in Seq(MatchResult)
    <3>1. trades \in Seq(MatchResult) /\ matches \in Seq(MatchResult)
      BY DEF IInv, TypeOK
    <3>2. trades \o matches \in Seq(MatchResult)
      BY <3>1, ConcatProperties
    <3>3. trades' = trades \/ trades' = trades \o matches
      BY <1>1
    <3>4. matches' = <<>>
      BY <1>1
    <3>5. trades' \in Seq(MatchResult)
      BY <3>1, <3>2, <3>3, Zenon
    <3>6. matches' \in Seq(MatchResult)
      BY <3>4
    <3> QED
      BY <3>5, <3>6
  <2> QED
    BY <1>1, <1>2, <2>1, <2>2, NoOrderAssumption DEF IInv, TypeOK
<1>8. BookWellFormed' /\ Uncrossed'
  <2>1. \A x : order[x].status = "open" => order'[x] = order[x]
    BY <1>2, <1>3 DEF o
  <2> QED
    BY <1>1, <1>2, <2>1, SameBook DEF IInv
<1>9. NoOverfill'
  BY <1>2, <1>5, <1>6 DEF IInv, NoOverfill, o
<1>10. TakerSound'
  BY <1>1, <1>2, <1>4, <1>5, <1>6 DEF TakerSound
<1>11. RestSound'
  <2> SUFFICES ASSUME phase' = "resting"
               PROVE  Remaining(order'[taker]) > 0 /\ ~(CanMatch')
    BY <1>1 DEF RestSound
  <2>1. taker' = taker /\ order'[taker] = last /\ book' = book /\ ~(Remaining(o) <= 0)
    BY <1>1, <1>2, <1>4, <1>6
  <2>2. Remaining(last) = Remaining(o) /\ Remaining(o) \in Int
    BY <1>2, <1>5 DEF Remaining, Order
  <2>3. Facing' = Facing
    BY <1>5, <2>1 DEF Facing, o
  <2>4. Crosses(last, Facing[1].price) => Crosses(o, Facing[1].price)
    BY <1>5 DEF Crosses
  <2>5. Facing = <<>> \/ ~Crosses(o, Facing[1].price)
    BY <1>1, <2>1, <2>2 DEF CanMatch, o
  <2> QED
    BY <2>1, <2>2, <2>3, <2>4, <2>5 DEF CanMatch
<1>12. MatchesSound'
  BY <1>1 DEF MatchesSound
<1>13. TradesSound'
  <2>1. OnePerPair(trades')
    BY <1>1, AllPairsOnce DEF IInv, TradesSound
  <2>2. ASSUME NEW n \in 1 .. Len(trades')
        PROVE  order'[trades'[n].taker].status # "none"
    <3>1. trades \in Seq(MatchResult) /\ matches \in Seq(MatchResult)
      BY DEF IInv, TypeOK
    <3>2. \/ \E j \in 1 .. Len(trades) : trades'[n] = trades[j]
          \/ \E j \in 1 .. Len(matches) : trades'[n] = matches[j]
      <4>1. CASE trades' = trades
        BY <4>1
      <4>2. CASE trades' = trades \o matches
        <5>1. Len(trades) \in Nat /\ Len(matches) \in Nat
          BY <3>1, LenProperties
        <5>2. /\ n \in 1 .. Len(trades) + Len(matches)
              /\ trades'[n] = IF n <= Len(trades) THEN trades[n]
                              ELSE matches[n - Len(trades)]
          BY <3>1, <4>2, ConcatProperties
        <5>3. \/ n \in 1 .. Len(trades) /\ n <= Len(trades)
              \/ n - Len(trades) \in 1 .. Len(matches) /\ ~(n <= Len(trades))
          BY <5>1, <5>2
        <5> QED
          BY <5>2, <5>3
      <4> QED
        BY <1>1, <4>1, <4>2
    <3>3. CASE \E j \in 1 .. Len(trades) : trades'[n] = trades[j]
      <4>1. PICK j \in 1 .. Len(trades) : trades'[n] = trades[j]
        BY <3>3
      <4>2. order[trades[j].taker].status # "none" /\ trades[j].taker # taker
        BY <1>1 DEF IInv, TradesSound
      <4>3. trades[j] \in MatchResult
        BY <3>1, ElementOfSeq
      <4>4. trades[j].taker \in OrderIds
        BY <4>3 DEF MatchResult
      <4> QED
        BY <1>6, <4>1, <4>2, <4>4
    <3>4. CASE \E j \in 1 .. Len(matches) : trades'[n] = matches[j]
      <4>1. PICK j \in 1 .. Len(matches) : trades'[n] = matches[j]
        BY <3>4
      <4>2. matches[j].taker = taker
        BY DEF IInv, MatchesSound
      <4> QED
        BY <1>2, <1>4, <1>5, <1>6, <4>1, <4>2
    <3> QED
      BY <3>2, <3>3, <3>4
  <2>3. phase' # "matching"
    BY <1>1
  <2> QED
    BY <2>1, <2>2, <2>3 DEF TradesSound
<1> QED
  BY <1>7, <1>8, <1>9, <1>10, <1>11, <1>12, <1>13 DEF IInv

(***************************************************************************)
(* AddToBook and CancelOrder.                                              *)
(***************************************************************************)
\* Only the status of order id changes: what the book knows of others stays.
LEMMA OthersStay ==
    ASSUME order \in [OrderIds -> Order], BookWellFormed,
           NEW id \in OrderIds, NEW status \in Statuses,
           order' = [order EXCEPT ![id].status = status],
           NEW leaves \in BOOLEAN, NEW side \in Sides, NEW i, NEW k,
           order[id].status = "open" => leaves /\ At(side, i, k, id)
    PROVE  SeatsStay(leaves, side, i, k)
<1> SUFFICES ASSUME NEW s \in Sides, NEW j, NEW l, NEW x, At(s, j, l, x),
                    ~(leaves /\ s = side /\ j = i /\ l = k)
             PROVE  StaysOpen(x)
  BY DEF SeatsStay
<1>1. order[x].status = "open" /\ order[x].filled < order[x].qty
  BY SoundSeat
<1>2. x # id
  BY <1>1, OneSeat
<1>3. order'[x] = order[x]
  BY <1>2
<1> QED
  BY <1>1, <1>3 DEF StaysOpen

\* A change of the status of one order, and of nothing else of it.
LEMMA NewStatus ==
    ASSUME order \in [OrderIds -> Order],
           NEW id \in OrderIds, NEW status \in Statuses,
           order' = [order EXCEPT ![id].status = status]
    PROVE  /\ order' \in [OrderIds -> Order]
           /\ order'[id].status = status
           /\ \A x \in OrderIds :
                 /\ order'[x].side = order[x].side
                 /\ order'[x].price = order[x].price
                 /\ order'[x].type = order[x].type
                 /\ order'[x].qty = order[x].qty
                 /\ order'[x].filled = order[x].filled
                 /\ x # id => order'[x].status = order[x].status
<1> DEFINE r == [order[id] EXCEPT !.status = status]
<1>1. order[id] \in Order
  OBVIOUS
<1>2. /\ r \in Order /\ r.status = status
      /\ r.side = order[id].side /\ r.price = order[id].price
      /\ r.type = order[id].type /\ r.qty = order[id].qty
      /\ r.filled = order[id].filled
  BY <1>1 DEF Order
<1>3. order' = [order EXCEPT ![id] = r]
  OBVIOUS
<1> HIDE DEF r
<1> QED
  BY <1>2, <1>3

\* What rests has nothing to trade with on the other side, so its level, if it
\* is the best one, does not cross the book.
LEMMA AddUncrossed ==
    ASSUME IInv, phase = "resting", NEW side, side = order[taker].side,
           NEW new, NEW i \in 1 .. Len(book[side]) + 1,
           book' = [book EXCEPT ![side] = new], i <= Len(new),
           new[i].price = order[taker].price,
           \A j \in 1 .. i-1 : new[j] = book[side][j]
    PROVE  Uncrossed'
<1> DEFINE opp == Opposite(side)
<1>1. /\ order[taker] \in Order /\ side \in Sides
      /\ book \in [Sides -> Seq(PriceLevel)]
      /\ Remaining(order[taker]) > 0 /\ ~CanMatch
  BY DEF IInv, TypeOK, RestSound, Order
<1>2. /\ opp \in Sides /\ opp # side
      /\ book'[side] = new /\ book'[opp] = book[opp]
      /\ \A s \in Sides : s = side \/ s = opp
  BY <1>1 DEF Opposite, Sides
<1> HIDE DEF opp
<1>3. Len(book[side]) \in Nat
  BY <1>1, Lengths
<1>4. book[opp] # <<>> =>
          /\ order[taker].type = "limit"
          /\ ~(IF side = "buy" THEN order[taker].price >= book[opp][1].price
               ELSE order[taker].price <= book[opp][1].price)
  BY <1>1 DEF CanMatch, Facing, Crosses, opp
<1>5. book[opp] # <<>> => book[opp][1].price \in Nat
  <2>1. book[opp] # <<>> => 1 \in 1 .. Len(book[opp])
    BY <1>1, <1>2, Lengths
  <2>2. book[opp] # <<>> => book[opp][1] \in PriceLevel
    BY <1>1, <1>2, <2>1, ElementOfSeq
  <2> QED
    BY <2>2 DEF PriceLevel
<1>6. order[taker].price \in Nat
  BY <1>1 DEF Order
<1>7. CASE i = 1
  <2>1. new[1].price = order[taker].price
    BY <1>7
  <2> QED
    BY <1>1, <1>2, <1>4, <1>5, <1>6, <2>1 DEF Uncrossed, BestPrice, Sides
<1>8. CASE i # 1
  <2>1. 1 \in 1 .. i-1 /\ Len(book[side]) > 0
    BY <1>3, <1>8
  <2>2. book[side] # <<>> /\ new[1] = book[side][1]
    BY <1>1, <2>1, Lengths
  <2> QED
    BY <1>1, <1>2, <2>2 DEF IInv, Uncrossed, BestPrice, Sides
<1> QED
  BY <1>7, <1>8

\* Coming to rest keeps the invariant.
LEMMA AddIInv == ASSUME IInv, AddToBook PROVE IInv'
<1> DEFINE side == order[taker].side
<1>1. /\ phase = "resting"
      /\ order' = [order EXCEPT ![taker].status = "open"]
      /\ seqNum' = seqNum + 1 /\ phase' = "idle" /\ taker' = NoOrder
      /\ UNCHANGED <<matches, trades>>
  BY DEF AddToBook
<1>2. PICK i \in 1 .. Len(book[side]) + 1 :
         /\ IsInsertionPoint(i, book[side], side, order[taker].price)
         /\ book' = [book EXCEPT ![side] = AddAt(book[side], i, taker)]
  BY DEF AddToBook
<1>3. /\ order \in [OrderIds -> Order] /\ book \in [Sides -> Seq(PriceLevel)]
      /\ taker \in OrderIds /\ order[taker].status = "created"
      /\ matches = <<>> /\ Len(matches) = 0
      /\ Remaining(order[taker]) > 0
  BY <1>1 DEF IInv, TypeOK, TakerSound, MatchesSound, RestSound
<1>4. order[taker] \in Order /\ side \in Sides
  BY <1>3 DEF Order
<1>5. order[taker].filled < order[taker].qty
  BY <1>3, <1>4 DEF Remaining, Order
<1> DEFINE new == AddAt(book[side], i, taker)
<1>7. book' = [book EXCEPT ![side] = new]
  BY <1>2
<1> HIDE DEF side
<1>6. /\ new \in Seq(PriceLevel) /\ Sorted(side, new)
      /\ \E f, k : Places(new, book[side], f, i, k, taker)
      /\ i <= Len(new) /\ new[i].price = order[taker].price
      /\ \A j \in 1 .. i-1 : new[j] = book[side][j]
  <2>1. NoneEmpty(book[side]) /\ Sorted(side, book[side])
    BY <1>4 DEF IInv, BookWellFormed, QueuesSound, LevelsSorted, NoneEmpty, Sorted
  <2>2. book[side] \in Seq(PriceLevel)
    BY <1>3, <1>4
  <2> QED
    BY <1>2, <1>3, <1>4, <2>1, <2>2, AddPlaces
<1> HIDE DEF new
<1>8. /\ order' \in [OrderIds -> Order] /\ order'[taker].status = "open"
      /\ \A x \in OrderIds :
            /\ order'[x].side = order[x].side /\ order'[x].price = order[x].price
            /\ order'[x].qty = order[x].qty /\ order'[x].filled = order[x].filled
            /\ x # taker => order'[x].status = order[x].status
  <2>1. "open" \in Statuses
    BY DEF Statuses
  <2>2. order' = [order EXCEPT ![taker].status = "open"]
    BY <1>1
  <2> QED
    BY <1>3, <2>1, <2>2, NewStatus
<1>9. TypeOK'
  BY <1>1, <1>3, <1>4, <1>6, <1>7, <1>8, NoOrderAssumption DEF IInv, TypeOK
<1>10. BookWellFormed'
  <2>1. PICK f, k : Places(new, book[side], f, i, k, taker)
    BY <1>6
  <2>2. StaysOpen(taker)
    BY <1>3, <1>5, <1>8 DEF StaysOpen
  <2>3. SeatsStay(FALSE, side, i, k)
    BY <1>1, <1>3, <1>4, OthersStay DEF IInv, Statuses
  <2>4. order[taker].status # "open" /\ order[taker].side = side
    BY <1>3 DEF side
  <2> QED
    BY <1>3, <1>4, <1>6, <1>7, <2>1, <2>2, <2>3, <2>4, PlacedInBook DEF IInv
<1>11. Uncrossed'
  BY <1>1, <1>2, <1>6, <1>7, AddUncrossed DEF side
<1>12. NoOverfill'
  BY <1>8 DEF IInv, NoOverfill
<1>13. TakerSound' /\ RestSound'
  BY <1>1 DEF TakerSound, RestSound
<1>14. MatchesSound'
  BY <1>1, <1>3 DEF MatchesSound
<1>15. TradesSound'
  BY <1>1, <1>3, <1>8, PublishedStay DEF IInv
<1> QED
  BY <1>9, <1>10, <1>11, <1>12, <1>13, <1>14, <1>15 DEF IInv

\* Cancelling keeps the invariant.
LEMMA CancelIInv == ASSUME IInv, NEW id \in OrderIds, CancelOrder(id) PROVE IInv'
<1>1. /\ phase = "idle"
      /\ order' = [order EXCEPT ![id].status = "cancelled"]
      /\ UNCHANGED <<seqNum, phase, taker, matches, trades>>
  BY DEF CancelOrder, Idle
<1>0. PICK side \in Sides : \E i \in 1 .. Len(book[side]) :
         \E k \in 1 .. Len(book[side][i].queue) :
            /\ At(side, i, k, id)
            /\ book' = [book EXCEPT ![side] = Drop(book[side], i, k)]
  BY DEF CancelOrder
<1>2. PICK i \in 1 .. Len(book[side]) :
         \E k \in 1 .. Len(book[side][i].queue) :
            /\ At(side, i, k, id)
            /\ book' = [book EXCEPT ![side] = Drop(book[side], i, k)]
  BY <1>0
<1>3. PICK k \in 1 .. Len(book[side][i].queue) :
         /\ At(side, i, k, id)
         /\ book' = [book EXCEPT ![side] = Drop(book[side], i, k)]
  BY <1>2
<1>4. /\ order \in [OrderIds -> Order] /\ book \in [Sides -> Seq(PriceLevel)]
      /\ matches = <<>> /\ Len(matches) = 0
  BY <1>1 DEF IInv, TypeOK, MatchesSound
<1> DEFINE new == Drop(book[side], i, k)
<1>5. /\ new \in Seq(PriceLevel)
      /\ ThinsOut(new, book[side]) /\ ThinsSkipping(new, book[side], i, k)
  <2>1. NoneEmpty(book[side])
    BY DEF IInv, BookWellFormed, QueuesSound, NoneEmpty
  <2>2. book[side] \in Seq(PriceLevel)
    BY <1>4
  <2> QED
    BY <1>4, <2>1, <2>2, DropThins
<1> HIDE DEF new
<1>6. book' = [book EXCEPT ![side] = new]
  BY <1>3 DEF new
<1>7. /\ order' \in [OrderIds -> Order] /\ order'[id].status = "cancelled"
      /\ \A x \in OrderIds :
            /\ order'[x].qty = order[x].qty /\ order'[x].filled = order[x].filled
            /\ x # id => order'[x].status = order[x].status
  <2>1. "cancelled" \in Statuses
    BY DEF Statuses
  <2>2. order' = [order EXCEPT ![id].status = "cancelled"]
    BY <1>1
  <2> QED
    BY <1>4, <2>1, <2>2, NewStatus
<1>8. TypeOK'
  BY <1>1, <1>4, <1>5, <1>6, <1>7 DEF IInv, TypeOK
<1>9. BookWellFormed' /\ Uncrossed'
  <2>1. SeatsStay(TRUE, side, i, k)
    BY <1>1, <1>3, <1>4, OthersStay DEF IInv, Statuses
  <2> QED
    BY <1>4, <1>5, <1>6, <2>1, TakenFromBook DEF IInv
<1>10. NoOverfill'
  BY <1>7 DEF IInv, NoOverfill
<1>11. TakerSound' /\ RestSound'
  BY <1>1 DEF TakerSound, RestSound
<1>12. MatchesSound'
  BY <1>1, <1>4 DEF MatchesSound
<1>13. TradesSound'
  BY <1>1, <1>7, PublishedStay DEF IInv
<1> QED
  BY <1>8, <1>9, <1>10, <1>11, <1>12, <1>13 DEF IInv

(***************************************************************************)
(* The theorems.                                                           *)
(***************************************************************************)
\* A step that changes nothing keeps the invariant.
LEMMA StutterIInv == ASSUME IInv, UNCHANGED vars PROVE IInv'
<1>1. /\ order' = order /\ book' = book /\ seqNum' = seqNum /\ phase' = phase
      /\ taker' = taker /\ matches' = matches /\ trades' = trades
  BY DEF vars
<1>2. TypeOK' /\ NoOverfill' /\ TakerSound' /\ MatchesSound'
  BY <1>1 DEF IInv, TypeOK, NoOverfill, TakerSound, MatchesSound
<1>3. BookWellFormed' /\ Uncrossed'
  BY <1>1, SameBook DEF IInv, TypeOK
<1>4. RestSound' /\ TradesSound'
  BY <1>1 DEF IInv, RestSound, TradesSound, CanMatch, Facing, OnePerPair
<1> QED
  BY <1>2, <1>3, <1>4 DEF IInv

\* Every step keeps the invariant.
LEMMA StepIInv == IInv /\ [Next]_vars => IInv'
<1> SUFFICES ASSUME IInv, [Next]_vars PROVE IInv'
  OBVIOUS
<1>1. ASSUME NEW id \in OrderIds, NEW req \in Requests, Submit(id, req)
      PROVE  IInv'
  BY <1>1, SubmitIInv
<1>2. CASE Match
  BY <1>2, MatchIInv
<1>3. CASE FinishMatch
  BY <1>3, FinishIInv
<1>4. CASE AddToBook
  BY <1>4, AddIInv
<1>5. ASSUME NEW id \in OrderIds, CancelOrder(id)
      PROVE  IInv'
  BY <1>5, CancelIInv
<1>6. CASE UNCHANGED vars
  BY <1>6, StutterIInv
<1> QED
  BY <1>1, <1>2, <1>3, <1>4, <1>5, <1>6 DEF Next

\* In every reachable state of processOrder's shard the inductive invariant
\* holds, whatever orders clients send and cancel.
THEOREM InvariantHolds == Spec => []IInv
<1>1. Init => IInv
  BY InitIInv
<1>2. IInv /\ [Next]_vars => IInv'
  BY StepIInv
<1> QED
  BY <1>1, <1>2, PTL DEF Spec

\* Every variable keeps its type; a request is in progress exactly while
\* the goroutine is not idle.
THEOREM TypeCorrect == Spec => []TypeOK
<1>1. IInv => TypeOK
  BY DEF IInv
<1> QED
  BY <1>1, InvariantHolds, PTL

\* Levels stay strictly sorted, no level is empty, queued orders are open and
\* in the level of their price, and no order is queued twice: what matchBuy,
\* matchSell, sort.Search and CancelOrder take for granted.
THEOREM BookShape == Spec => []BookWellFormed
<1>1. IInv => BookWellFormed
  BY DEF IInv
<1> QED
  BY <1>1, InvariantHolds, PTL

\* The book a reader takes a snapshot of is never crossed or locked.
THEOREM NeverCrossed == Spec => []Uncrossed
<1>1. IInv => Uncrossed
  BY DEF IInv
<1> QED
  BY <1>1, InvariantHolds, PTL

\* FilledQty never exceeds Quantity, for takers and for makers.
THEOREM NeverOverfilled == Spec => []NoOverfill
<1>1. IInv => NoOverfill
  BY DEF IInv
<1> QED
  BY <1>1, InvariantHolds, PTL

\* A taker and a maker share at most one trade: the pair can serve settlement
\* as the name of the trade.
THEOREM TradeNamesUnique == Spec => []PairTradesOnce
<1>1. IInv => PairTradesOnce
  <2> SUFFICES ASSUME IInv PROVE OnePerPair(trades \o matches)
    BY DEF PairTradesOnce
  <2>1. CASE phase = "matching"
    BY <2>1, AllPairsOnce DEF IInv
  <2>2. CASE phase # "matching"
    <3>1. matches = <<>> /\ trades \in Seq(MatchResult) /\ OnePerPair(trades)
      BY <2>2 DEF IInv, TypeOK, MatchesSound, TradesSound
    <3>2. trades \o matches = trades
      BY <3>1, ConcatEmptySeq
    <3> QED
      BY <3>1, <3>2
  <2> QED
    BY <2>1, <2>2
<1> QED
  BY <1>1, InvariantHolds, PTL

\* No step touches an order that is filled, cancelled or rejected.
LEMMA FinalStep ==
    ASSUME IInv, [Next]_vars, NEW id \in OrderIds, IsFinal(order[id].status)
    PROVE  order'[id] = order[id]
<1>1. /\ order \in [OrderIds -> Order]
      /\ order[id].status \in {"filled", "cancelled", "rejected"}
      /\ phase # "idle" => taker \in OrderIds /\ taker # id
  BY DEF IInv, TypeOK, TakerSound, IsFinal
<1>2. ASSUME NEW x \in OrderIds, NEW req \in Requests, Submit(x, req)
      PROVE  order'[id] = order[id]
  <2>1. order[x].status = "none" /\ x # id
    BY <1>1, <1>2 DEF Submit, RejectFOK, RejectMarket, MatchOrder
  <2>2. \E o : order' = [order EXCEPT ![x] = o]
    BY <1>2 DEF Submit, RejectFOK, RejectMarket, MatchOrder, Refuse
  <2> QED
    BY <1>1, <2>1, <2>2
<1>3. CASE Match
  <2> DEFINE maker == Head(Facing[1].queue)
             q == TradeQty(taker, maker)
             done == Remaining(order[maker]) = q
  <2>1. /\ phase = "matching" /\ CanMatch
        /\ order' = [order EXCEPT ![taker] = Fill(@, q, FALSE),
                                  ![maker] = Fill(@, q, done)]
    BY <1>3 DEF Match
  <2>2. order[maker].status = "open"
    BY <2>1, MatchFacts
  <2>3. id # taker /\ id # maker
    BY <1>1, <2>1, <2>2
  <2> HIDE DEF maker, q, done
  <2> QED
    BY <1>1, <2>1, <2>3
<1>4. CASE FinishMatch
  BY <1>1, <1>4 DEF FinishMatch
<1>5. CASE AddToBook
  BY <1>1, <1>5 DEF AddToBook
<1>6. ASSUME NEW x \in OrderIds, CancelOrder(x)
      PROVE  order'[id] = order[id]
  <2>1. \E side \in Sides : \E i, k : At(side, i, k, x)
    BY <1>6 DEF CancelOrder
  <2>2. order[x].status = "open"
    BY <2>1, SoundSeat DEF IInv, BookWellFormed
  <2>3. order' = [order EXCEPT ![x].status = "cancelled"]
    BY <1>6 DEF CancelOrder
  <2> QED
    BY <1>1, <2>2, <2>3
<1>7. CASE UNCHANGED vars
  BY <1>7 DEF vars
<1> QED
  BY <1>2, <1>3, <1>4, <1>5, <1>6, <1>7 DEF Next

\* A filled, cancelled or rejected order stays as it is for ever.
THEOREM FinalForEver == Spec => FinalIsFinal
<1>1. IInv /\ [Next]_vars =>
        [\A id \in OrderIds :
            IsFinal(order[id].status) => order'[id] = order[id]]_vars
  BY FinalStep
<1> QED
  BY <1>1, InvariantHolds, PTL DEF Spec, FinalIsFinal

(***************************************************************************)
(* Volumes, fills and the status of orders: FillInv.                       *)
(***************************************************************************)
\* The two names of a sum.
LEMMA SumNames ==
    ASSUME NEW h, NEW S
    PROVE  SumFunctionOnSet(h, S) = SumOver(h, S)
  BY DEF SumFunctionOnSet, FoldFunctionOnSet, SumOver, MapThenSumSet

\* The orders in a level.
Queued(level) == ToSet(level.queue)

\* ToSet, by positions.
LEMMA InSet ==
    ASSUME NEW S, NEW s \in Seq(S)
    PROVE  /\ ToSet(s) = { s[k] : k \in 1 .. Len(s) }
           /\ ToSet(s) \subseteq S
<1>1. DOMAIN s = 1 .. Len(s)
  BY LenProperties
<1>2. \A k \in 1 .. Len(s) : s[k] \in S
  BY ElementOfSeq
<1>3. ToSet(s) = { s[k] : k \in DOMAIN s }
  BY DEF ToSet
<1> QED
  BY <1>1, <1>2, <1>3

\* The orders of a sequence are finitely many.
LEMMA SetFinite ==
    ASSUME NEW S, NEW s \in Seq(S)
    PROVE  IsFiniteSet(ToSet(s))
<1> DEFINE T == ToSet(s)
           f == [k \in 1 .. Len(s) |-> s[k]]
<1>1. T = { s[k] : k \in 1 .. Len(s) } /\ Len(s) \in Nat
  BY InSet, LenProperties
<1>2. IsFiniteSet(1 .. Len(s))
  BY <1>1, FS_Interval
<1>3. f \in Surjection(1 .. Len(s), T)
  BY <1>1 DEF Surjection
<1> HIDE DEF T, f
<1>4. IsFiniteSet(T)
  BY <1>2, <1>3, FS_Surjection
<1> QED
  BY <1>4 DEF T

\* A sequence without its first, and with one more.
LEMMA TailSet ==
    ASSUME NEW S, NEW s \in Seq(S), s # <<>>,
           \A k, l \in 1 .. Len(s) : s[k] = s[l] => k = l
    PROVE  ToSet(Tail(s)) = ToSet(s) \ {s[1]}
<1>1. Len(s) \in Nat /\ Len(s) > 0
  BY EmptySeq, LenProperties
<1>2. Tail(s) \in Seq(S) /\ Len(Tail(s)) = Len(s) - 1
      /\ \A k \in 1 .. Len(s) - 1 : Tail(s)[k] = s[k+1]
  BY HeadTailProperties
<1>3. ToSet(s) = { s[k] : k \in 1 .. Len(s) }
      /\ ToSet(Tail(s)) = { Tail(s)[k] : k \in 1 .. Len(s) - 1 }
  BY <1>2, InSet
<1>4. ASSUME NEW x \in ToSet(Tail(s)) PROVE x \in ToSet(s) \ {s[1]}
  <2>1. PICK k \in 1 .. Len(s) - 1 : x = s[k+1]
    BY <1>2, <1>3
  <2>2. k + 1 \in 1 .. Len(s) /\ 1 \in 1 .. Len(s) /\ k + 1 # 1
    BY <1>1
  <2> QED
    BY <1>3, <2>1, <2>2
<1>5. ASSUME NEW x \in ToSet(s) \ {s[1]} PROVE x \in ToSet(Tail(s))
  <2>1. PICK k \in 1 .. Len(s) : x = s[k]
    BY <1>3
  <2>2. k # 1
    BY <2>1
  <2>3. k - 1 \in 1 .. Len(s) - 1 /\ (k - 1) + 1 = k
    BY <1>1, <2>2
  <2>4. x = Tail(s)[k-1]
    BY <1>2, <2>1, <2>3
  <2> QED
    BY <1>3, <2>3, <2>4
<1> QED
  BY <1>4, <1>5

\* A sequence without its i-th.
LEMMA RemoveAtSet ==
    ASSUME NEW S, NEW s \in Seq(S), NEW i \in 1 .. Len(s),
           \A k, l \in 1 .. Len(s) : s[k] = s[l] => k = l
    PROVE  ToSet(RemoveAt(s, i)) = ToSet(s) \ {s[i]}
<1>1. Len(s) \in Nat
  BY LenProperties
<1> DEFINE r == RemoveAt(s, i)
<1>2. r \in Seq(S) /\ Len(r) = Len(s) - 1
      /\ \A k \in 1 .. Len(s) - 1 : r[k] = IF k < i THEN s[k] ELSE s[k+1]
  BY RemoveAtFacts
<1> HIDE DEF r
<1>3. ToSet(s) = { s[k] : k \in 1 .. Len(s) }
      /\ ToSet(r) = { r[k] : k \in 1 .. Len(s) - 1 }
  BY <1>2, InSet
<1>4. ASSUME NEW x \in ToSet(r) PROVE x \in ToSet(s) \ {s[i]}
  <2>1. PICK k \in 1 .. Len(s) - 1 : x = IF k < i THEN s[k] ELSE s[k+1]
    BY <1>2, <1>3
  <2>2. CASE k < i
    BY <1>1, <1>3, <2>1, <2>2
  <2>3. CASE ~(k < i)
    <3>1. k + 1 \in 1 .. Len(s) /\ k + 1 # i
      BY <1>1, <2>3
    <3> QED
      BY <1>3, <2>1, <2>3, <3>1
  <2> QED
    BY <2>2, <2>3
<1>5. ASSUME NEW x \in ToSet(s) \ {s[i]} PROVE x \in ToSet(r)
  <2>1. PICK k \in 1 .. Len(s) : x = s[k]
    BY <1>3
  <2>2. k # i
    BY <2>1
  <2>3. CASE k < i
    <3>1. k \in 1 .. Len(s) - 1
      BY <1>1, <2>3
    <3> QED
      BY <1>2, <1>3, <2>1, <2>3, <3>1
  <2>4. CASE ~(k < i)
    <3>1. k - 1 \in 1 .. Len(s) - 1 /\ ~(k - 1 < i) /\ (k - 1) + 1 = k
      BY <1>1, <2>2, <2>4
    <3>2. x = r[k-1]
      BY <1>2, <2>1, <3>1
    <3> QED
      BY <1>3, <3>1, <3>2
  <2> QED
    BY <2>3, <2>4
<1>6. ToSet(r) = ToSet(s) \ {s[i]}
  BY <1>4, <1>5
<1> QED
  BY <1>6 DEF r

\* A sequence with one more.
LEMMA AppendSet ==
    ASSUME NEW S, NEW s \in Seq(S), NEW e \in S
    PROVE  ToSet(Append(s, e)) = ToSet(s) \cup {e}
<1> DEFINE a == Append(s, e)
<1>1. /\ Len(s) \in Nat /\ a \in Seq(S) /\ Len(a) = Len(s) + 1
      /\ \A k \in 1 .. Len(s) : a[k] = s[k]
      /\ a[Len(s) + 1] = e
  BY AppendProperties, LenProperties
<1> HIDE DEF a
<1>2. ToSet(s) = { s[k] : k \in 1 .. Len(s) }
      /\ ToSet(a) = { a[k] : k \in 1 .. Len(s) + 1 }
  BY <1>1, InSet
<1>3. 1 .. Len(s) + 1 = (1 .. Len(s)) \cup {Len(s) + 1}
  BY <1>1
<1>4. ToSet(a) = ToSet(s) \cup {e}
  BY <1>1, <1>2, <1>3
<1> QED
  BY <1>4 DEF a

\* No order is in two places of a list of levels.
SeatsDiffer(levels) ==
    \A i, j \in 1 .. Len(levels) :
    \A k \in 1 .. Len(levels[i].queue), l \in 1 .. Len(levels[j].queue) :
        levels[i].queue[k] = levels[j].queue[l] => i = j /\ k = l

\* The orders that go out: none, or id.
NoneOr(gone, id) == gone = {} \/ gone = {id}

\* new is old after order id of level i has lost q, and the orders in gone are out.
Shrinks(new, old, i, id, q, gone) ==
    \/ /\ gone = {id} /\ Queued(old[i]) = {id}
       /\ Len(new) = Len(old) - 1
       /\ \A j \in 1 .. Len(new) : new[j] = IF j < i THEN old[j] ELSE old[j+1]
    \/ /\ Len(new) = Len(old)
       /\ \A j \in 1 .. Len(new) : j # i => new[j] = old[j]
       /\ new[i].volume = old[i].volume - q
       /\ Queued(new[i]) = Queued(old[i]) \ gone

\* new is old with order id, which has v left, in level i.
Grows(new, old, i, id, v) ==
    \/ /\ i <= Len(old) /\ Len(new) = Len(old)
       /\ \A j \in 1 .. Len(new) : j # i => new[j] = old[j]
       /\ new[i].volume = old[i].volume + v
       /\ Queued(new[i]) = Queued(old[i]) \cup {id}
    \/ /\ Len(new) = Len(old) + 1
       /\ \A j \in 1 .. Len(new) :
             j # i => new[j] = IF j < i THEN old[j] ELSE old[j-1]
       /\ new[i].volume = v
       /\ Queued(new[i]) = {id}

\* What a level's queue is, and its orders.
LEMMA LevelQueue ==
    ASSUME NEW levels \in Seq(PriceLevel), NoneEmpty(levels), SeatsDiffer(levels),
           NEW i \in 1 .. Len(levels)
    PROVE  LET queue == levels[i].queue
           IN  /\ levels[i] \in PriceLevel
               /\ queue \in Seq(OrderIds) /\ queue # <<>>
               /\ Len(queue) \in Nat /\ Len(queue) > 0
               /\ \A k, l \in 1 .. Len(queue) : queue[k] = queue[l] => k = l
               /\ Len(queue) = 1 => Queued(levels[i]) = {queue[1]}
<1> DEFINE queue == levels[i].queue
<1>1. levels[i] \in PriceLevel
  BY ElementOfSeq
<1>2. queue \in Seq(OrderIds)
  BY <1>1, LevelTypes
<1>3. queue # <<>>
  BY DEF NoneEmpty
<1>4. \A k, l \in 1 .. Len(queue) : queue[k] = queue[l] => k = l
  BY DEF SeatsDiffer
<1>5. Queued(levels[i]) = ToSet(queue)
  BY DEF Queued
<1> HIDE DEF queue
<1>6. Len(queue) \in Nat /\ Len(queue) > 0
  BY <1>2, <1>3, Lengths
<1>7. ToSet(queue) = { queue[k] : k \in 1 .. Len(queue) }
  BY <1>2, InSet
<1>8. Len(queue) = 1 => Queued(levels[i]) = {queue[1]}
  BY <1>5, <1>7
<1> QED
  BY <1>1, <1>2, <1>3, <1>4, <1>6, <1>8 DEF queue

\* A trade takes its quantity off the maker's level.
LEMMA ConsumeShrinks ==
    ASSUME NEW levels \in Seq(PriceLevel), levels # <<>>,
           NoneEmpty(levels), SeatsDiffer(levels),
           NEW q \in Int, NEW done \in BOOLEAN
    PROVE  LET id == levels[1].queue[1]
           IN  Shrinks(Consume(levels, q, done), levels, 1, id, q,
                       IF done THEN {id} ELSE {})
<1> DEFINE best == [levels[1] EXCEPT !.volume = @ - q]
           queue == levels[1].queue
           popped == [best EXCEPT !.queue = Tail(@)]
           vol == levels[1].volume - q
<1>1. 1 \in 1 .. Len(levels) /\ Len(levels) \in Nat
  BY Lengths
<1>2. /\ levels[1] \in PriceLevel
      /\ queue \in Seq(OrderIds) /\ queue # <<>>
      /\ Len(queue) \in Nat /\ Len(queue) > 0
      /\ \A k, l \in 1 .. Len(queue) : queue[k] = queue[l] => k = l
      /\ Len(queue) = 1 => Queued(levels[1]) = {queue[1]}
  BY <1>1, LevelQueue
<1>3. /\ best \in PriceLevel /\ best.queue = queue /\ best.volume = vol
  <2>1. vol \in Int
    BY <1>2, LevelTypes
  <2> HIDE DEF vol
  <2>2. LET m == [levels[1] EXCEPT !.volume = vol]
        IN  m \in PriceLevel /\ m.queue = levels[1].queue /\ m.volume = vol
    BY <1>2, <2>1 DEF PriceLevel
  <2> QED
    BY <2>2 DEF vol
<1>4. CASE ~done
  <2>1. Consume(levels, q, done) = [levels EXCEPT ![1] = best]
    BY <1>4 DEF Consume
  <2> HIDE DEF best, queue, vol
  <2>2. /\ Len([levels EXCEPT ![1] = best]) = Len(levels)
        /\ \A j \in 1 .. Len(levels) :
              [levels EXCEPT ![1] = best][j] = IF j = 1 THEN best ELSE levels[j]
    BY <1>1, <1>3, ExceptSeq
  <2>3. Queued(best) = Queued(levels[1])
    BY <1>3 DEF Queued, queue
  <2> QED
    BY <1>1, <1>3, <1>4, <2>1, <2>2, <2>3 DEF Shrinks, vol
<1>5. CASE done /\ Len(queue) = 1
  <2>1. Consume(levels, q, done) = Tail(levels)
    BY <1>3, <1>5 DEF Consume
  <2>2. /\ Len(Tail(levels)) = Len(levels) - 1
        /\ \A j \in 1 .. Len(levels) - 1 : Tail(levels)[j] = levels[j+1]
    BY HeadTailProperties
  <2>3. Queued(levels[1]) = {levels[1].queue[1]}
    BY <1>2, <1>5
  <2>4. \A j \in 1 .. Len(levels) - 1 : ~(j < 1)
    BY <1>1
  <2> QED
    BY <1>5, <2>1, <2>2, <2>3, <2>4 DEF Shrinks
<1>6. CASE done /\ Len(queue) # 1
  <2>1. Consume(levels, q, done) = [levels EXCEPT ![1] = popped]
    BY <1>3, <1>6 DEF Consume
  <2>2. /\ popped \in PriceLevel /\ popped.queue = Tail(queue) /\ popped.volume = vol
    <3> DEFINE rest == Tail(queue)
    <3>1. rest \in Seq(OrderIds)
      BY <1>2, HeadTailProperties
    <3>2. popped = [best EXCEPT !.queue = rest]
      BY <1>3
    <3> HIDE DEF best, queue, popped, rest, vol
    <3>3. LET m == [best EXCEPT !.queue = rest]
          IN  m \in PriceLevel /\ m.queue = rest /\ m.volume = best.volume
      BY <1>3, <3>1 DEF PriceLevel
    <3> QED
      BY <1>3, <3>2, <3>3 DEF rest
  <2> HIDE DEF best, popped, vol
  <2>3. /\ Len([levels EXCEPT ![1] = popped]) = Len(levels)
        /\ \A j \in 1 .. Len(levels) :
              [levels EXCEPT ![1] = popped][j] = IF j = 1 THEN popped ELSE levels[j]
    BY <1>1, <2>2, ExceptSeq
  <2>4. Queued(popped) = Queued(levels[1]) \ {queue[1]}
    <3> HIDE DEF queue
    <3>1. ToSet(Tail(queue)) = ToSet(queue) \ {queue[1]}
      BY <1>2, TailSet
    <3>2. Queued(popped) = ToSet(Tail(queue))
      BY <2>2 DEF Queued
    <3>3. Queued(levels[1]) = ToSet(queue)
      BY DEF Queued, queue
    <3> QED
      BY <3>1, <3>2, <3>3
  <2> QED
    BY <1>1, <1>6, <2>1, <2>2, <2>3, <2>4 DEF Shrinks, vol
<1> QED
  BY <1>4, <1>5, <1>6

\* A cancellation takes what the order had left off its level.
LEMMA DropShrinks ==
    ASSUME order \in [OrderIds -> Order],
           NEW levels \in Seq(PriceLevel), NoneEmpty(levels), SeatsDiffer(levels),
           NEW i \in 1 .. Len(levels), NEW k \in 1 .. Len(levels[i].queue)
    PROVE  LET id == levels[i].queue[k]
           IN  Shrinks(Drop(levels, i, k), levels, i, id, Remaining(order[id]), {id})
<1> DEFINE queue == levels[i].queue
           id == queue[k]
           vol == levels[i].volume - Remaining(order[id])
           less == [levels[i] EXCEPT !.queue = RemoveAt(queue, k), !.volume = vol]
<1>1. Len(levels) \in Nat
  BY Lengths
<1>2. /\ levels[i] \in PriceLevel
      /\ queue \in Seq(OrderIds) /\ queue # <<>>
      /\ Len(queue) \in Nat /\ Len(queue) > 0
      /\ \A l, m \in 1 .. Len(queue) : queue[l] = queue[m] => l = m
      /\ Len(queue) = 1 => Queued(levels[i]) = {queue[1]}
  BY LevelQueue
<1>3. vol \in Int
  <2>1. id \in OrderIds
    BY <1>2, ElementOfSeq
  <2>2. Remaining(order[id]) \in Int
    BY <2>1 DEF Remaining, Order
  <2>3. levels[i].volume \in Int
    BY <1>2 DEF PriceLevel
  <2> QED
    BY <2>2, <2>3
<1>4. CASE Len(queue) = 1
  <2>1. Drop(levels, i, k) = RemoveAt(levels, i)
    BY <1>4 DEF Drop
  <2>2. /\ Len(RemoveAt(levels, i)) = Len(levels) - 1
        /\ \A j \in 1 .. Len(levels) - 1 :
              RemoveAt(levels, i)[j] = IF j < i THEN levels[j] ELSE levels[j+1]
    BY RemoveAtFacts
  <2>3. k = 1
    BY <1>4
  <2>4. Queued(levels[i]) = {id}
    BY <1>2, <1>4, <2>3
  <2> QED
    BY <2>1, <2>2, <2>4 DEF Shrinks
<1>5. CASE Len(queue) # 1
  <2>1. Drop(levels, i, k) = [levels EXCEPT ![i] = less]
    BY <1>5 DEF Drop
  <2> DEFINE shorter == RemoveAt(queue, k)
  <2>2. /\ shorter \in Seq(OrderIds) /\ ToSet(shorter) = ToSet(queue) \ {id}
    <3>1. k \in 1 .. Len(queue)
      OBVIOUS
    <3> HIDE DEF queue
    <3> QED
      BY <1>2, <3>1, RemoveAtFacts, RemoveAtSet
  <2>3. /\ less \in PriceLevel /\ less.queue = shorter /\ less.volume = vol
    <3> HIDE DEF queue, vol, shorter
    <3>1. LET m == [levels[i] EXCEPT !.queue = shorter, !.volume = vol]
          IN  m \in PriceLevel /\ m.queue = shorter /\ m.volume = vol
      BY <1>2, <1>3, <2>2 DEF PriceLevel
    <3> QED
      BY <3>1 DEF shorter
  <2>4. Queued(less) = Queued(levels[i]) \ {id}
    BY <2>2, <2>3 DEF Queued
  <2> HIDE DEF less, shorter, vol
  <2>5. /\ Len([levels EXCEPT ![i] = less]) = Len(levels)
        /\ \A j \in 1 .. Len(levels) :
              [levels EXCEPT ![i] = less][j] = IF j = i THEN less ELSE levels[j]
    BY <2>3, ExceptSeq
  <2> QED
    BY <1>1, <2>1, <2>3, <2>4, <2>5 DEF Shrinks, vol
<1> QED
  BY <1>4, <1>5

\* An order that comes to rest adds what it has left.
LEMMA AddGrows ==
    ASSUME order \in [OrderIds -> Order], NEW id \in OrderIds,
           NEW levels \in Seq(PriceLevel), NEW i \in 1 .. Len(levels) + 1
    PROVE  Grows(AddAt(levels, i, id), levels, i, id, Remaining(order[id]))
<1> DEFINE p == order[id].price
           fits == i <= Len(levels) /\ levels[i].price = p
           left == Remaining(order[id])
<1>1. Len(levels) \in Nat /\ p \in Nat /\ left \in Int
  BY Lengths DEF Order, Remaining
<1>2. ASSUME NEW l \in PriceLevel
      PROVE  /\ Push(l, id) \in PriceLevel
             /\ Push(l, id).volume = l.volume + left
             /\ Queued(Push(l, id)) = Queued(l) \cup {id}
  <2> DEFINE queue == Append(l.queue, id)
             vol == l.volume + left
  <2>1. Push(l, id) = [l EXCEPT !.queue = queue, !.volume = vol]
    BY DEF Push
  <2>2. l.queue \in Seq(OrderIds) /\ l.volume \in Int
    BY LevelTypes
  <2>3. queue \in Seq(OrderIds) /\ ToSet(queue) = ToSet(l.queue) \cup {id}
    BY <2>2, AppendProperties, AppendSet
  <2>4. vol \in Int
    BY <1>1, <2>2
  <2> HIDE DEF queue, vol
  <2>5. LET m == [l EXCEPT !.queue = queue, !.volume = vol]
        IN  m \in PriceLevel /\ m.volume = vol /\ m.queue = queue
    BY <2>3, <2>4 DEF PriceLevel
  <2> QED
    BY <2>1, <2>3, <2>5 DEF vol, Queued
<1>3. CASE fits
  <2> DEFINE more == Push(levels[i], id)
  <2>1. AddAt(levels, i, id) = [levels EXCEPT ![i] = more]
    BY <1>3 DEF AddAt
  <2>2. i \in 1 .. Len(levels) /\ levels[i] \in PriceLevel
    BY <1>1, <1>3, ElementOfSeq
  <2>3. /\ more \in PriceLevel /\ more.volume = levels[i].volume + left
        /\ Queued(more) = Queued(levels[i]) \cup {id}
    BY <1>2, <2>2
  <2> HIDE DEF more, left
  <2>4. /\ Len([levels EXCEPT ![i] = more]) = Len(levels)
        /\ \A j \in 1 .. Len(levels) :
              [levels EXCEPT ![i] = more][j] = IF j = i THEN more ELSE levels[j]
    BY <2>2, <2>3, ExceptSeq
  <2> QED
    BY <1>1, <1>3, <2>1, <2>2, <2>3, <2>4 DEF Grows, left
<1>4. CASE ~fits
  <2> DEFINE empty == [price |-> p, queue |-> <<>>, volume |-> 0]
             lev == Push(empty, id)
  <2>1. AddAt(levels, i, id) = InsertAt(levels, i, lev)
    BY <1>4 DEF AddAt
  <2>2. empty \in PriceLevel /\ empty.volume = 0 /\ Queued(empty) = {}
    <3>1. ToSet(<<>>) = {}
      BY DEF ToSet
    <3> QED
      BY <1>1, <3>1 DEF PriceLevel, Queued
  <2> HIDE DEF empty
  <2>3. lev \in PriceLevel /\ lev.volume = left /\ Queued(lev) = {id}
    BY <1>1, <1>2, <2>2
  <2> HIDE DEF lev, left
  <2>4. /\ Len(InsertAt(levels, i, lev)) = Len(levels) + 1
        /\ \A j \in 1 .. Len(levels) + 1 :
              InsertAt(levels, i, lev)[j] =
                  IF j < i THEN levels[j] ELSE IF j = i THEN lev ELSE levels[j-1]
    <3>1. lev \in PriceLevel
      BY <2>3
    <3>2. \A e \in PriceLevel :
             /\ Len(InsertAt(levels, i, e)) = Len(levels) + 1
             /\ \A j \in 1 .. Len(levels) + 1 :
                   InsertAt(levels, i, e)[j] =
                       IF j < i THEN levels[j] ELSE IF j = i THEN e ELSE levels[j-1]
      BY InsertLevel
    <3> QED
      BY <3>1, <3>2, Zenon
  <2> QED
    BY <1>1, <2>1, <2>3, <2>4 DEF Grows, left
<1> QED
  BY <1>3, <1>4

(***************************************************************************)
(* The queues of a book, as sets.                                          *)
(***************************************************************************)
\* A book has a list of levels on each side.
Books == [Sides -> Seq(PriceLevel)]

\* Order id is in book b.
QueuedIn(b, id) ==
    \E s \in Sides : \E j \in 1 .. Len(b[s]) : id \in Queued(b[s][j])

\* No order is in two levels.
OneLevel(b) ==
    \A s, t \in Sides : \A j \in 1 .. Len(b[s]), m \in 1 .. Len(b[t]) :
        \A x : x \in Queued(b[s][j]) /\ x \in Queued(b[t][m]) => s = t /\ j = m

\* The orders of a level are those at its places.
LEMMA QueuedAt ==
    ASSUME NEW b \in Books, NEW s \in Sides, NEW j \in 1 .. Len(b[s])
    PROVE  /\ Queued(b[s][j]) =
                 { b[s][j].queue[k] : k \in 1 .. Len(b[s][j].queue) }
           /\ Queued(b[s][j]) \subseteq OrderIds
           /\ IsFiniteSet(Queued(b[s][j]))
<1> DEFINE queue == b[s][j].queue
<1>1. b[s] \in Seq(PriceLevel)
  BY DEF Books
<1>2. b[s][j] \in PriceLevel
  BY <1>1, ElementOfSeq
<1>3. queue \in Seq(OrderIds)
  BY <1>2, LevelTypes
<1>4. Queued(b[s][j]) = ToSet(queue)
  BY DEF Queued
<1> HIDE DEF queue
<1>5. /\ ToSet(queue) = { queue[k] : k \in 1 .. Len(queue) }
      /\ ToSet(queue) \subseteq OrderIds /\ IsFiniteSet(ToSet(queue))
  BY <1>3, InSet, SetFinite
<1> QED
  BY <1>4, <1>5 DEF queue

\* Resting is being in a queue, before and after a step.
LEMMA RestingIn ==
    ASSUME NEW b \in Books, NEW id
    PROVE  QueuedIn(b, id) <=>
              \E s \in Sides : \E j \in 1 .. Len(b[s]) :
                  \E k \in 1 .. Len(b[s][j].queue) : b[s][j].queue[k] = id
<1>1. ASSUME NEW s \in Sides, NEW j \in 1 .. Len(b[s])
      PROVE  id \in Queued(b[s][j]) <=>
                \E k \in 1 .. Len(b[s][j].queue) : b[s][j].queue[k] = id
  <2>1. Queued(b[s][j]) = { b[s][j].queue[k] : k \in 1 .. Len(b[s][j].queue) }
    BY QueuedAt
  <2> QED
    BY <2>1
<1>2. QueuedIn(b, id) <=> \E s \in Sides : \E j \in 1 .. Len(b[s]) : id \in Queued(b[s][j])
  BY DEF QueuedIn
<1> QED
  BY <1>1, <1>2, Zenon

\* Resting, now and after a step, by the sets of the levels.
LEMMA RestingNow ==
    ASSUME book \in Books, NEW id
    PROVE  Resting(id) <=> QueuedIn(book, id)
<1>1. Resting(id) <=>
        \E s \in Sides : \E j \in 1 .. Len(book[s]) :
            \E k \in 1 .. Len(book[s][j].queue) : book[s][j].queue[k] = id
  BY DEF Resting, At
<1> QED
  BY <1>1, RestingIn

LEMMA RestingThen ==
    ASSUME book' \in Books, NEW id
    PROVE  Resting(id)' <=> QueuedIn(book', id)
<1>1. Resting(id)' <=>
        \E s \in Sides : \E j \in 1 .. Len(book'[s]) :
            \E k \in 1 .. Len(book'[s][j].queue) : book'[s][j].queue[k] = id
  BY DEF Resting, At
<1> QED
  BY <1>1, RestingIn

\* What BookWellFormed says of the queues as sets.
LEMMA WellFormedQueues ==
    ASSUME book \in Books, BookWellFormed
    PROVE  /\ OneLevel(book)
           /\ \A s \in Sides : NoneEmpty(book[s]) /\ SeatsDiffer(book[s])
           /\ \A s \in Sides : \A j \in 1 .. Len(book[s]) : \A x \in Queued(book[s][j]) :
                 /\ x \in OrderIds /\ order[x].status = "open"
                 /\ order[x].side = s /\ order[x].price = book[s][j].price
<1>1. ASSUME NEW s \in Sides, NEW j \in 1 .. Len(book[s]), NEW x \in Queued(book[s][j])
      PROVE  \E k : At(s, j, k, x)
  <2>1. Queued(book[s][j]) = { book[s][j].queue[k] : k \in 1 .. Len(book[s][j].queue) }
    BY QueuedAt
  <2>2. PICK k \in 1 .. Len(book[s][j].queue) : book[s][j].queue[k] = x
    BY <2>1
  <2> QED
    BY <2>2 DEF At
<1>2. OneLevel(book)
  <2> SUFFICES ASSUME NEW s \in Sides, NEW t \in Sides,
                      NEW j \in 1 .. Len(book[s]), NEW m \in 1 .. Len(book[t]), NEW x,
                      x \in Queued(book[s][j]), x \in Queued(book[t][m])
               PROVE  s = t /\ j = m
    BY DEF OneLevel
  <2>1. PICK k : At(s, j, k, x)
    BY <1>1
  <2>2. PICK l : At(t, m, l, x)
    BY <1>1
  <2> QED
    BY <2>1, <2>2, OneSeat
<1>3. ASSUME NEW s \in Sides
      PROVE  NoneEmpty(book[s]) /\ SeatsDiffer(book[s])
  <2>1. NoneEmpty(book[s])
    BY DEF BookWellFormed, QueuesSound, NoneEmpty
  <2>2. SeatsDiffer(book[s])
    <3> SUFFICES ASSUME NEW i \in 1 .. Len(book[s]), NEW j \in 1 .. Len(book[s]),
                        NEW k \in 1 .. Len(book[s][i].queue),
                        NEW l \in 1 .. Len(book[s][j].queue),
                        book[s][i].queue[k] = book[s][j].queue[l]
                 PROVE  i = j /\ k = l
      BY DEF SeatsDiffer
    <3>1. At(s, i, k, book[s][i].queue[k]) /\ At(s, j, l, book[s][i].queue[k])
      BY DEF At
    <3> QED
      BY <3>1, OneSeat
  <2> QED
    BY <2>1, <2>2
<1>4. ASSUME NEW s \in Sides, NEW j \in 1 .. Len(book[s]), NEW x \in Queued(book[s][j])
      PROVE  /\ x \in OrderIds /\ order[x].status = "open"
             /\ order[x].side = s /\ order[x].price = book[s][j].price
  <2>1. PICK k : At(s, j, k, x)
    BY <1>1
  <2>2. x \in OrderIds
    BY QueuedAt
  <2> QED
    BY <2>1, <2>2, SoundSeat
<1> QED
  BY <1>2, <1>3, <1>4

\* Where the levels of a shrunk list come from, and where those of the old one are.
ShrunkFrom(new, old, i, id, q, gone) ==
    \A j \in 1 .. Len(new) :
        \/ \E m \in 1 .. Len(old) : m # i /\ new[j] = old[m]
        \/ /\ j = i /\ new[i].volume = old[i].volume - q
           /\ Queued(new[i]) = Queued(old[i]) \ gone

ShrunkTo(new, old, i, id, gone) ==
    \A m \in 1 .. Len(old) :
        \/ m # i /\ \E j \in 1 .. Len(new) : new[j] = old[m]
        \/ m = i /\ gone = {id} /\ Queued(old[m]) = {id}
        \/ /\ m = i /\ i \in 1 .. Len(new)
           /\ Queued(new[i]) = Queued(old[i]) \ gone

\* Every level of the new list is an old one or the i-th, and the other way round.
LEMMA ShrunkLevels ==
    ASSUME NEW new \in Seq(PriceLevel), NEW old \in Seq(PriceLevel),
           NEW i \in 1 .. Len(old), NEW id, NEW q, NEW gone, NoneOr(gone, id),
           Shrinks(new, old, i, id, q, gone)
    PROVE  ShrunkFrom(new, old, i, id, q, gone) /\ ShrunkTo(new, old, i, id, gone)
<1>0. Len(new) \in Nat /\ Len(old) \in Nat
  BY Lengths
<1>1. CASE /\ gone = {id} /\ Queued(old[i]) = {id}
           /\ Len(new) = Len(old) - 1
           /\ \A j \in 1 .. Len(new) : new[j] = IF j < i THEN old[j] ELSE old[j+1]
  <2>1. ASSUME NEW j \in 1 .. Len(new)
        PROVE  \E m \in 1 .. Len(old) : m # i /\ new[j] = old[m]
    <3>1. CASE j < i
      BY <1>0, <1>1, <3>1
    <3>2. CASE ~(j < i)
      <4>1. j + 1 \in 1 .. Len(old) /\ j + 1 # i /\ new[j] = old[j+1]
        BY <1>0, <1>1, <3>2
      <4> QED
        BY <4>1
    <3> QED
      BY <3>1, <3>2
  <2>2. ASSUME NEW m \in 1 .. Len(old), m # i
        PROVE  \E j \in 1 .. Len(new) : new[j] = old[m]
    <3>1. CASE m < i
      <4>1. m \in 1 .. Len(new)
        BY <1>0, <1>1, <3>1
      <4> QED
        BY <1>1, <3>1, <4>1
    <3>2. CASE ~(m < i)
      <4>1. m - 1 \in 1 .. Len(new) /\ ~(m - 1 < i) /\ (m - 1) + 1 = m
        BY <1>0, <1>1, <2>2, <3>2
      <4> QED
        BY <1>1, <4>1
    <3> QED
      BY <3>1, <3>2
  <2> QED
    BY <1>1, <2>1, <2>2 DEF ShrunkFrom, ShrunkTo
<1>2. CASE /\ Len(new) = Len(old)
           /\ \A j \in 1 .. Len(new) : j # i => new[j] = old[j]
           /\ new[i].volume = old[i].volume - q
           /\ Queued(new[i]) = Queued(old[i]) \ gone
  <2>1. ShrunkFrom(new, old, i, id, q, gone)
    BY <1>2 DEF ShrunkFrom
  <2>2. ShrunkTo(new, old, i, id, gone)
    BY <1>2 DEF ShrunkTo
  <2> QED
    BY <2>1, <2>2
<1> QED
  BY <1>1, <1>2 DEF Shrinks

\* The same for a grown list.
GrownFrom(new, old, i, id, v) ==
    \A j \in 1 .. Len(new) :
        \/ \E m \in 1 .. Len(old) : new[j] = old[m]
        \/ /\ j = i /\ i \in 1 .. Len(old) /\ new[i].volume = old[i].volume + v
           /\ Queued(new[i]) = Queued(old[i]) \cup {id}
        \/ j = i /\ new[i].volume = v /\ Queued(new[i]) = {id}

GrownTo(new, old, i, id) ==
    /\ i \in 1 .. Len(new) /\ id \in Queued(new[i])
    /\ \A m \in 1 .. Len(old) :
          \E j \in 1 .. Len(new) : Queued(old[m]) \subseteq Queued(new[j])

\* The same for a list with one more order.
LEMMA GrownLevels ==
    ASSUME NEW new \in Seq(PriceLevel), NEW old \in Seq(PriceLevel),
           NEW i \in 1 .. Len(old) + 1, NEW id, NEW v,
           Grows(new, old, i, id, v)
    PROVE  GrownFrom(new, old, i, id, v) /\ GrownTo(new, old, i, id)
<1>0. Len(new) \in Nat /\ Len(old) \in Nat
  BY Lengths
<1>1. CASE /\ i <= Len(old) /\ Len(new) = Len(old)
           /\ \A j \in 1 .. Len(new) : j # i => new[j] = old[j]
           /\ new[i].volume = old[i].volume + v
           /\ Queued(new[i]) = Queued(old[i]) \cup {id}
  <2>1. GrownFrom(new, old, i, id, v)
    BY <1>0, <1>1 DEF GrownFrom
  <2>2. GrownTo(new, old, i, id)
    BY <1>0, <1>1 DEF GrownTo
  <2> QED
    BY <2>1, <2>2
<1>2. CASE /\ Len(new) = Len(old) + 1
           /\ \A j \in 1 .. Len(new) :
                 j # i => new[j] = IF j < i THEN old[j] ELSE old[j-1]
           /\ new[i].volume = v
           /\ Queued(new[i]) = {id}
  <2>1. ASSUME NEW j \in 1 .. Len(new), j # i
        PROVE  \E m \in 1 .. Len(old) : new[j] = old[m]
    <3>1. CASE j < i
      <4>1. j \in 1 .. Len(old)
        BY <1>0, <1>2, <3>1
      <4> QED
        BY <1>2, <2>1, <3>1, <4>1
    <3>2. CASE ~(j < i)
      <4>1. j - 1 \in 1 .. Len(old)
        BY <1>0, <1>2, <2>1, <3>2
      <4> QED
        BY <1>2, <2>1, <3>2, <4>1
    <3> QED
      BY <3>1, <3>2
  <2>2. ASSUME NEW m \in 1 .. Len(old)
        PROVE  \E j \in 1 .. Len(new) : new[j] = old[m]
    <3>1. CASE m < i
      <4>1. m \in 1 .. Len(new) /\ m # i
        BY <1>0, <1>2, <3>1
      <4> QED
        BY <1>2, <3>1, <4>1
    <3>2. CASE ~(m < i)
      <4>1. m + 1 \in 1 .. Len(new) /\ ~(m + 1 < i) /\ m + 1 # i /\ (m + 1) - 1 = m
        BY <1>0, <1>2, <3>2
      <4> QED
        BY <1>2, <4>1
    <3> QED
      BY <3>1, <3>2
  <2>3. i \in 1 .. Len(new)
    BY <1>0, <1>2
  <2>4. GrownFrom(new, old, i, id, v)
    BY <1>2, <2>1 DEF GrownFrom
  <2>5. GrownTo(new, old, i, id)
    BY <1>2, <2>2, <2>3 DEF GrownTo
  <2> QED
    BY <2>4, <2>5
<1> QED
  BY <1>1, <1>2 DEF Grows

\* Book c is book b with other levels on a side.
Becomes(c, b, side, new) == c = [b EXCEPT ![side] = new]

\* The order that leaves is the only one that does.
LEMMA ShrunkBook ==
    ASSUME NEW b \in Books, OneLevel(b), NEW side \in Sides,
           NEW new \in Seq(PriceLevel), NEW c, Becomes(c, b, side, new),
           NEW i \in 1 .. Len(b[side]), NEW id \in Queued(b[side][i]),
           NEW q, NEW gone, NoneOr(gone, id),
           Shrinks(new, b[side], i, id, q, gone)
    PROVE  \A x : QueuedIn(c, x) <=> QueuedIn(b, x) /\ x \notin gone
<1>0. /\ \A s \in Sides : c[s] = IF s = side THEN new ELSE b[s]
      /\ b[side] \in Seq(PriceLevel)
  BY DEF Books, Becomes
<1>1. \A j \in 1 .. Len(new) :
          \/ \E m \in 1 .. Len(b[side]) : m # i /\ new[j] = b[side][m]
          \/ j = i /\ Queued(new[i]) = Queued(b[side][i]) \ gone
  <2>1. ShrunkFrom(new, b[side], i, id, q, gone) /\ ShrunkTo(new, b[side], i, id, gone)
    BY <1>0, ShrunkLevels
  <2> QED
    BY <2>1 DEF ShrunkFrom, ShrunkTo
<1>2. \A m \in 1 .. Len(b[side]) :
          \/ m # i /\ \E j \in 1 .. Len(new) : new[j] = b[side][m]
          \/ m = i /\ gone = {id} /\ Queued(b[side][m]) = {id}
          \/ /\ m = i /\ i \in 1 .. Len(new)
             /\ Queued(new[i]) = Queued(b[side][i]) \ gone
  <2>1. ShrunkFrom(new, b[side], i, id, q, gone) /\ ShrunkTo(new, b[side], i, id, gone)
    BY <1>0, ShrunkLevels
  <2> QED
    BY <2>1 DEF ShrunkFrom, ShrunkTo
<1>3. \A s \in Sides : \A j \in 1 .. Len(b[s]) :
          id \in Queued(b[s][j]) => s = side /\ j = i
  BY DEF OneLevel
<1>4. ASSUME NEW x, QueuedIn(c, x)
      PROVE  QueuedIn(b, x) /\ x \notin gone
  <2>1. PICK s \in Sides : \E j \in 1 .. Len(c[s]) : x \in Queued(c[s][j])
    BY <1>4 DEF QueuedIn
  <2>2. PICK j \in 1 .. Len(c[s]) : x \in Queued(c[s][j])
    BY <2>1
  <2>3. CASE s # side
    <3>1. j \in 1 .. Len(b[s]) /\ x \in Queued(b[s][j])
      BY <1>0, <2>2, <2>3
    <3> QED
      BY <1>3, <2>3, <3>1 DEF QueuedIn, NoneOr
  <2>4. CASE s = side
    <3>1. j \in 1 .. Len(new) /\ x \in Queued(new[j])
      BY <1>0, <2>2, <2>4
    <3>2. CASE \E m \in 1 .. Len(b[side]) : m # i /\ new[j] = b[side][m]
      <4>1. PICK m \in 1 .. Len(b[side]) : m # i /\ new[j] = b[side][m]
        BY <3>2
      <4>2. x \in Queued(b[side][m])
        BY <3>1, <4>1
      <4> QED
        BY <1>3, <4>1, <4>2 DEF QueuedIn, NoneOr
    <3>3. CASE j = i /\ Queued(new[i]) = Queued(b[side][i]) \ gone
      <4>1. x \in Queued(b[side][i]) /\ x \notin gone
        BY <3>1, <3>3
      <4> QED
        BY <4>1 DEF QueuedIn
    <3> QED
      BY <1>1, <3>1, <3>2, <3>3
  <2> QED
    BY <2>3, <2>4
<1>5. ASSUME NEW x, QueuedIn(b, x), x \notin gone
      PROVE  QueuedIn(c, x)
  <2>1. PICK s \in Sides : \E j \in 1 .. Len(b[s]) : x \in Queued(b[s][j])
    BY <1>5 DEF QueuedIn
  <2>2. PICK m \in 1 .. Len(b[s]) : x \in Queued(b[s][m])
    BY <2>1
  <2>3. CASE s # side
    BY <1>0, <2>2, <2>3 DEF QueuedIn
  <2>4. CASE s = side
    <3> SUFFICES \E j \in 1 .. Len(new) : x \in Queued(new[j])
      BY <1>0 DEF QueuedIn
    <3>1. CASE m # i /\ \E j \in 1 .. Len(new) : new[j] = b[side][m]
      <4>1. PICK j \in 1 .. Len(new) : new[j] = b[side][m]
        BY <3>1
      <4> QED
        BY <2>2, <2>4, <4>1
    <3>2. CASE m = i /\ gone = {id} /\ Queued(b[side][m]) = {id}
      BY <1>5, <2>2, <2>4, <3>2
    <3>3. CASE /\ m = i /\ i \in 1 .. Len(new)
               /\ Queued(new[i]) = Queued(b[side][i]) \ gone
      BY <1>5, <2>2, <2>4, <3>3
    <3> QED
      BY <1>2, <2>2, <2>4, <3>1, <3>2, <3>3
  <2> QED
    BY <2>3, <2>4
<1> QED
  BY <1>4, <1>5

\* The order that is added is the only one that is.
LEMMA GrownBook ==
    ASSUME NEW b \in Books, NEW side \in Sides,
           NEW new \in Seq(PriceLevel), NEW c, Becomes(c, b, side, new),
           NEW i \in 1 .. Len(b[side]) + 1, NEW id, NEW v,
           Grows(new, b[side], i, id, v)
    PROVE  \A x : QueuedIn(c, x) <=> QueuedIn(b, x) \/ x = id
<1>0. /\ \A s \in Sides : c[s] = IF s = side THEN new ELSE b[s]
      /\ b[side] \in Seq(PriceLevel)
  BY DEF Books, Becomes
<1>1. /\ i \in 1 .. Len(new) /\ id \in Queued(new[i])
      /\ \A j \in 1 .. Len(new) :
            \/ \E m \in 1 .. Len(b[side]) : new[j] = b[side][m]
            \/ i \in 1 .. Len(b[side]) /\ Queued(new[j]) = Queued(b[side][i]) \cup {id}
            \/ Queued(new[j]) = {id}
      /\ \A m \in 1 .. Len(b[side]) :
            \E j \in 1 .. Len(new) : Queued(b[side][m]) \subseteq Queued(new[j])
  <2>1. GrownFrom(new, b[side], i, id, v) /\ GrownTo(new, b[side], i, id)
    BY <1>0, GrownLevels
  <2> QED
    BY <2>1 DEF GrownFrom, GrownTo
<1>2. ASSUME NEW x, QueuedIn(c, x), x # id PROVE QueuedIn(b, x)
  <2>1. PICK s \in Sides : \E j \in 1 .. Len(c[s]) : x \in Queued(c[s][j])
    BY <1>2 DEF QueuedIn
  <2>2. PICK j \in 1 .. Len(c[s]) : x \in Queued(c[s][j])
    BY <2>1
  <2>3. CASE s # side
    BY <1>0, <2>2, <2>3 DEF QueuedIn
  <2>4. CASE s = side
    <3>1. j \in 1 .. Len(new) /\ x \in Queued(new[j])
      BY <1>0, <2>2, <2>4
    <3>2. \E m \in 1 .. Len(b[side]) : x \in Queued(b[side][m])
      BY <1>1, <1>2, <3>1
    <3> QED
      BY <3>2 DEF QueuedIn
  <2> QED
    BY <2>3, <2>4
<1>3. ASSUME NEW x, QueuedIn(b, x) PROVE QueuedIn(c, x)
  <2>1. PICK s \in Sides : \E j \in 1 .. Len(b[s]) : x \in Queued(b[s][j])
    BY <1>3 DEF QueuedIn
  <2>2. PICK m \in 1 .. Len(b[s]) : x \in Queued(b[s][m])
    BY <2>1
  <2>3. CASE s # side
    BY <1>0, <2>2, <2>3 DEF QueuedIn
  <2>4. CASE s = side
    <3>1. \E j \in 1 .. Len(new) : x \in Queued(new[j])
      BY <1>1, <2>2, <2>4
    <3> QED
      BY <1>0, <3>1 DEF QueuedIn
  <2> QED
    BY <2>3, <2>4
<1>4. QueuedIn(c, id)
  BY <1>0, <1>1 DEF QueuedIn
<1> QED
  BY <1>2, <1>3, <1>4

(***************************************************************************)
(* Volumes.                                                                *)
(***************************************************************************)
\* The volumes of the levels are what h says their orders have left.
Exact(b, h) ==
    \A s \in Sides : \A j \in 1 .. Len(b[s]) :
        b[s][j].volume = SumOver(h, Queued(b[s][j]))

\* VolumeExact, now and after a step.
LEMMA ExactNow == VolumeExact <=> Exact(book, Left)
  BY SumNames DEF VolumeExact, Exact, Queued

LEMMA ExactThen == VolumeExact' <=> Exact(book', Left')
<1>1. VolumeExact' <=>
        \A s \in Sides : \A j \in 1 .. Len(book'[s]) :
            book'[s][j].volume = SumFunctionOnSet(Left', ToSet(book'[s][j].queue))
  BY DEF VolumeExact
<1> QED
  BY <1>1, SumNames DEF Exact, Queued

\* Orders that are not in the book have no part in its volumes.
LEMMA ExactSame ==
    ASSUME NEW b \in Books, NEW h, NEW k, Exact(b, h),
           \A x \in OrderIds : QueuedIn(b, x) => k[x] = h[x]
    PROVE  Exact(b, k)
<1> SUFFICES ASSUME NEW s \in Sides, NEW j \in 1 .. Len(b[s])
             PROVE  b[s][j].volume = SumOver(k, Queued(b[s][j]))
  BY DEF Exact
<1> DEFINE set == Queued(b[s][j])
<1>1. set \subseteq OrderIds /\ IsFiniteSet(set)
  BY QueuedAt
<1>2. \A x \in set : QueuedIn(b, x)
  BY DEF QueuedIn
<1> HIDE DEF set
<1>3. SumOver(h, set) = SumOver(k, set)
  BY <1>1, <1>2, SumSame
<1> QED
  BY <1>3 DEF Exact, set

\* h becomes k: order id of book b loses q, be it all it had.
Loses(h, k, b, id, q, gone) ==
    /\ \A x \in OrderIds : h[x] \in Int /\ k[x] \in Int
    /\ \A x \in OrderIds : QueuedIn(b, x) /\ x # id => k[x] = h[x]
    /\ IF gone = {id} THEN h[id] = q ELSE k[id] = h[id] - q

\* Volumes stay exact then.
LEMMA ExactShrunk ==
    ASSUME NEW b \in Books, OneLevel(b), NEW side \in Sides,
           NEW new \in Seq(PriceLevel), NEW c, Becomes(c, b, side, new),
           NEW i \in 1 .. Len(b[side]), NEW id \in Queued(b[side][i]),
           NEW q \in Int, NEW gone, NoneOr(gone, id),
           Shrinks(new, b[side], i, id, q, gone),
           NEW h, NEW k, Exact(b, h), Loses(h, k, b, id, q, gone)
    PROVE  Exact(c, k)
<1> /\ \A x \in OrderIds : h[x] \in Int /\ k[x] \in Int
    /\ \A x \in OrderIds : QueuedIn(b, x) /\ x # id => k[x] = h[x]
    /\ IF gone = {id} THEN h[id] = q ELSE k[id] = h[id] - q
  BY DEF Loses
<1>0. /\ \A s \in Sides : c[s] = IF s = side THEN new ELSE b[s]
      /\ b[side] \in Seq(PriceLevel)
  BY DEF Books, Becomes
<1>1. \A j \in 1 .. Len(new) :
          \/ \E m \in 1 .. Len(b[side]) : m # i /\ new[j] = b[side][m]
          \/ /\ j = i /\ new[i].volume = b[side][i].volume - q
             /\ Queued(new[i]) = Queued(b[side][i]) \ gone
  <2>1. ShrunkFrom(new, b[side], i, id, q, gone) /\ ShrunkTo(new, b[side], i, id, gone)
    BY <1>0, ShrunkLevels
  <2> QED
    BY <2>1 DEF ShrunkFrom, ShrunkTo
<1>2. ASSUME NEW s \in Sides, NEW m \in 1 .. Len(b[s]), ~(s = side /\ m = i)
      PROVE  b[s][m].volume = SumOver(k, Queued(b[s][m]))
  <2> DEFINE set == Queued(b[s][m])
  <2>1. set \subseteq OrderIds /\ IsFiniteSet(set)
    BY QueuedAt
  <2>2. id \notin set
    BY <1>2 DEF OneLevel
  <2>3. \A x \in set : QueuedIn(b, x)
    BY DEF QueuedIn
  <2> HIDE DEF set
  <2>4. \A x \in set : h[x] = k[x]
    BY <2>1, <2>2, <2>3
  <2>5. SumOver(h, set) = SumOver(k, set)
    BY <2>1, <2>4, SumSame
  <2>6. b[s][m].volume = SumOver(h, set)
    BY DEF Exact, set
  <2> QED
    BY <2>5, <2>6 DEF set
<1>3. ASSUME NEW vol, NEW rest, vol = b[side][i].volume - q,
             rest = Queued(b[side][i]) \ gone
      PROVE  vol = SumOver(k, rest)
  <2> DEFINE set == Queued(b[side][i])
             before == SumOver(h, set)
             after == SumOver(k, rest)
  <2>1. set \subseteq OrderIds /\ IsFiniteSet(set) /\ id \in set
    BY QueuedAt
  <2>2. \A x \in set : QueuedIn(b, x)
    BY DEF QueuedIn
  <2>3. vol = before - q
    BY <1>3 DEF Exact
  <2>4. rest = set \ gone
    BY <1>3
  <2> HIDE DEF set
  <2>5. \A x \in set : x # id => k[x] = h[x]
    BY <2>1, <2>2
  <2>6. \A x \in set : h[x] \in Int /\ k[x] \in Int
    BY <2>1
  <2>7. CASE gone = {id}
    <3>1. SumOver(h, set) = h[id] + SumOver(h, set \ {id})
      BY <2>1, <2>6, SumTakes
    <3>2. IsFiniteSet(set \ {id}) /\ \A x \in set \ {id} : h[x] \in Int /\ h[x] = k[x]
      BY <2>1, <2>5, <2>6, FS_Subset
    <3>3. SumOver(h, set \ {id}) = SumOver(k, set \ {id})
      BY <3>2, SumSame
    <3>4. SumOver(h, set \ {id}) \in Int
      BY <3>2, SumInteger
    <3>5. rest = set \ {id} /\ h[id] = q
      BY <2>4, <2>7
    <3>6. before = q + after /\ after \in Int
      BY <3>1, <3>3, <3>4, <3>5
    <3> HIDE DEF before, after
    <3>7. vol = after
      BY <2>3, <3>6
    <3> QED
      BY <3>7 DEF after
  <2>8. CASE gone = {}
    <3>1. /\ SumOver(h, set) \in Int /\ SumOver(k, set) \in Int
          /\ SumOver(k, set) = SumOver(h, set) + (k[id] - h[id])
      BY <2>1, <2>5, <2>6, SumChange
    <3>2. rest = set /\ k[id] = h[id] - q /\ h[id] \in Int
      BY <2>1, <2>4, <2>6, <2>8
    <3>3. after = before + (k[id] - h[id]) /\ before \in Int
      BY <3>1, <3>2
    <3> HIDE DEF before, after
    <3>4. vol = after
      BY <2>3, <3>2, <3>3
    <3> QED
      BY <3>4 DEF after
  <2> QED
    BY <2>7, <2>8 DEF NoneOr
<1>4. ASSUME NEW j \in 1 .. Len(new)
      PROVE  new[j].volume = SumOver(k, Queued(new[j]))
  <2>1. CASE \E m \in 1 .. Len(b[side]) : m # i /\ new[j] = b[side][m]
    BY <1>2, <2>1
  <2>2. CASE /\ j = i /\ new[i].volume = b[side][i].volume - q
             /\ Queued(new[i]) = Queued(b[side][i]) \ gone
    BY <1>3, <2>2
  <2> QED
    BY <1>1, <2>1, <2>2
<1>5. ASSUME NEW s \in Sides, NEW j \in 1 .. Len(c[s])
      PROVE  c[s][j].volume = SumOver(k, Queued(c[s][j]))
  <2>1. CASE s = side
    BY <1>0, <1>4, <2>1
  <2>2. CASE s # side
    BY <1>0, <1>2, <2>2
  <2> QED
    BY <2>1, <2>2
<1> QED
  BY <1>5 DEF Exact

\* Volumes stay exact when an order that has v left is added.
LEMMA ExactGrown ==
    ASSUME NEW b \in Books, NEW side \in Sides,
           NEW new \in Seq(PriceLevel), NEW c, Becomes(c, b, side, new),
           NEW i \in 1 .. Len(b[side]) + 1, NEW id \in OrderIds, ~QueuedIn(b, id),
           NEW h, Grows(new, b[side], i, id, h[id]), Exact(b, h),
           \A x \in OrderIds : h[x] \in Int
    PROVE  Exact(c, h)
<1>0. /\ \A s \in Sides : c[s] = IF s = side THEN new ELSE b[s]
      /\ b[side] \in Seq(PriceLevel)
  BY DEF Books, Becomes
<1>1. \A j \in 1 .. Len(new) :
          \/ \E m \in 1 .. Len(b[side]) : new[j] = b[side][m]
          \/ /\ j = i /\ i \in 1 .. Len(b[side])
             /\ new[i].volume = b[side][i].volume + h[id]
             /\ Queued(new[i]) = Queued(b[side][i]) \cup {id}
          \/ j = i /\ new[i].volume = h[id] /\ Queued(new[i]) = {id}
  <2>1. GrownFrom(new, b[side], i, id, h[id])
    BY <1>0, GrownLevels
  <2> QED
    BY <2>1 DEF GrownFrom
<1>2. \A s \in Sides : \A m \in 1 .. Len(b[s]) :
          b[s][m].volume = SumOver(h, Queued(b[s][m]))
  BY DEF Exact
<1>3. ASSUME i \in 1 .. Len(b[side])
      PROVE  b[side][i].volume + h[id] = SumOver(h, Queued(b[side][i]) \cup {id})
  <2> DEFINE set == Queued(b[side][i])
  <2>1. set \subseteq OrderIds /\ IsFiniteSet(set)
    BY <1>3, QueuedAt
  <2>2. id \notin set
    BY <1>3 DEF QueuedIn
  <2>3. b[side][i].volume = SumOver(h, set)
    BY <1>2, <1>3
  <2> HIDE DEF set
  <2>4. \A x \in set \cup {id} : h[x] \in Int
    BY <2>1
  <2>5. SumOver(h, set \cup {id}) = SumOver(h, set) + h[id]
    BY <2>1, <2>2, <2>4, SumInsert
  <2> QED
    BY <2>3, <2>5 DEF set
<1>4. h[id] = SumOver(h, {id})
  <2>1. IsFiniteSet({}) /\ {} \cup {id} = {id} /\ \A x \in {} \cup {id} : h[x] \in Int
    BY FS_EmptySet
  <2>2. SumOver(h, {} \cup {id}) = SumOver(h, {}) + h[id]
    BY <2>1, SumInsert
  <2>3. SumOver(h, {}) = 0 /\ h[id] \in Int
    BY SumEmpty
  <2> QED
    BY <2>1, <2>2, <2>3
<1>5. ASSUME NEW j \in 1 .. Len(new)
      PROVE  new[j].volume = SumOver(h, Queued(new[j]))
  <2>1. CASE \E m \in 1 .. Len(b[side]) : new[j] = b[side][m]
    BY <1>2, <2>1
  <2>2. CASE /\ j = i /\ i \in 1 .. Len(b[side])
             /\ new[i].volume = b[side][i].volume + h[id]
             /\ Queued(new[i]) = Queued(b[side][i]) \cup {id}
    BY <1>3, <2>2
  <2>3. CASE j = i /\ new[i].volume = h[id] /\ Queued(new[i]) = {id}
    BY <1>4, <2>3
  <2> QED
    BY <1>1, <2>1, <2>2, <2>3
<1>6. ASSUME NEW s \in Sides, NEW j \in 1 .. Len(c[s])
      PROVE  c[s][j].volume = SumOver(h, Queued(c[s][j]))
  <2>1. CASE s = side
    BY <1>0, <1>5, <2>1
  <2>2. CASE s # side
    BY <1>0, <1>2, <2>2
  <2> QED
    BY <2>1, <2>2
<1> QED
  BY <1>6 DEF Exact

(***************************************************************************)
(* What the actions do to orders.                                          *)
(***************************************************************************)
\* What a request asked for stays as it is.
SameRequest(o, r) ==
    /\ r.side = o.side /\ r.type = o.type /\ r.tif = o.tif
    /\ r.price = o.price /\ r.qty = o.qty

\* Only the status of order id changes, and it becomes st.
StatusSet(id, st) ==
    /\ order' \in [OrderIds -> Order]
    /\ \A x \in OrderIds : x # id => order'[x] = order[x]
    /\ SameRequest(order[id], order'[id])
    /\ order'[id].filled = order[id].filled
    /\ order'[id].status = st

\* Assigning a status changes nothing else.
LEMMA SettingStatus ==
    ASSUME order \in [OrderIds -> Order], NEW id \in OrderIds, NEW st \in Statuses,
           order' = [order EXCEPT ![id].status = st]
    PROVE  StatusSet(id, st)
<1> DEFINE o == order[id]
           r == [o EXCEPT !.status = st]
<1>1. o \in Order /\ order' = [order EXCEPT ![id] = r]
  OBVIOUS
<1> HIDE DEF o
<1>2. r \in Order /\ SameRequest(o, r) /\ r.filled = o.filled /\ r.status = st
  BY <1>1 DEF Order, SameRequest
<1> HIDE DEF r
<1> QED
  BY <1>1, <1>2 DEF StatusSet, o

\* Order id is new, has not traded and has the status st; req is what it asks for.
Submitted(id, req, st) ==
    /\ order' \in [OrderIds -> Order]
    /\ \A x \in OrderIds : x # id => order'[x] = order[x]
    /\ SameRequest(req, order'[id])
    /\ order'[id].filled = 0
    /\ order'[id].status = st

\* Writing a new order changes no other.
LEMMA Submitting ==
    ASSUME order \in [OrderIds -> Order], NEW id \in OrderIds, NEW req \in Requests,
           NEW st \in Statuses, NEW o, o = NewOrder(req, st),
           order' = [order EXCEPT ![id] = o]
    PROVE  Submitted(id, req, st)
<1>1. o \in Order /\ SameRequest(req, o) /\ o.filled = 0 /\ o.status = st
  BY RequestsAssumption DEF RequestType, NewOrder, Order, SameRequest
<1> QED
  BY <1>1 DEF Submitted

\* Order id has traded q more.
Filled(id, q, st) ==
    /\ SameRequest(order[id], order'[id])
    /\ order'[id].filled = order[id].filled + q
    /\ order'[id].status = st

\* What Fill changes.
LEMMA Filling ==
    ASSUME NEW o \in Order, NEW q \in Nat, NEW done \in BOOLEAN
    PROVE  /\ Fill(o, q, done) \in Order
           /\ SameRequest(o, Fill(o, q, done))
           /\ Fill(o, q, done).filled = o.filled + q
           /\ Fill(o, q, done).status = IF done THEN "filled" ELSE o.status
<1> DEFINE filled == o.filled + q
           status == IF done THEN "filled" ELSE o.status
<1>1. filled \in Nat /\ status \in Statuses
  BY DEF Order, Statuses
<1>2. Fill(o, q, done) = [o EXCEPT !.filled = filled, !.status = status]
  BY DEF Fill
<1> HIDE DEF filled, status
<1>3. LET r == [o EXCEPT !.filled = filled, !.status = status]
      IN  /\ r \in Order /\ SameRequest(o, r)
          /\ r.filled = filled /\ r.status = status
  BY <1>1 DEF Order, SameRequest
<1> QED
  BY <1>2, <1>3 DEF filled, status

\* One iteration of the match loop: the taker trades q with the maker.
MatchStep(opp, maker, q, done) ==
    /\ opp = Opposite(order[taker].side) /\ opp \in Sides
    /\ phase = "matching" /\ phase' = phase /\ taker' = taker /\ trades' = trades
    /\ taker \in OrderIds /\ maker \in OrderIds /\ maker # taker
    /\ order[taker].status = "created" /\ order[maker].status = "open"
    /\ At(opp, 1, 1, maker)
    /\ Crosses(order[taker], order[maker].price)
    /\ q \in Nat /\ q > 0
    /\ q <= Remaining(order[taker]) /\ q <= Remaining(order[maker])
    /\ done \in BOOLEAN /\ (done <=> Remaining(order[maker]) = q)
    /\ matches' = Append(matches, [taker |-> taker, maker |-> maker,
                                   price |-> order[maker].price, qty |-> q])
    /\ book' = [book EXCEPT ![opp] = Consume(book[opp], q, done)]
    /\ Consume(book[opp], q, done) \in Seq(PriceLevel)
    /\ order' \in [OrderIds -> Order]
    /\ \A x \in OrderIds : x # taker /\ x # maker => order'[x] = order[x]
    /\ Filled(taker, q, "created")
    /\ Filled(maker, q, IF done THEN "filled" ELSE "open")

\* Match is such a step.
LEMMA MatchEffect ==
    ASSUME IInv, Match
    PROVE  \E opp, maker, q, done : MatchStep(opp, maker, q, done)
<1> DEFINE opp == Opposite(order[taker].side)
           maker == Head(Facing[1].queue)
           q == TradeQty(taker, maker)
           done == Remaining(order[maker]) = q
           m == [taker |-> taker, maker |-> maker,
                 price |-> order[maker].price, qty |-> q]
           took == Fill(order[taker], q, FALSE)
           gave == Fill(order[maker], q, done)
           new == Consume(book[opp], q, done)
<1>1. /\ phase = "matching" /\ CanMatch
      /\ matches' = Append(matches, m)
      /\ order' = [order EXCEPT ![taker] = Fill(@, q, FALSE),
                                ![maker] = Fill(@, q, done)]
      /\ book' = [book EXCEPT ![opp] = new]
      /\ phase' = phase /\ taker' = taker /\ trades' = trades
  BY DEF Match
<1>2. /\ taker \in OrderIds /\ maker \in OrderIds /\ maker # taker
      /\ order[taker].status = "created"
      /\ At(opp, 1, 1, maker)
      /\ order[maker].status = "open"
      /\ q \in Nat /\ q > 0
      /\ q <= Remaining(order[taker]) /\ q <= Remaining(order[maker])
  BY <1>1, MatchFacts
<1>3. /\ order \in [OrderIds -> Order] /\ book \in [Sides -> Seq(PriceLevel)]
      /\ opp \in Sides
  BY DEF IInv, TypeOK, Opposite, Sides
<1>4. /\ Facing = book[opp] /\ book[opp] # <<>>
      /\ Crosses(order[taker], book[opp][1].price)
  BY <1>1 DEF CanMatch, Facing
<1>5. done \in BOOLEAN
  OBVIOUS
<1> HIDE DEF opp, maker, q
<1>6. Crosses(order[taker], order[maker].price)
  <2>1. BookWellFormed
    BY DEF IInv
  <2>2. order[maker].price = book[opp][1].price
    BY <1>2, <1>3, <2>1, SoundSeat
  <2> QED
    BY <1>4, <2>2
<1>7. order' = [order EXCEPT ![taker] = took, ![maker] = gave]
  <2> HIDE DEF done
  <2> QED
    BY <1>1, <1>2, <1>3
<1>8. order[taker] \in Order /\ order[maker] \in Order
  BY <1>2, <1>3
<1>9. /\ took \in Order /\ SameRequest(order[taker], took)
      /\ took.filled = order[taker].filled + q /\ took.status = "created"
  BY <1>2, <1>8, Filling
<1>10. /\ gave \in Order /\ SameRequest(order[maker], gave)
       /\ gave.filled = order[maker].filled + q
       /\ gave.status = IF done THEN "filled" ELSE "open"
  <2> HIDE DEF done
  <2> QED
    BY <1>2, <1>5, <1>8, Filling
<1> HIDE DEF took, gave
<1>11. \A x \in OrderIds :
          order'[x] = IF x = maker THEN gave ELSE IF x = taker THEN took ELSE order[x]
  BY <1>2, <1>3, <1>7
<1>12. order' \in [OrderIds -> Order]
  BY <1>2, <1>3, <1>7, <1>9, <1>10
<1>13. new \in Seq(PriceLevel)
  <2>1. NoneEmpty(book[opp])
    BY <1>3 DEF IInv, BookWellFormed, QueuesSound, NoneEmpty
  <2>2. q \in Int /\ book[opp] \in Seq(PriceLevel)
    BY <1>2, <1>3
  <2> HIDE DEF done
  <2> QED
    BY <1>4, <1>5, <2>1, <2>2, ConsumeThins
<1>14. /\ \A x \in OrderIds : x # taker /\ x # maker => order'[x] = order[x]
       /\ Filled(taker, q, "created")
       /\ Filled(maker, q, IF done THEN "filled" ELSE "open")
  <2> HIDE DEF done
  <2> QED
    BY <1>2, <1>9, <1>10, <1>11 DEF Filled
<1>15. done <=> Remaining(order[maker]) = q
  OBVIOUS
<1>16. opp = Opposite(order[taker].side)
  BY DEF opp
<1> HIDE DEF new, m, done
<1>17. MatchStep(opp, maker, q, done)
  BY <1>1, <1>2, <1>3, <1>5, <1>6, <1>12, <1>13, <1>14, <1>15, <1>16 DEF MatchStep, new, m
<1> QED
  BY <1>17

\* The end of MatchOrder.
FinishStep(out) ==
    /\ phase = "matching" /\ ~CanMatch
    /\ taker \in OrderIds /\ order[taker].status = "created"
    /\ out = Outcome(order[taker])
    /\ StatusSet(taker, out)
    /\ book' = book /\ matches' = <<>>
    /\ trades' = IF out = "cancelled" /\ order[taker].tif = "FOK"
                 THEN trades ELSE trades \o matches
    /\ \/ out \in {"filled", "cancelled"} /\ phase' = "idle" /\ taker' = NoOrder
       \/ out = "created" /\ phase' = "resting" /\ taker' = taker

\* FinishMatch is such a step.
LEMMA FinishEffect ==
    ASSUME IInv, FinishMatch
    PROVE  FinishStep(Outcome(order[taker]))
<1> DEFINE o == order[taker]
           out == Outcome(o)
<1>1. /\ phase = "matching" /\ ~CanMatch
      /\ order' = [order EXCEPT ![taker].status = out]
      /\ trades' = IF out = "cancelled" /\ o.tif = "FOK" THEN trades ELSE trades \o matches
      /\ matches' = <<>>
      /\ \/ IsFinal(out) /\ phase' = "idle" /\ taker' = NoOrder
         \/ ~IsFinal(out) /\ phase' = "resting" /\ taker' = taker
      /\ book' = book
  BY DEF FinishMatch
<1>2. /\ order \in [OrderIds -> Order]
      /\ taker \in OrderIds /\ o.status = "created"
  BY <1>1 DEF IInv, TypeOK, TakerSound
<1>3. out \in {"filled", "cancelled", "created"}
  BY <1>2 DEF Outcome
<1>4. IsFinal(out) <=> out \in {"filled", "cancelled"}
  BY <1>3 DEF IsFinal
<1> HIDE DEF out
<1>5. StatusSet(taker, out)
  <2>1. out \in Statuses
    BY <1>3 DEF Statuses
  <2> QED
    BY <1>1, <1>2, <2>1, SettingStatus
<1>6. FinishStep(out)
  BY <1>1, <1>2, <1>3, <1>4, <1>5 DEF FinishStep, out
<1> QED
  BY <1>6 DEF out

\* The rest of an order comes to rest as the last of level i.
AddStep(side, i) ==
    /\ side = order[taker].side /\ side \in Sides
    /\ phase = "resting" /\ phase' = "idle" /\ taker' = NoOrder
    /\ matches' = matches /\ trades' = trades /\ matches = <<>>
    /\ taker \in OrderIds /\ order[taker].status = "created"
    /\ Remaining(order[taker]) > 0
    /\ StatusSet(taker, "open")
    /\ i \in 1 .. Len(book[side]) + 1
    /\ IsInsertionPoint(i, book[side], side, order[taker].price)
    /\ book' = [book EXCEPT ![side] = AddAt(book[side], i, taker)]
    /\ AddAt(book[side], i, taker) \in Seq(PriceLevel)

\* AddToBook is such a step.
LEMMA AddEffect ==
    ASSUME IInv, AddToBook
    PROVE  \E side, i : AddStep(side, i)
<1> DEFINE side == order[taker].side
<1>1. /\ phase = "resting" /\ phase' = "idle" /\ taker' = NoOrder
      /\ order' = [order EXCEPT ![taker].status = "open"]
      /\ matches' = matches /\ trades' = trades
  BY DEF AddToBook
<1>2. PICK i \in 1 .. Len(book[side]) + 1 :
         /\ IsInsertionPoint(i, book[side], side, order[taker].price)
         /\ book' = [book EXCEPT ![side] = AddAt(book[side], i, taker)]
  BY DEF AddToBook
<1>3. /\ order \in [OrderIds -> Order] /\ book \in [Sides -> Seq(PriceLevel)]
      /\ taker \in OrderIds /\ order[taker].status = "created"
      /\ matches = <<>>
      /\ Remaining(order[taker]) > 0
  BY <1>1 DEF IInv, TypeOK, TakerSound, MatchesSound, RestSound
<1>4. order[taker] \in Order /\ side \in Sides
  BY <1>3 DEF Order
<1> HIDE DEF side
<1>5. AddAt(book[side], i, taker) \in Seq(PriceLevel)
  <2>1. NoneEmpty(book[side]) /\ Sorted(side, book[side])
    BY <1>4 DEF IInv, BookWellFormed, QueuesSound, LevelsSorted, NoneEmpty, Sorted
  <2>2. book[side] \in Seq(PriceLevel)
    BY <1>3, <1>4
  <2> QED
    BY <1>2, <1>3, <1>4, <2>1, <2>2, AddPlaces
<1>6. StatusSet(taker, "open")
  <2>1. "open" \in Statuses
    BY DEF Statuses
  <2> QED
    BY <1>1, <1>3, <2>1, SettingStatus
<1>7. side = order[taker].side
  BY DEF side
<1>8. AddStep(side, i)
  BY <1>1, <1>2, <1>3, <1>4, <1>5, <1>6, <1>7 DEF AddStep
<1> QED
  BY <1>8

\* Order id, the k-th of level i of side, is taken out of the book.
CancelStep(side, i, k, id) ==
    /\ side \in Sides /\ i \in 1 .. Len(book[side])
    /\ k \in 1 .. Len(book[side][i].queue) /\ At(side, i, k, id)
    /\ phase = "idle" /\ phase' = phase /\ taker' = taker
    /\ matches' = matches /\ trades' = trades
    /\ order[id].status = "open"
    /\ StatusSet(id, "cancelled")
    /\ book' = [book EXCEPT ![side] = Drop(book[side], i, k)]
    /\ Drop(book[side], i, k) \in Seq(PriceLevel)

\* CancelOrder is such a step.
LEMMA CancelEffect ==
    ASSUME IInv, NEW id \in OrderIds, CancelOrder(id)
    PROVE  \E side, i, k : CancelStep(side, i, k, id)
<1>1. /\ phase = "idle" /\ phase' = phase /\ taker' = taker
      /\ order' = [order EXCEPT ![id].status = "cancelled"]
      /\ matches' = matches /\ trades' = trades
  BY DEF CancelOrder, Idle
<1>2. PICK side \in Sides : \E i \in 1 .. Len(book[side]) :
         \E k \in 1 .. Len(book[side][i].queue) :
            /\ At(side, i, k, id)
            /\ book' = [book EXCEPT ![side] = Drop(book[side], i, k)]
  BY DEF CancelOrder
<1>3. PICK i \in 1 .. Len(book[side]) :
         \E k \in 1 .. Len(book[side][i].queue) :
            /\ At(side, i, k, id)
            /\ book' = [book EXCEPT ![side] = Drop(book[side], i, k)]
  BY <1>2
<1>4. PICK k \in 1 .. Len(book[side][i].queue) :
         /\ At(side, i, k, id)
         /\ book' = [book EXCEPT ![side] = Drop(book[side], i, k)]
  BY <1>3
<1>5. /\ order \in [OrderIds -> Order] /\ book \in [Sides -> Seq(PriceLevel)]
      /\ BookWellFormed
  BY DEF IInv, TypeOK
<1>6. Drop(book[side], i, k) \in Seq(PriceLevel)
  <2>1. NoneEmpty(book[side])
    BY <1>5 DEF BookWellFormed, QueuesSound, NoneEmpty
  <2>2. book[side] \in Seq(PriceLevel)
    BY <1>5
  <2> QED
    BY <1>5, <2>1, <2>2, DropThins
<1>7. StatusSet(id, "cancelled")
  <2>1. "cancelled" \in Statuses
    BY DEF Statuses
  <2> QED
    BY <1>1, <1>5, <2>1, SettingStatus
<1>8. order[id].status = "open"
  BY <1>4, <1>5, SoundSeat
<1>9. CancelStep(side, i, k, id)
  BY <1>1, <1>4, <1>6, <1>7, <1>8 DEF CancelStep
<1> QED
  BY <1>9

\* A request is refused, or taken up.
SubmitStep(id, req, st) ==
    /\ phase = "idle" /\ order[id].status = "none"
    /\ Submitted(id, req, st)
    /\ book' = book /\ trades' = trades /\ matches' = <<>>
    /\ \/ /\ st = "rejected" /\ phase' = "idle" /\ taker' = taker
          /\ req.tif = "FOK" \/ req.type = "market"
       \/ /\ st = "created" /\ phase' = "matching" /\ taker' = id
          /\ ~FOKUnfillable(NewOrder(req, "created"))

\* Submit is such a step.
LEMMA SubmitEffect ==
    ASSUME IInv, NEW id \in OrderIds, NEW req \in Requests, Submit(id, req)
    PROVE  \E st : SubmitStep(id, req, st)
<1> DEFINE o == NewOrder(req, "created")
           r == [o EXCEPT !.status = "rejected"]
<1>1. order \in [OrderIds -> Order]
  BY DEF IInv, TypeOK
<1>2. o.tif = req.tif /\ o.type = req.type
  BY DEF NewOrder
<1>3. r = NewOrder(req, "rejected")
  BY DEF NewOrder
<1>4. ASSUME Idle, order[id].status = "none", Refuse(id, o), o.tif = "FOK" \/ o.type = "market"
      PROVE  SubmitStep(id, req, "rejected")
  <2>1. order' = [order EXCEPT ![id] = r]
        /\ book' = book /\ phase' = phase /\ taker' = taker
        /\ matches' = matches /\ trades' = trades
    BY <1>4 DEF Refuse
  <2>2. phase = "idle" /\ matches = <<>>
    BY <1>4 DEF IInv, MatchesSound, Idle
  <2>3. Submitted(id, req, "rejected")
    <3>1. "rejected" \in Statuses
      BY DEF Statuses
    <3> HIDE DEF r
    <3> QED
      BY <1>1, <1>3, <2>1, <3>1, Submitting
  <2> HIDE DEF o, r
  <2> QED
    BY <1>2, <1>4, <2>1, <2>2, <2>3 DEF SubmitStep
<1>5. CASE RejectFOK(id, req)
  <2>1. SubmitStep(id, req, "rejected")
    BY <1>4, <1>5 DEF RejectFOK, FOKUnfillable
  <2> QED
    BY <2>1
<1>6. CASE RejectMarket(id, req)
  <2>1. SubmitStep(id, req, "rejected")
    BY <1>4, <1>6 DEF RejectMarket, NoLiquidity
  <2> QED
    BY <2>1
<1>7. CASE MatchOrder(id, req)
  <2>1. /\ phase = "idle" /\ order[id].status = "none"
        /\ order' = [order EXCEPT ![id] = o]
        /\ phase' = "matching" /\ taker' = id /\ matches' = <<>>
        /\ book' = book /\ trades' = trades
        /\ ~FOKUnfillable(o)
    BY <1>7 DEF MatchOrder, Idle
  <2>2. Submitted(id, req, "created")
    <3>1. "created" \in Statuses
      BY DEF Statuses
    <3>2. order' = [order EXCEPT ![id] = o] /\ o = NewOrder(req, "created")
      BY <2>1
    <3> HIDE DEF o
    <3> QED
      BY <1>1, <3>1, <3>2, Submitting
  <2>3. SubmitStep(id, req, "created")
    BY <2>1, <2>2 DEF SubmitStep
  <2> QED
    BY <2>3
<1> QED
  BY <1>5, <1>6, <1>7 DEF Submit

(***************************************************************************)
(* What the orders of a book have left, and what of it suits an order.     *)
(***************************************************************************)
\* What is left of an order is a number.
LEMMA LeftInt ==
    ASSUME order \in [OrderIds -> Order]
    PROVE  \A x \in OrderIds : Left[x] = Remaining(order[x]) /\ Left[x] \in Int
<1> SUFFICES ASSUME NEW x \in OrderIds
             PROVE  Left[x] = Remaining(order[x]) /\ Left[x] \in Int
  OBVIOUS
<1>1. order[x] \in Order
  OBVIOUS
<1>2. order[x].qty \in Nat /\ order[x].filled \in Nat
  BY <1>1 DEF Order
<1> QED
  BY <1>2 DEF Left, Remaining

\* The same after a step.
LEMMA LeftIntThen ==
    ASSUME order' \in [OrderIds -> Order]
    PROVE  \A x \in OrderIds : Left'[x] = Remaining(order'[x]) /\ Left'[x] \in Int
<1> SUFFICES ASSUME NEW x \in OrderIds
             PROVE  Left'[x] = Remaining(order'[x]) /\ Left'[x] \in Int
  OBVIOUS
<1> DEFINE o == order'[x]
<1>1. o \in Order
  OBVIOUS
<1>2. Left'[x] = Remaining(o)
  BY DEF Left
<1> HIDE DEF o
<1>3. o.qty \in Nat /\ o.filled \in Nat
  BY <1>1 DEF Order
<1> QED
  BY <1>2, <1>3 DEF Remaining, o

\* The orders of some levels of a side are finitely many.
Reach(b, s, n) == UNION { Queued(b[s][j]) : j \in 1 .. n }

\* They are finitely many, and the volumes of the levels add up to what they have left.
LEMMA ReachSum ==
    ASSUME NEW b \in Books, OneLevel(b), NEW s \in Sides, NEW n \in 0 .. Len(b[s]), NEW h,
           \A x \in OrderIds : h[x] \in Int, Exact(b, h)
    PROVE  /\ IsFiniteSet(Reach(b, s, n))
           /\ SumOver([j \in 1 .. n |-> b[s][j].volume], 1 .. n) = SumOver(h, Reach(b, s, n))
<1> DEFINE U == 1 .. n
           part == [j \in U |-> Queued(b[s][j])]
           g == [j \in U |-> b[s][j].volume]
<1>1. Len(b[s]) \in Nat
  BY LenProperties DEF Books
<1>2. IsFiniteSet(U) /\ U \subseteq 1 .. Len(b[s])
  BY <1>1, FS_Interval
<1>3. ASSUME NEW j \in U
      PROVE  /\ IsFiniteSet(part[j]) /\ g[j] = SumOver(h, part[j])
             /\ \A x \in part[j] : h[x] \in Int
  <2> DEFINE P == Queued(b[s][j])
  <2>1. j \in 1 .. Len(b[s]) /\ part[j] = P /\ g[j] = b[s][j].volume
    BY <1>2
  <2>2. IsFiniteSet(P) /\ P \subseteq OrderIds
    BY <2>1, QueuedAt
  <2>3. b[s][j].volume = SumOver(h, P)
    BY <2>1 DEF Exact
  <2> HIDE DEF part, g, U, P
  <2>4. g[j] = SumOver(h, part[j])
    BY <2>1, <2>3
  <2>5. \A x \in part[j] : h[x] \in Int
    BY <2>1, <2>2
  <2> QED
    BY <2>1, <2>2, <2>4, <2>5
<1>4. ASSUME NEW j \in U, NEW m \in U, j # m
      PROVE  part[j] \cap part[m] = {}
  <2> DEFINE P == Queued(b[s][j])
             Q == Queued(b[s][m])
  <2>1. /\ j \in 1 .. Len(b[s]) /\ part[j] = P
        /\ m \in 1 .. Len(b[s]) /\ part[m] = Q
    BY <1>2
  <2>2. \A x : ~(x \in P /\ x \in Q)
    BY <1>4, <2>1 DEF OneLevel
  <2> HIDE DEF part, g, U, P, Q
  <2> QED
    BY <2>1, <2>2
<1>5. Reach(b, s, n) = UnionOf(part, U)
  BY DEF Reach, UnionOf
<1> HIDE DEF part, g, U
<1>6. Splits(h, g, part, U)
  BY <1>3, <1>4 DEF Splits
<1>7. IsFiniteSet(UnionOf(part, U)) /\ SumOver(g, U) = SumOver(h, UnionOf(part, U))
  BY <1>2, <1>6, SumUnion
<1> QED
  BY <1>5, <1>7 DEF g, U

\* The orders of a book are finitely many.
LEMMA QueuedFinite ==
    ASSUME NEW b \in Books
    PROVE  IsFiniteSet({ x \in OrderIds : QueuedIn(b, x) })
<1>1. ASSUME NEW s \in Sides
      PROVE  IsFiniteSet(Reach(b, s, Len(b[s])))
  <2> DEFINE U == 1 .. Len(b[s])
             f == [j \in U |-> Queued(b[s][j])]
             Sets == { f[j] : j \in U }
  <2>1. IsFiniteSet(U)
    <3>1. Len(b[s]) \in Nat
      BY LenProperties DEF Books
    <3> QED
      BY <3>1, FS_Interval
  <2>2. \A j \in U : IsFiniteSet(f[j])
    BY QueuedAt
  <2>3. f \in Surjection(U, Sets)
    BY DEF Surjection
  <2>4. Reach(b, s, Len(b[s])) = UNION Sets
    BY DEF Reach
  <2>5. \A T \in Sets : IsFiniteSet(T)
    BY <2>2
  <2> HIDE DEF U, f, Sets
  <2>6. IsFiniteSet(Sets)
    BY <2>1, <2>3, FS_Surjection
  <2> QED
    BY <2>4, <2>5, <2>6, FS_UNION
<1> DEFINE bids == Reach(b, "buy", Len(b["buy"]))
           asks == Reach(b, "sell", Len(b["sell"]))
           all == { x \in OrderIds : QueuedIn(b, x) }
<1>2. all \subseteq bids \cup asks
  <2> SUFFICES ASSUME NEW x \in OrderIds, QueuedIn(b, x) PROVE x \in bids \cup asks
    OBVIOUS
  <2>1. PICK s \in Sides : \E j \in 1 .. Len(b[s]) : x \in Queued(b[s][j])
    BY DEF QueuedIn
  <2>2. PICK j \in 1 .. Len(b[s]) : x \in Queued(b[s][j])
    BY <2>1
  <2>3. x \in Reach(b, s, Len(b[s]))
    BY <2>2 DEF Reach
  <2> QED
    BY <2>3 DEF Sides
<1>3. IsFiniteSet(bids) /\ IsFiniteSet(asks)
  BY <1>1 DEF Sides
<1> HIDE DEF bids, asks, all
<1>4. IsFiniteSet(all)
  BY <1>2, <1>3, FS_Union, FS_Subset
<1> QED
  BY <1>4 DEF all

\* The orders that suit an order are in the book.
LEMMA MarketableFinite ==
    ASSUME book \in Books, OpenIffResting, NEW o
    PROVE  /\ IsFiniteSet(Marketable(o)) /\ Marketable(o) \subseteq OrderIds
           /\ \A x \in Marketable(o) : QueuedIn(book, x)
<1>1. \A x \in OrderIds : order[x].status = "open" => QueuedIn(book, x)
  BY RestingNow DEF OpenIffResting
<1>2. Marketable(o) \subseteq { x \in OrderIds : QueuedIn(book, x) }
  BY <1>1 DEF Marketable
<1>3. IsFiniteSet(Marketable(o))
  BY <1>2, QueuedFinite, FS_Subset
<1> QED
  BY <1>2, <1>3

\* What CanFillFOK adds up is there to trade with.
LEMMA FillableCovered ==
    ASSUME IInv, VolumeExact, OpenIffResting, NEW o, o.side \in Sides, o.qty \in Nat,
           CanFillFOK(o, book[Opposite(o.side)])
    PROVE  SumOver(Left, Marketable(o)) >= o.qty
<1> DEFINE opp == Opposite(o.side)
           some == Marketable(o)
<1>1. /\ order \in [OrderIds -> Order] /\ book \in Books /\ BookWellFormed
      /\ opp \in Sides
  BY DEF IInv, TypeOK, Books, Opposite, Sides
<1>2. PICK n \in 1 .. Len(book[opp]) :
         /\ \A i \in 1 .. n : Crosses(o, book[opp][i].price)
         /\ CumVolume(book[opp], n) >= o.qty
  BY DEF CanFillFOK
<1> DEFINE reach == Reach(book, opp, n)
<1>3. Len(book[opp]) \in Nat /\ n \in 0 .. Len(book[opp]) /\ n \in Nat
  <2>1. Len(book[opp]) \in Nat
    BY <1>1, LenProperties DEF Books
  <2> QED
    BY <2>1
<1>4. OneLevel(book)
  BY <1>1, WellFormedQueues
<1>5. \A x \in OrderIds : Left[x] \in Int
  BY <1>1, LeftInt
<1>6. CumVolume(book[opp], n) = SumOver([j \in 1 .. n |-> book[opp][j].volume], 1 .. n)
  BY SumNames DEF CumVolume
<1> HIDE DEF opp
<1>7. /\ IsFiniteSet(reach)
      /\ SumOver([j \in 1 .. n |-> book[opp][j].volume], 1 .. n) = SumOver(Left, reach)
  BY <1>1, <1>3, <1>4, <1>5, ReachSum, ExactNow
<1>8. reach \subseteq some
  <2> SUFFICES ASSUME NEW x, x \in reach PROVE x \in some
    OBVIOUS
  <2>1. PICK j \in 1 .. n : x \in Queued(book[opp][j])
    BY DEF Reach
  <2>2. j \in 1 .. Len(book[opp])
    BY <1>3
  <2>3. /\ x \in OrderIds /\ order[x].status = "open"
        /\ order[x].side = opp /\ order[x].price = book[opp][j].price
    BY <1>1, <2>1, <2>2, WellFormedQueues
  <2> QED
    BY <1>2, <2>1, <2>3 DEF Marketable, opp
<1>9. /\ IsFiniteSet(some) /\ some \subseteq OrderIds
      /\ \A x \in some : order[x].status = "open" /\ QueuedIn(book, x)
  <2>1. \A x \in some : order[x].status = "open"
    BY DEF Marketable
  <2> HIDE DEF some
  <2> QED
    BY <1>1, <2>1, MarketableFinite DEF some
<1>10. \A x \in some : Left[x] \in Nat
  <2> SUFFICES ASSUME NEW x \in some PROVE Left[x] \in Nat
    OBVIOUS
  <2>1. order[x].filled <= order[x].qty /\ order[x] \in Order /\ x \in OrderIds
    BY <1>1, <1>9 DEF IInv, NoOverfill
  <2>2. Left[x] = order[x].qty - order[x].filled
    BY <1>1, <2>1, LeftInt DEF Remaining
  <2>3. order[x].qty \in Nat /\ order[x].filled \in Nat
    BY <2>1 DEF Order
  <2> QED
    BY <2>1, <2>2, <2>3
<1> HIDE DEF some, reach
<1>11. SumOver(Left, reach) <= SumOver(Left, some)
  BY <1>8, <1>9, <1>10, SumWithin
<1>12. SumOver(Left, some) \in Int
  BY <1>5, <1>9, SumInteger
<1>13. SumOver(Left, reach) \in Int
  BY <1>5, <1>7, <1>8, <1>9, SumInteger
<1> DEFINE a == SumOver(Left, reach)
           c == SumOver(Left, some)
<1>14. a >= o.qty /\ a <= c /\ a \in Int /\ c \in Int
  BY <1>2, <1>6, <1>7, <1>11, <1>12, <1>13
<1> QED
  <2> HIDE DEF a, c
  <2>1. c >= o.qty
    BY <1>14
  <2> QED
    BY <2>1 DEF c, some

\* Where the best price does not suit an order, none does.
LEMMA NoneMarketable ==
    ASSUME IInv, OpenIffResting, phase = "matching", ~CanMatch, Remaining(order[taker]) > 0
    PROVE  Marketable(order[taker]) = {}
<1> DEFINE o == order[taker]
           opp == Opposite(o.side)
<1>1. /\ order \in [OrderIds -> Order] /\ book \in Books /\ BookWellFormed
      /\ taker \in OrderIds
  BY DEF IInv, TypeOK, Books
<1>2. o \in Order /\ o.side \in Sides /\ opp \in Sides
  BY <1>1 DEF Order, Opposite, Sides
<1>3. book[opp] = <<>> \/ ~Crosses(o, book[opp][1].price)
  BY DEF CanMatch, Facing
<1> SUFFICES ASSUME NEW x \in Marketable(o) PROVE FALSE
  OBVIOUS
<1>4. /\ x \in OrderIds /\ QueuedIn(book, x)
      /\ order[x].side = opp /\ Crosses(o, order[x].price)
  BY <1>1, MarketableFinite DEF Marketable
<1>5. PICK s \in Sides : \E j \in 1 .. Len(book[s]) : x \in Queued(book[s][j])
  BY <1>4 DEF QueuedIn
<1>6. PICK j \in 1 .. Len(book[s]) : x \in Queued(book[s][j])
  BY <1>5
<1>7. s = opp /\ order[x].price = book[opp][j].price
  BY <1>1, <1>4, <1>5, <1>6, WellFormedQueues
<1>8. Len(book[opp]) \in Nat /\ j \in 1 .. Len(book[opp]) /\ 1 \in 1 .. Len(book[opp])
  <2>1. Len(book[opp]) \in Nat
    BY <1>1, <1>2, LenProperties DEF Books
  <2> QED
    BY <1>6, <1>7, <2>1
<1>9. book[opp] # <<>>
  BY <1>8
<1>10. /\ book[opp][1].price \in Nat /\ book[opp][j].price \in Nat /\ o.price \in Nat
       /\ o.side \in Sides
  <2>1. book[opp][1] \in PriceLevel /\ book[opp][j] \in PriceLevel
    <3>1. book[opp] \in Seq(PriceLevel)
      BY <1>1, <1>2 DEF Books
    <3> QED
      BY <1>8, <3>1, ElementOfSeq
  <2>2. o.price \in Nat
    BY <1>2 DEF Order
  <2> QED
    BY <1>2, <2>1, <2>2 DEF PriceLevel
<1>11. j # 1 => Better(opp, book[opp][1].price, book[opp][j].price)
  BY <1>1, <1>2, <1>8 DEF BookWellFormed, LevelsSorted
<1>12. Crosses(o, book[opp][j].price) /\ ~Crosses(o, book[opp][1].price)
  BY <1>3, <1>4, <1>7, <1>9
<1>13. opp = IF o.side = "buy" THEN "sell" ELSE "buy"
  BY DEF Opposite
<1> DEFINE p == book[opp][1].price
           r == book[opp][j].price
<1>14. /\ p \in Nat /\ r \in Nat /\ o.price \in Nat /\ o.side \in {"buy", "sell"}
       /\ j # 1 => Better(opp, p, r)
       /\ Crosses(o, r) /\ ~Crosses(o, p)
       /\ j = 1 => r = p
  BY <1>10, <1>11, <1>12 DEF Sides
<1> HIDE DEF p, r, o, opp
<1> QED
  BY <1>13, <1>14 DEF Crosses, Better

(***************************************************************************)
(* What an order trades in a list of trades.                               *)
(***************************************************************************)
\* The places of the trades of order id in a list, and what each place trades.
TradesOf(s, id) == { n \in 1 .. Len(s) : id \in {s[n].taker, s[n].maker} }

Lots(s) == [n \in 1 .. Len(s) |-> s[n].qty]

\* Traded is a sum of naturals over finitely many places.
LEMMA TradedIs ==
    ASSUME NEW s \in Seq(MatchResult), NEW id
    PROVE  /\ Traded(s, id) = SumOver(Lots(s), TradesOf(s, id))
           /\ IsFiniteSet(TradesOf(s, id)) /\ TradesOf(s, id) \subseteq 1 .. Len(s)
           /\ \A n \in 1 .. Len(s) : Lots(s)[n] = s[n].qty /\ s[n].qty \in Nat
           /\ Traded(s, id) \in Int
<1>1. Len(s) \in Nat /\ DOMAIN s = 1 .. Len(s)
  BY LenProperties
<1>2. Traded(s, id) = SumOver(Lots(s), TradesOf(s, id))
  BY <1>1, SumNames DEF Traded, Lots, TradesOf
<1>3. TradesOf(s, id) \subseteq 1 .. Len(s)
  BY DEF TradesOf
<1>4. IsFiniteSet(TradesOf(s, id))
  <2>1. IsFiniteSet(1 .. Len(s))
    BY <1>1, FS_Interval
  <2> QED
    BY <1>3, <2>1, FS_Subset
<1>5. \A n \in 1 .. Len(s) : Lots(s)[n] = s[n].qty /\ s[n].qty \in Nat
  <2> SUFFICES ASSUME NEW n \in 1 .. Len(s)
               PROVE  Lots(s)[n] = s[n].qty /\ s[n].qty \in Nat
    OBVIOUS
  <2>1. s[n] \in MatchResult
    BY ElementOfSeq
  <2> QED
    BY <2>1 DEF MatchResult, Lots
<1>6. SumOver(Lots(s), TradesOf(s, id)) \in Int
  BY <1>3, <1>4, <1>5, SumInteger
<1> QED
  BY <1>2, <1>3, <1>4, <1>5, <1>6

\* No trade, nothing traded.
LEMMA TradedNone ==
    ASSUME NEW id
    PROVE  Traded(<<>>, id) = 0
<1>1. <<>> \in Seq(MatchResult) /\ Len(<<>>) = 0
  BY EmptySeq
<1>2. TradesOf(<<>>, id) = {}
  BY <1>1 DEF TradesOf
<1> QED
  BY <1>1, <1>2, TradedIs, SumEmpty

\* One more trade adds its quantity to what its two orders have traded.
LEMMA TradedAppend ==
    ASSUME NEW s \in Seq(MatchResult), NEW m \in MatchResult, NEW id
    PROVE  Traded(Append(s, m), id) =
              Traded(s, id) + (IF id \in {m.taker, m.maker} THEN m.qty ELSE 0)
<1> DEFINE r == Append(s, m)
           n == Len(s) + 1
           old == TradesOf(s, id)
           a == SumOver(Lots(s), old)
<1>1. /\ Len(s) \in Nat /\ r \in Seq(MatchResult) /\ Len(r) = n /\ r[n] = m
      /\ \A j \in 1 .. Len(s) : r[j] = s[j]
  BY LenProperties, AppendProperties
<1>2. n \in 1 .. Len(r) /\ n \notin 1 .. Len(s) /\ m.qty \in Int
  BY <1>1 DEF MatchResult
<1>3. TradesOf(r, id) = IF id \in {m.taker, m.maker} THEN old \cup {n} ELSE old
  <2>1. \A j : j \in 1 .. Len(r) <=> j \in 1 .. Len(s) \/ j = n
    BY <1>1
  <2> HIDE DEF r, n
  <2> QED
    BY <1>1, <1>2, <2>1 DEF TradesOf
<1>4. IsFiniteSet(old) /\ old \subseteq 1 .. Len(s) /\ a \in Int /\ Traded(s, id) = a
  BY TradedIs
<1>5. SumOver(Lots(r), old) = a
  <2> HIDE DEF r, n, old
  <2>1. \A j \in old : Lots(r)[j] = Lots(s)[j]
    <3> SUFFICES ASSUME NEW j \in old PROVE Lots(r)[j] = Lots(s)[j]
      OBVIOUS
    <3>1. j \in 1 .. Len(s) /\ j \in 1 .. Len(r)
      BY <1>1, <1>4 DEF n
    <3> QED
      BY <1>1, <3>1 DEF Lots
  <2> QED
    BY <1>4, <2>1, SumSame
<1>6. Lots(r)[n] = m.qty /\ \A j \in old \cup {n} : Lots(r)[j] \in Int
  <2> HIDE DEF r, n, old
  <2>1. \A j \in 1 .. Len(r) : Lots(r)[j] = r[j].qty /\ r[j].qty \in Nat
    BY <1>1, TradedIs
  <2>2. \A j \in old \cup {n} : j \in 1 .. Len(r)
    BY <1>1, <1>2, <1>4 DEF n
  <2> QED
    BY <1>1, <1>2, <2>1, <2>2
<1>7. SumOver(Lots(r), old \cup {n}) = a + m.qty
  <2>1. n \notin old
    BY <1>2, <1>4
  <2> HIDE DEF r, n, old, a
  <2>2. SumOver(Lots(r), old \cup {n}) = SumOver(Lots(r), old) + Lots(r)[n]
    BY <1>4, <1>6, <2>1, SumInsert
  <2> QED
    BY <1>5, <1>6, <2>2
<1>8. Traded(r, id) = SumOver(Lots(r), TradesOf(r, id))
  BY <1>1, TradedIs
<1> HIDE DEF r, n, old, a
<1>9. Traded(r, id) = a + (IF id \in {m.taker, m.maker} THEN m.qty ELSE 0)
  BY <1>2, <1>3, <1>4, <1>5, <1>7, <1>8
<1> QED
  BY <1>4, <1>9 DEF r

\* Appending to a list of two parts.
LEMMA ConcatAppend ==
    ASSUME NEW S, NEW s \in Seq(S), NEW t \in Seq(S), NEW e \in S
    PROVE  /\ s \o Append(t, e) = Append(s \o t, e)
           /\ s \o t \in Seq(S)
           /\ s \o <<>> = s
  BY ConcatProperties, AppendIsConcat, ConcatAssociative

(***************************************************************************)
(* FillInv is inductive, given IInv.                                       *)
(***************************************************************************)
\* What every step can rely on.
LEMMA Typed ==
    ASSUME IInv
    PROVE  /\ order \in [OrderIds -> Order] /\ book \in Books
           /\ BookWellFormed /\ OneLevel(book)
           /\ phase # "idle" <=> taker \in OrderIds
           /\ trades \in Seq(MatchResult) /\ matches \in Seq(MatchResult)
<1>1. order \in [OrderIds -> Order] /\ book \in Books /\ BookWellFormed
  BY DEF IInv, TypeOK, Books
<1>2. OneLevel(book)
  BY <1>1, WellFormedQueues
<1> QED
  BY <1>1, <1>2 DEF IInv, TypeOK

\* OpenIffResting, now and after a step, by the orders in the book.
LEMMA OpenNow ==
    ASSUME book \in Books, OpenIffResting
    PROVE  \A x \in OrderIds : /\ order[x].status = "open" <=> QueuedIn(book, x)
                               /\ order[x].status = "created" => x = taker
  BY RestingNow DEF OpenIffResting

LEMMA OpenThen ==
    ASSUME book' \in Books,
           \A x \in OrderIds : /\ order'[x].status = "open" <=> QueuedIn(book', x)
                               /\ order'[x].status = "created" => x = taker'
    PROVE  OpenIffResting'
  BY RestingThen DEF OpenIffResting

\* ImmediateOrders for one order.
Immediate(o) ==
    /\ o.tif = "FOK" => o.filled \in {0, o.qty}
    /\ o.tif \in {"FOK", "IOC"} =>
          o.status \in {"none", "filled", "cancelled", "rejected"}

LEMMA ImmediateNow ==
    ImmediateOrders <=> \A x \in OrderIds : x # taker => Immediate(order[x])
  BY DEF ImmediateOrders, Immediate

LEMMA ImmediateThen ==
    ImmediateOrders' <=> \A x \in OrderIds : x # taker' => Immediate(order'[x])
  BY DEF ImmediateOrders, Immediate

\* FillsTraded, by the list of all trades.
LEMMA TradedNow ==
    ASSUME FillsTraded
    PROVE  \A x \in OrderIds : order[x].filled = Traded(trades \o matches, x)
  BY DEF FillsTraded

LEMMA TradedThen ==
    ASSUME \A x \in OrderIds : order'[x].filled = Traded(trades' \o matches', x)
    PROVE  FillsTraded'
  BY DEF FillsTraded, Traded

\* The book at rest: the first state and a step that changes nothing.
LEMMA InitFills == ASSUME Init PROVE FillInv
<1>1. \A x \in OrderIds : order[x] = Unsubmitted
  BY DEF Init
<1>2. \A s \in Sides : book[s] = <<>> /\ Len(book[s]) = 0
  BY DEF Init
<1>3. VolumeExact
  BY <1>2 DEF VolumeExact
<1>4. OpenIffResting
  BY <1>1, <1>2 DEF OpenIffResting, Resting, At, Unsubmitted
<1>5. FillsTraded
  <2>1. trades \o matches = <<>>
    BY DEF Init
  <2> QED
    BY <1>1, <2>1, TradedNone DEF FillsTraded, Unsubmitted
<1>6. FOKCovered /\ RestsGTC
  BY DEF Init, FOKCovered, RestsGTC
<1>7. ImmediateOrders
  BY <1>1 DEF ImmediateOrders, Unsubmitted
<1>8. NewUnfilled
  BY <1>1 DEF NewUnfilled, Unsubmitted
<1> QED
  BY <1>3, <1>4, <1>5, <1>6, <1>7, <1>8 DEF FillInv

\* A step that changes nothing.
LEMMA StutterFills == ASSUME FillInv, UNCHANGED vars PROVE FillInv'
<1>1. /\ order' = order /\ book' = book /\ phase' = phase /\ taker' = taker
      /\ matches' = matches /\ trades' = trades
  BY DEF vars
<1>2. Left' = Left
  BY <1>1 DEF Left
<1>3. VolumeExact'
  BY <1>1, <1>2 DEF FillInv, VolumeExact
<1>4. OpenIffResting'
  <2>1. \A x \in OrderIds : Resting(x)' <=> Resting(x)
    BY <1>1 DEF Resting, At
  <2> QED
    BY <1>1, <2>1 DEF FillInv, OpenIffResting
<1>5. FillsTraded'
  BY <1>1, TradedNow, TradedThen DEF FillInv
<1>6. FOKCovered'
  BY <1>1, <1>2 DEF FillInv, FOKCovered, Marketable
<1>7. RestsGTC' /\ ImmediateOrders' /\ NewUnfilled'
  BY <1>1 DEF FillInv, RestsGTC, ImmediateOrders, NewUnfilled
<1> QED
  BY <1>3, <1>4, <1>5, <1>6, <1>7 DEF FillInv

\* A cancelled order takes what it has left with it.
LEMMA CancelFills ==
    ASSUME IInv, FillInv, NEW id \in OrderIds, CancelOrder(id)
    PROVE  FillInv'
<1>1. PICK side, i, k : CancelStep(side, i, k, id)
  BY CancelEffect
<1> DEFINE new == Drop(book[side], i, k)
           c == book'
           q == Remaining(order[id])
           gone == {id}
<1>2. /\ side \in Sides /\ i \in 1 .. Len(book[side])
      /\ k \in 1 .. Len(book[side][i].queue) /\ book[side][i].queue[k] = id
      /\ phase = "idle" /\ phase' = "idle" /\ taker' = taker
      /\ matches' = matches /\ trades' = trades
      /\ order[id].status = "open" /\ order'[id].status = "cancelled"
      /\ Becomes(c, book, side, new) /\ new \in Seq(PriceLevel)
  BY <1>1 DEF CancelStep, At, StatusSet, Becomes
<1>3. /\ order' \in [OrderIds -> Order]
      /\ \A x \in OrderIds : x # id => order'[x] = order[x]
      /\ SameRequest(order[id], order'[id])
      /\ order'[id].filled = order[id].filled
  BY <1>1 DEF CancelStep, StatusSet
<1>4. /\ order \in [OrderIds -> Order] /\ book \in Books /\ OneLevel(book)
      /\ NoneEmpty(book[side]) /\ SeatsDiffer(book[side])
  BY <1>2, Typed, WellFormedQueues
<1>5. VolumeExact /\ OpenIffResting /\ FillsTraded /\ ImmediateOrders /\ NewUnfilled
  BY DEF FillInv
<1>6. Shrinks(new, book[side], i, id, q, gone) /\ NoneOr(gone, id) /\ gone = {id}
  BY <1>2, <1>4, DropShrinks DEF Books, NoneOr
<1>7. id \in Queued(book[side][i])
  <2>1. Queued(book[side][i]) =
           { book[side][i].queue[m] : m \in 1 .. Len(book[side][i].queue) }
    BY <1>2, <1>4, QueuedAt
  <2> QED
    BY <1>2, <2>1
<1>8. c \in Books
  BY <1>2, <1>4 DEF Books, Becomes
<1>9. \A x \in OrderIds : Left'[x] = Left[x] /\ Left[x] \in Int /\ Left[id] = q
  BY <1>3, <1>4, LeftInt, LeftIntThen DEF Remaining, SameRequest
<1>10. q \in Int
  BY <1>9
<1> HIDE DEF new, c, q, gone
<1>20. /\ book \in Books /\ OneLevel(book) /\ side \in Sides
      /\ new \in Seq(PriceLevel) /\ Becomes(c, book, side, new)
      /\ i \in 1 .. Len(book[side]) /\ id \in Queued(book[side][i])
      /\ NoneOr(gone, id) /\ Shrinks(new, book[side], i, id, q, gone)
  BY <1>2, <1>4, <1>6, <1>7
<1>11. VolumeExact'
  <2> DEFINE h == Left
             l == Left'
  <2>1. Exact(book, h)
    BY <1>5, ExactNow
  <2>2. Loses(h, l, book, id, q, gone)
    BY <1>6, <1>9 DEF Loses
  <2> HIDE DEF h, l
  <2>3. Exact(c, l)
    BY <1>10, <1>20, <2>1, <2>2, ExactShrunk, Zenon
  <2> QED
    BY <2>3, ExactThen DEF c, l
<1>12. OpenIffResting'
  <2>1. \A x : QueuedIn(c, x) <=> QueuedIn(book, x) /\ x \notin gone
    BY <1>20, ShrunkBook, Zenon
  <2>2. \A x \in OrderIds : /\ order[x].status = "open" <=> QueuedIn(book, x)
                            /\ order[x].status = "created" => x = taker
    BY <1>4, <1>5, OpenNow
  <2>3. \A x \in OrderIds : /\ order'[x].status = "open" <=> QueuedIn(c, x)
                            /\ order'[x].status = "created" => x = taker'
    BY <1>2, <1>3, <1>6, <2>1, <2>2
  <2> QED
    BY <1>8, <2>3, OpenThen DEF c
<1>13. FillsTraded' /\ NewUnfilled'
  <2>1. \A x \in OrderIds : order'[x].filled = order[x].filled
    BY <1>3
  <2>2. FillsTraded'
    BY <1>2, <1>5, <2>1, TradedNow, TradedThen
  <2> QED
    BY <1>2, <1>3, <1>5, <2>1, <2>2 DEF NewUnfilled
<1>14. FOKCovered' /\ RestsGTC'
  BY <1>2 DEF FOKCovered, RestsGTC
<1>15. ImmediateOrders'
  <2>1. \A x \in OrderIds : x # taker => Immediate(order[x])
    BY <1>5, ImmediateNow
  <2>2. id # taker
    BY <1>2, Typed
  <2>3. Immediate(order[id]) => Immediate(order'[id])
    BY <1>2, <1>3 DEF Immediate, SameRequest
  <2>4. \A x \in OrderIds : x # taker' => Immediate(order'[x])
    BY <1>2, <1>3, <2>1, <2>2, <2>3
  <2> QED
    BY <2>4, ImmediateThen
<1> QED
  BY <1>11, <1>12, <1>13, <1>14, <1>15 DEF FillInv

\* An order that comes to rest has all it has left in its level.
LEMMA AddFills ==
    ASSUME IInv, FillInv, AddToBook
    PROVE  FillInv'
<1>1. PICK side, i : AddStep(side, i)
  BY AddEffect
<1> DEFINE new == AddAt(book[side], i, taker)
           c == book'
           id == taker
           v == Remaining(order[id])
<1>2. /\ side \in Sides /\ i \in 1 .. Len(book[side]) + 1
      /\ phase = "resting" /\ phase' = "idle" /\ id \in OrderIds /\ taker' = NoOrder
      /\ matches' = matches /\ trades' = trades
      /\ order[id].status = "created" /\ order'[id].status = "open"
      /\ Becomes(c, book, side, new) /\ new \in Seq(PriceLevel)
  BY <1>1 DEF AddStep, StatusSet, Becomes
<1>3. /\ order' \in [OrderIds -> Order]
      /\ \A x \in OrderIds : x # id => order'[x] = order[x]
      /\ SameRequest(order[id], order'[id])
      /\ order'[id].filled = order[id].filled
  BY <1>1 DEF AddStep, StatusSet
<1>4. order \in [OrderIds -> Order] /\ book \in Books
  BY Typed
<1>5. VolumeExact /\ OpenIffResting /\ FillsTraded /\ ImmediateOrders /\ NewUnfilled
      /\ RestsGTC
  BY DEF FillInv
<1>6. Grows(new, book[side], i, id, v)
  BY <1>2, <1>4, AddGrows DEF Books
<1>7. \A x \in OrderIds : /\ order[x].status = "open" <=> QueuedIn(book, x)
                          /\ order[x].status = "created" => x = taker
  BY <1>4, <1>5, OpenNow
<1>8. c \in Books
  BY <1>2, <1>4 DEF Books, Becomes
<1>9. \A x \in OrderIds :
         Left'[x] = Left[x] /\ Left[x] \in Int /\ Left[id] = v
  BY <1>2, <1>3, <1>4, LeftInt, LeftIntThen DEF Remaining, SameRequest
<1>10. ~QueuedIn(book, id)
  BY <1>2, <1>7
<1> HIDE DEF new, c, id, v
<1>11. VolumeExact'
  <2> DEFINE h == Left
             l == Left'
  <2>1. Exact(book, h)
    BY <1>5, ExactNow
  <2>2. Grows(new, book[side], i, id, h[id])
    BY <1>2, <1>6, <1>9
  <2>3. /\ \A x \in OrderIds : h[x] \in Int
        /\ \A x \in OrderIds : QueuedIn(c, x) => l[x] = h[x]
    BY <1>9
  <2> HIDE DEF h, l
  <2>4. Exact(c, h)
    BY <1>2, <1>4, <1>10, <2>1, <2>2, <2>3, ExactGrown
  <2>5. Exact(c, l)
    BY <1>8, <2>3, <2>4, ExactSame
  <2> QED
    BY <2>5, ExactThen DEF c, l
<1>12. OpenIffResting'
  <2>1. \A x : QueuedIn(c, x) <=> QueuedIn(book, x) \/ x = id
    <3>1. /\ book \in Books /\ side \in Sides /\ new \in Seq(PriceLevel)
          /\ Becomes(c, book, side, new) /\ i \in 1 .. Len(book[side]) + 1
      BY <1>2, <1>4
    <3> QED
      BY <1>6, <3>1, GrownBook, Zenon
  <2>2. \A x \in OrderIds : /\ order'[x].status = "open" <=> QueuedIn(c, x)
                            /\ order'[x].status = "created" => x = taker'
    BY <1>2, <1>3, <1>7, <2>1 DEF id
  <2> QED
    BY <1>8, <2>2, OpenThen DEF c
<1>13. FillsTraded' /\ NewUnfilled'
  <2>1. \A x \in OrderIds : order'[x].filled = order[x].filled
    BY <1>3
  <2>2. FillsTraded'
    BY <1>2, <1>5, <2>1, TradedNow, TradedThen
  <2> QED
    BY <1>2, <1>3, <1>5, <2>1, <2>2 DEF NewUnfilled
<1>14. FOKCovered' /\ RestsGTC'
  BY <1>2 DEF FOKCovered, RestsGTC
<1>15. ImmediateOrders'
  <2>1. \A x \in OrderIds : x # taker => Immediate(order[x])
    BY <1>5, ImmediateNow
  <2>2. order'[id].tif = "GTC"
    BY <1>2, <1>3, <1>5 DEF RestsGTC, SameRequest, id
  <2>3. Immediate(order'[id])
    BY <2>2 DEF Immediate
  <2>4. \A x \in OrderIds : x # taker' => Immediate(order'[x])
    BY <1>3, <2>1, <2>3 DEF id
  <2> QED
    BY <2>4, ImmediateThen
<1> QED
  BY <1>11, <1>12, <1>13, <1>14, <1>15 DEF FillInv

\* Two orders trade: what the matcher reads of the book stays true.
LEMMA MatchFills ==
    ASSUME IInv, FillInv, Match
    PROVE  FillInv'
<1>1. PICK opp, maker, q, done : MatchStep(opp, maker, q, done)
  BY MatchEffect
<1> DEFINE new == Consume(book[opp], q, done)
           c == book'
           gone == IF done THEN {maker} ELSE {}
           trade == [taker |-> taker, maker |-> maker,
                     price |-> order[maker].price, qty |-> q]
<1>2. /\ opp = Opposite(order[taker].side) /\ opp \in Sides
      /\ phase = "matching" /\ phase' = "matching" /\ taker' = taker /\ trades' = trades
      /\ taker \in OrderIds /\ maker \in OrderIds /\ maker # taker
      /\ order[taker].status = "created" /\ order[maker].status = "open"
      /\ Crosses(order[taker], order[maker].price)
      /\ q \in Nat /\ q > 0
      /\ done \in BOOLEAN /\ (done <=> Remaining(order[maker]) = q)
      /\ matches' = Append(matches, trade)
      /\ Becomes(c, book, opp, new) /\ new \in Seq(PriceLevel)
  BY <1>1 DEF MatchStep, Becomes
<1>3. At(opp, 1, 1, maker)
  BY <1>1 DEF MatchStep
<1>4. /\ order' \in [OrderIds -> Order]
      /\ \A x \in OrderIds : x # taker /\ x # maker => order'[x] = order[x]
      /\ SameRequest(order[taker], order'[taker])
      /\ SameRequest(order[maker], order'[maker])
      /\ order'[taker].filled = order[taker].filled + q
      /\ order'[maker].filled = order[maker].filled + q
      /\ order'[taker].status = "created"
      /\ order'[maker].status = IF done THEN "filled" ELSE "open"
  BY <1>1 DEF MatchStep, Filled
<1>5. /\ order \in [OrderIds -> Order] /\ book \in Books /\ OneLevel(book)
      /\ NoneEmpty(book[opp]) /\ SeatsDiffer(book[opp])
      /\ trades \in Seq(MatchResult) /\ matches \in Seq(MatchResult)
  BY <1>2, Typed, WellFormedQueues
<1>6. /\ VolumeExact /\ OpenIffResting /\ FillsTraded /\ ImmediateOrders
      /\ NewUnfilled /\ FOKCovered
  BY DEF FillInv
<1>7. /\ 1 \in 1 .. Len(book[opp]) /\ 1 \in 1 .. Len(book[opp][1].queue)
      /\ book[opp][1].queue[1] = maker
  BY <1>3 DEF At
<1>8. maker \in Queued(book[opp][1])
  <2>1. Queued(book[opp][1]) =
           { book[opp][1].queue[m] : m \in 1 .. Len(book[opp][1].queue) }
    BY <1>2, <1>5, <1>7, QueuedAt
  <2> QED
    BY <1>7, <2>1
<1>9. Shrinks(new, book[opp], 1, maker, q, gone) /\ NoneOr(gone, maker)
  <2>1. book[opp] \in Seq(PriceLevel) /\ book[opp] # <<>> /\ q \in Int
    BY <1>2, <1>5, <1>7, EmptySeq DEF Books
  <2>2. Shrinks(new, book[opp], 1, maker, q, gone)
    BY <1>2, <1>5, <1>7, <2>1, ConsumeShrinks
  <2> QED
    BY <2>2 DEF NoneOr
<1>10. c \in Books
  BY <1>2, <1>5 DEF Books, Becomes
<1>11. /\ \A x \in OrderIds : Left[x] \in Int /\ Left'[x] \in Int
       /\ \A x \in OrderIds : x # taker /\ x # maker => Left'[x] = Left[x]
       /\ Left'[taker] = Left[taker] - q /\ Left'[maker] = Left[maker] - q
       /\ done <=> Left[maker] = q
  <2>1. \A x \in OrderIds : /\ Left[x] = order[x].qty - order[x].filled /\ Left[x] \in Int
                            /\ order[x].qty \in Int /\ order[x].filled \in Int
    BY <1>5, LeftInt DEF Remaining, Order
  <2>2. \A x \in OrderIds : Left'[x] = order'[x].qty - order'[x].filled /\ Left'[x] \in Int
    BY <1>4, LeftIntThen DEF Remaining
  <2>3. done <=> Left[maker] = q
    BY <1>2, <2>1 DEF Remaining
  <2>4. \A x \in OrderIds : x # taker /\ x # maker => Left'[x] = Left[x]
    BY <1>4, <2>1, <2>2
  <2>5. ASSUME NEW x \in {taker, maker} PROVE Left'[x] = Left[x] - q
    <3> DEFINE l == Left'[x]
    <3>1. /\ x \in OrderIds /\ l = order[x].qty - (order[x].filled + q)
      BY <1>2, <1>4, <2>2 DEF SameRequest
    <3> HIDE DEF l
    <3>2. l = Left[x] - q
      BY <1>2, <2>1, <3>1
    <3> QED
      BY <3>2 DEF l
  <2> QED
    BY <2>1, <2>2, <2>3, <2>4, <2>5
<1>12. \A x \in OrderIds : /\ order[x].status = "open" <=> QueuedIn(book, x)
                           /\ order[x].status = "created" => x = taker
  BY <1>5, <1>6, OpenNow
<1> HIDE DEF new, c, trade
<1>13. gone = {maker} <=> done
  BY <1>2
<1> HIDE DEF gone
<1>14. /\ book \in Books /\ OneLevel(book) /\ opp \in Sides
       /\ new \in Seq(PriceLevel) /\ Becomes(c, book, opp, new)
       /\ 1 \in 1 .. Len(book[opp]) /\ maker \in Queued(book[opp][1])
       /\ NoneOr(gone, maker) /\ Shrinks(new, book[opp], 1, maker, q, gone)
  BY <1>2, <1>5, <1>7, <1>8, <1>9
<1>15. VolumeExact'
  <2> DEFINE h == Left
             l == Left'
  <2>1. Exact(book, h)
    BY <1>6, ExactNow
  <2>2. Loses(h, l, book, maker, q, gone)
    <3>1. ~QueuedIn(book, taker)
      BY <1>2, <1>12
    <3>2. \A x \in OrderIds : QueuedIn(book, x) /\ x # maker => l[x] = h[x]
      BY <1>11, <3>1
    <3> QED
      BY <1>2, <1>11, <1>13, <3>2 DEF Loses
  <2>3. q \in Int
    BY <1>2
  <2> HIDE DEF h, l
  <2>4. Exact(c, l)
    BY <1>14, <2>1, <2>2, <2>3, ExactShrunk, Zenon
  <2> QED
    BY <2>4, ExactThen DEF c, l
<1>16. OpenIffResting'
  <2>1. \A x : QueuedIn(c, x) <=> QueuedIn(book, x) /\ x \notin gone
    BY <1>14, ShrunkBook, Zenon
  <2>2. \A x \in OrderIds : x # maker => x \notin gone
    BY <1>9 DEF NoneOr
  <2>3. maker \in gone <=> done
    BY <1>9, <1>13 DEF NoneOr
  <2>4. \A x \in OrderIds : /\ order'[x].status = "open" <=> QueuedIn(c, x)
                            /\ order'[x].status = "created" => x = taker'
    <3> SUFFICES ASSUME NEW x \in OrderIds
                 PROVE  /\ order'[x].status = "open" <=> QueuedIn(c, x)
                        /\ order'[x].status = "created" => x = taker'
      OBVIOUS
    <3>1. CASE x = maker
      BY <1>2, <1>4, <1>12, <2>1, <2>3, <3>1
    <3>2. CASE x = taker
      BY <1>2, <1>4, <1>12, <2>1, <3>2
    <3>3. CASE x # maker /\ x # taker
      BY <1>2, <1>4, <1>12, <2>1, <2>2, <3>3
    <3> QED
      BY <3>1, <3>2, <3>3
  <2> QED
    BY <1>10, <2>4, OpenThen DEF c
<1>17. FillsTraded'
  <2> DEFINE all == trades \o matches
  <2>1. trade \in MatchResult /\ trade.qty = q /\ trade.taker = taker /\ trade.maker = maker
    <3>1. order[maker].price \in Nat /\ q \in Nat
      BY <1>2, <1>5 DEF Order
    <3> QED
      BY <1>2, <3>1 DEF MatchResult, trade
  <2>2. trades' \o matches' = Append(all, trade) /\ all \in Seq(MatchResult)
    BY <1>2, <1>5, <2>1, ConcatAppend
  <2>3. \A x \in OrderIds : order[x].filled = Traded(all, x)
    BY <1>6, TradedNow
  <2> HIDE DEF all
  <2>4. \A x : Traded(Append(all, trade), x) =
                  Traded(all, x) + (IF x \in {trade.taker, trade.maker} THEN trade.qty ELSE 0)
    BY <2>1, <2>2, TradedAppend
  <2>5. \A x \in OrderIds : order'[x].filled = Traded(Append(all, trade), x)
    <3> SUFFICES ASSUME NEW x \in OrderIds
                 PROVE  order'[x].filled = Traded(Append(all, trade), x)
      OBVIOUS
    <3>1. CASE x \in {taker, maker}
      <4>1. order'[x].filled = order[x].filled + q
        BY <1>4, <3>1
      <4> QED
        BY <2>1, <2>3, <2>4, <3>1, <4>1
    <3>2. CASE x \notin {taker, maker}
      <4>1. order'[x].filled = order[x].filled /\ order[x].filled \in Nat
        BY <1>4, <1>5, <3>2 DEF Order
      <4>2. Traded(Append(all, trade), x) = order[x].filled + 0
        BY <2>1, <2>3, <2>4, <3>2
      <4> QED
        BY <4>1, <4>2
    <3> QED
      BY <3>1, <3>2
  <2> QED
    BY <2>2, <2>5, TradedThen
<1>18. NewUnfilled'
  BY <1>2, <1>4, <1>6 DEF NewUnfilled
<1>19. FOKCovered'
  <2> SUFFICES ASSUME order'[taker].tif = "FOK"
               PROVE  SumOver(Left', Marketable(order[taker])') >= Remaining(order'[taker])
    BY <1>2, SumNames DEF FOKCovered
  <2> DEFINE M == Marketable(order[taker])
             N == Marketable(order[taker])'
             h == Left
             l == Left'
             left == Remaining(order'[taker])
  <2>1. SumOver(h, M) >= h[taker]
    <3>1. order[taker].tif = "FOK" /\ Remaining(order[taker]) = Left[taker]
      BY <1>2, <1>4, <1>5, LeftInt DEF SameRequest
    <3> QED
      BY <1>2, <1>6, <3>1, SumNames DEF FOKCovered
  <2>2. IsFiniteSet(M) /\ M \subseteq OrderIds /\ \A x \in M : order[x].status = "open"
    BY <1>5, <1>6, MarketableFinite DEF Marketable
  <2>3. maker \in M /\ taker \notin M
    <3>1. order[maker].side = opp
      BY <1>2, <1>5, <1>7, <1>8, Typed, WellFormedQueues
    <3>2. maker \in M
      BY <1>2, <3>1 DEF Marketable
    <3> QED
      BY <1>2, <2>2, <3>2
  <2>4. N = IF done THEN M \ {maker} ELSE M
    <3>1. \A p : Crosses(order'[taker], p) <=> Crosses(order[taker], p)
      BY <1>4 DEF Crosses, SameRequest
    <3>2. N = { x \in OrderIds : /\ order'[x].status = "open"
                                 /\ order'[x].side = opp
                                 /\ Crosses(order[taker], order'[x].price) }
      BY <1>2, <1>4, <3>1 DEF Marketable, SameRequest
    <3>3. M = { x \in OrderIds : /\ order[x].status = "open"
                                 /\ order[x].side = opp
                                 /\ Crosses(order[taker], order[x].price) }
      BY <1>2 DEF Marketable
    <3>4. \A x \in OrderIds : x # maker => (x \in N <=> x \in M)
      <4> SUFFICES ASSUME NEW x \in OrderIds, x # maker PROVE x \in N <=> x \in M
        OBVIOUS
      <4> HIDE DEF M, N
      <4>1. CASE x = taker
        BY <1>2, <1>4, <3>2, <3>3, <4>1
      <4>2. CASE x # taker
        BY <1>4, <3>2, <3>3, <4>2
      <4> QED
        BY <4>1, <4>2
    <3>5. maker \in N <=> ~done
      <4>1. order'[maker].side = opp /\ order'[maker].price = order[maker].price
        BY <1>2, <1>4, <2>3, <3>3 DEF SameRequest
      <4> HIDE DEF M, N
      <4> QED
        BY <1>2, <1>4, <3>2, <4>1
    <3>6. N \subseteq OrderIds
      BY <3>2
    <3> HIDE DEF M, N
    <3>7. N = M \ {maker} \/ ~done
      BY <2>2, <2>3, <3>4, <3>5, <3>6
    <3>8. ~done => N = M
      BY <2>2, <2>3, <3>4, <3>5, <3>6
    <3> QED
      BY <3>7, <3>8
  <2>5. /\ \A x \in OrderIds : h[x] \in Int /\ l[x] \in Int
        /\ \A x \in M : x # maker => l[x] = h[x]
        /\ l[maker] = h[maker] - q /\ l[taker] = h[taker] - q
        /\ done => h[maker] = q
    BY <1>11, <2>2, <2>3
  <2>6. left = l[taker]
    BY <1>2, <1>4, LeftIntThen
  <2> HIDE DEF M, N, h, l, left
  <2>7. SumOver(l, N) = SumOver(h, M) - q /\ SumOver(h, M) \in Int
    <3> DEFINE a == SumOver(h, M)
    <3>1. a \in Int
      BY <2>2, <2>5, SumInteger
    <3>2. CASE ~done
      <4>1. SumOver(l, M) = a + (l[maker] - h[maker])
        BY <2>2, <2>3, <2>5, SumChange
      <4> HIDE DEF a
      <4>2. SumOver(l, M) = a - q
        BY <1>2, <2>2, <2>3, <2>5, <3>1, <4>1
      <4> QED
        BY <2>4, <3>1, <3>2, <4>2 DEF a
    <3>3. CASE done
      <4> DEFINE rest == M \ {maker}
                 b == SumOver(h, rest)
      <4>1. a = h[maker] + b
        BY <2>2, <2>3, <2>5, SumTakes
      <4>2. IsFiniteSet(rest) /\ \A x \in rest : h[x] = l[x] /\ h[x] \in Int
        BY <2>2, <2>5, FS_Subset
      <4>3. b = SumOver(l, rest) /\ b \in Int
        BY <4>2, SumSame, SumInteger
      <4> HIDE DEF a, b
      <4>4. b = a - q
        BY <1>2, <2>5, <3>3, <4>1, <4>3
      <4> QED
        BY <2>4, <3>1, <3>3, <4>3, <4>4 DEF a
    <3> QED
      BY <1>2, <3>2, <3>3
  <2>8. SumOver(l, N) >= left
    <3> DEFINE a == SumOver(h, M)
               b == SumOver(l, N)
               g == h[taker]
    <3>1. a >= g /\ b = a - q /\ left = g - q /\ a \in Int /\ g \in Int /\ q \in Int
      BY <1>2, <2>1, <2>5, <2>6, <2>7
    <3> HIDE DEF a, b, g
    <3>2. b >= left
      BY <3>1
    <3> QED
      BY <3>2 DEF b
  <2> QED
    BY <2>8 DEF l, N, left
<1>20. RestsGTC'
  BY <1>2 DEF RestsGTC
<1>21. ImmediateOrders'
  <2>1. \A x \in OrderIds : x # taker => Immediate(order[x])
    BY <1>6, ImmediateNow
  <2>2. order[maker].tif \notin {"FOK", "IOC"}
    BY <1>2, <2>1 DEF Immediate
  <2>3. Immediate(order'[maker])
    BY <1>4, <2>2 DEF Immediate, SameRequest
  <2>4. \A x \in OrderIds : x # taker' => Immediate(order'[x])
    BY <1>2, <1>4, <2>1, <2>3
  <2> QED
    BY <2>4, ImmediateThen
<1> QED
  BY <1>15, <1>16, <1>17, <1>18, <1>19, <1>20, <1>21 DEF FillInv

\* After the loop a fill-or-kill order has all it asked for.
LEMMA FinishedFOK ==
    ASSUME IInv, FillInv, FinishMatch
    PROVE  LET o == order[taker]
           IN  o.tif = "FOK" => Outcome(o) = "filled" /\ o.filled = o.qty
<1> DEFINE o == order[taker]
<1>1. phase = "matching" /\ ~CanMatch /\ taker \in OrderIds
  BY FinishEffect DEF FinishStep
<1>2. o.qty \in Nat /\ o.filled \in Nat /\ o.filled <= o.qty
  BY <1>1, Typed DEF Order, IInv, NoOverfill
<1>3. OpenIffResting /\ FOKCovered
  BY DEF FillInv
<1>4. o.tif = "FOK" => Remaining(o) <= 0
  <2> SUFFICES ASSUME o.tif = "FOK", ~(Remaining(o) <= 0) PROVE FALSE
    OBVIOUS
  <2>1. Remaining(o) \in Int /\ Remaining(o) > 0
    BY <1>2 DEF Remaining
  <2>2. Marketable(o) = {}
    BY <1>1, <1>3, <2>1, NoneMarketable
  <2>3. SumOver(Left, Marketable(o)) >= Remaining(o)
    BY <1>1, <1>3, SumNames DEF FOKCovered
  <2>4. SumOver(Left, {}) = 0
    BY SumEmpty
  <2> QED
    BY <2>1, <2>2, <2>3, <2>4
<1>5. Remaining(o) <= 0 => o.filled = o.qty
  BY <1>2 DEF Remaining
<1> QED
  BY <1>4, <1>5 DEF Outcome

\* The loop has ended: a fill-or-kill order has all it asked for.
LEMMA FinishFills ==
    ASSUME IInv, FillInv, FinishMatch
    PROVE  FillInv'
<1> DEFINE o == order[taker]
           out == Outcome(o)
<1>1. FinishStep(out)
  BY FinishEffect
<1>2. /\ phase = "matching" /\ ~CanMatch
      /\ taker \in OrderIds /\ o.status = "created"
      /\ book' = book /\ matches' = <<>>
      /\ trades' = IF out = "cancelled" /\ o.tif = "FOK"
                   THEN trades ELSE trades \o matches
      /\ \/ out \in {"filled", "cancelled"} /\ phase' = "idle" /\ taker' = NoOrder
         \/ out = "created" /\ phase' = "resting" /\ taker' = taker
  BY <1>1 DEF FinishStep
<1>3. /\ order' \in [OrderIds -> Order]
      /\ \A x \in OrderIds : x # taker => order'[x] = order[x]
      /\ SameRequest(o, order'[taker])
      /\ order'[taker].filled = o.filled /\ order'[taker].status = out
  BY <1>1 DEF FinishStep, StatusSet
<1>4. /\ order \in [OrderIds -> Order] /\ book \in Books
      /\ trades \in Seq(MatchResult) /\ matches \in Seq(MatchResult)
  BY Typed
<1>5. /\ VolumeExact /\ OpenIffResting /\ FillsTraded /\ ImmediateOrders
      /\ NewUnfilled /\ FOKCovered
  BY DEF FillInv
<1>6. /\ o \in Order /\ o.qty \in Nat /\ o.filled \in Nat /\ o.filled <= o.qty
      /\ o.tif \in TimesInForce
  BY <1>2, <1>4 DEF Order, IInv, NoOverfill
<1>8. o.tif = "FOK" => out = "filled" /\ o.filled = o.qty
  BY FinishedFOK
<1>9. out = "created" => o.tif = "GTC"
  BY <1>2, <1>6 DEF Outcome, TimesInForce
<1> HIDE DEF out
<1>10. \A x \in OrderIds : Left'[x] = Left[x]
  <2>1. \A x \in OrderIds : order'[x].qty = order[x].qty /\ order'[x].filled = order[x].filled
    BY <1>3 DEF SameRequest
  <2> QED
    BY <1>3, <1>4, <2>1, LeftInt, LeftIntThen DEF Remaining
<1>11. VolumeExact'
  <2> DEFINE h == Left
             l == Left'
  <2>1. Exact(book, h)
    BY <1>5, ExactNow
  <2>2. \A x \in OrderIds : QueuedIn(book, x) => l[x] = h[x]
    BY <1>10
  <2> HIDE DEF h, l
  <2>3. Exact(book, l)
    BY <1>4, <2>1, <2>2, ExactSame
  <2> QED
    BY <1>2, <2>3, ExactThen DEF l
<1>12. OpenIffResting'
  <2>1. \A x \in OrderIds : /\ order[x].status = "open" <=> QueuedIn(book, x)
                            /\ order[x].status = "created" => x = taker
    BY <1>4, <1>5, OpenNow
  <2>2. out # "open" /\ (out = "created" => taker' = taker)
    BY <1>2
  <2>3. \A x \in OrderIds : /\ order'[x].status = "open" <=> QueuedIn(book', x)
                            /\ order'[x].status = "created" => x = taker'
    BY <1>2, <1>3, <2>1, <2>2
  <2>4. book' \in Books
    BY <1>2, <1>4
  <2> QED
    BY <2>3, <2>4, OpenThen
<1>13. FillsTraded' /\ NewUnfilled'
  <2>1. trades' = trades \o matches
    BY <1>2, <1>8
  <2>2. trades' \o matches' = trades \o matches
    BY <1>2, <1>4, <2>1, ConcatAppend, ConcatProperties, ConcatEmptySeq
  <2>3. \A x \in OrderIds : order'[x].filled = order[x].filled
    BY <1>3
  <2>4. FillsTraded'
    BY <1>5, <2>2, <2>3, TradedNow, TradedThen
  <2>5. out # "none"
    BY <1>2
  <2>6. NewUnfilled'
    BY <1>3, <1>5, <2>5 DEF NewUnfilled
  <2> QED
    BY <2>4, <2>6
<1>14. FOKCovered' /\ RestsGTC'
  <2>1. order'[taker].tif = o.tif
    BY <1>3 DEF SameRequest
  <2> QED
    BY <1>2, <1>9, <2>1 DEF FOKCovered, RestsGTC
<1>15. ImmediateOrders'
  <2>1. \A x \in OrderIds : x # taker => Immediate(order[x])
    BY <1>5, ImmediateNow
  <2>2. taker' # taker => Immediate(order'[taker])
    <3>1. taker' # taker => out \in {"filled", "cancelled"}
      BY <1>2
    <3> QED
      BY <1>3, <1>8, <3>1 DEF Immediate, SameRequest
  <2>3. \A x \in OrderIds : x # taker' => Immediate(order'[x])
    BY <1>3, <2>1, <2>2
  <2> QED
    BY <2>3, ImmediateThen
<1> QED
  BY <1>11, <1>12, <1>13, <1>14, <1>15 DEF FillInv

\* A request is refused or taken up; a fill-or-kill order only if it can be filled.
LEMMA SubmitFills ==
    ASSUME IInv, FillInv, NEW id \in OrderIds, NEW req \in Requests, Submit(id, req)
    PROVE  FillInv'
<1>1. PICK st : SubmitStep(id, req, st)
  BY SubmitEffect
<1> DEFINE o == NewOrder(req, "created")
<1>2. /\ phase = "idle" /\ order[id].status = "none"
      /\ book' = book /\ trades' = trades /\ matches' = <<>>
      /\ \/ st = "rejected" /\ phase' = "idle" /\ taker' = taker
         \/ st = "created" /\ phase' = "matching" /\ taker' = id /\ ~FOKUnfillable(o)
  BY <1>1 DEF SubmitStep
<1>3. /\ order' \in [OrderIds -> Order]
      /\ \A x \in OrderIds : x # id => order'[x] = order[x]
      /\ SameRequest(req, order'[id])
      /\ order'[id].filled = 0 /\ order'[id].status = st
  BY <1>1 DEF SubmitStep, Submitted
<1>4. /\ order \in [OrderIds -> Order] /\ book \in Books /\ taker \notin OrderIds
      /\ trades \in Seq(MatchResult) /\ matches = <<>>
  BY <1>2, Typed DEF IInv, MatchesSound
<1>5. /\ VolumeExact /\ OpenIffResting /\ FillsTraded /\ ImmediateOrders /\ NewUnfilled
  BY DEF FillInv
<1>6. /\ o.side = req.side /\ o.type = req.type /\ o.tif = req.tif
      /\ o.price = req.price /\ o.qty = req.qty
      /\ o.side \in Sides /\ o.qty \in Nat
  BY RequestsAssumption DEF NewOrder, RequestType
<1>7. order[id].filled = 0
  BY <1>2, <1>5 DEF NewUnfilled
<1>8. \A x \in OrderIds : /\ order[x].status = "open" <=> QueuedIn(book, x)
                          /\ order[x].status = "created" => x = taker
  BY <1>4, <1>5, OpenNow
<1>9. \A x \in OrderIds : x # id => Left'[x] = Left[x]
  BY <1>3, <1>4, LeftInt, LeftIntThen
<1> HIDE DEF o
<1>10. VolumeExact'
  <2> DEFINE h == Left
             l == Left'
  <2>1. Exact(book, h)
    BY <1>5, ExactNow
  <2>2. \A x \in OrderIds : QueuedIn(book, x) => l[x] = h[x]
    BY <1>2, <1>8, <1>9
  <2> HIDE DEF h, l
  <2>3. Exact(book, l)
    BY <1>4, <2>1, <2>2, ExactSame
  <2> QED
    BY <1>2, <2>3, ExactThen DEF l
<1>11. OpenIffResting'
  <2>1. st # "open" /\ (st = "created" => taker' = id)
    BY <1>2
  <2>2. \A x \in OrderIds : /\ order'[x].status = "open" <=> QueuedIn(book', x)
                            /\ order'[x].status = "created" => x = taker'
    BY <1>2, <1>3, <1>4, <1>8, <2>1
  <2>3. book' \in Books
    BY <1>2, <1>4
  <2> QED
    BY <2>2, <2>3, OpenThen
<1>12. FillsTraded' /\ NewUnfilled'
  <2>1. \A x \in OrderIds : order'[x].filled = order[x].filled
    BY <1>3, <1>7
  <2>2. trades' \o matches' = trades \o matches
    BY <1>2, <1>4
  <2>3. FillsTraded'
    BY <1>5, <2>1, <2>2, TradedNow, TradedThen
  <2>4. NewUnfilled'
    BY <1>3, <1>5 DEF NewUnfilled
  <2> QED
    BY <2>3, <2>4
<1>13. FOKCovered'
  <2> SUFFICES ASSUME phase' = "matching", order'[taker'].tif = "FOK"
               PROVE  SumOver(Left', Marketable(order[taker])') >= Remaining(order'[taker'])
    BY SumNames DEF FOKCovered
  <2>1. /\ st = "created" /\ taker' = id /\ ~FOKUnfillable(o) /\ o.tif = "FOK"
    BY <1>2, <1>3, <1>6 DEF SameRequest
  <2>2. CanFillFOK(o, book[Opposite(o.side)])
    BY <2>1 DEF FOKUnfillable
  <2>3. SumOver(Left, Marketable(o)) >= o.qty
    BY <1>5, <1>6, <2>2, FillableCovered
  <2>4. Remaining(order'[taker']) = o.qty
    <3> DEFINE r == order'[id]
    <3>1. r.qty = o.qty /\ r.filled = 0
      BY <1>3, <1>6 DEF SameRequest
    <3> HIDE DEF r
    <3>2. Remaining(r) = o.qty
      BY <1>6, <3>1 DEF Remaining
    <3> QED
      BY <2>1, <3>2 DEF r
  <2> DEFINE M == Marketable(o)
             N == Marketable(order[taker])'
  <2>5. N = M
    <3>1. \A p : Crosses(order'[id], p) <=> Crosses(o, p)
      BY <1>3, <1>6 DEF Crosses, SameRequest
    <3>2. N = { x \in OrderIds : /\ order'[x].status = "open"
                                 /\ order'[x].side = Opposite(order'[id].side)
                                 /\ Crosses(order'[id], order'[x].price) }
      BY <2>1 DEF Marketable
    <3>3. order'[id].side = o.side
      BY <1>3, <1>6 DEF SameRequest
    <3>4. M = { x \in OrderIds : /\ order[x].status = "open"
                                 /\ order[x].side = Opposite(o.side)
                                 /\ Crosses(o, order[x].price) }
      BY DEF Marketable
    <3> HIDE DEF M, N
    <3>5. ASSUME NEW x \in OrderIds PROVE x \in N <=> x \in M
      <4>1. CASE x = id
        BY <1>2, <1>3, <2>1, <3>2, <3>4, <4>1
      <4>2. CASE x # id
        BY <1>3, <3>1, <3>2, <3>3, <3>4, <4>2
      <4> QED
        BY <4>1, <4>2
    <3>6. N \subseteq OrderIds /\ M \subseteq OrderIds
      BY <3>2, <3>4
    <3> QED
      BY <3>5, <3>6
  <2>6. SumOver(Left', M) = SumOver(Left, M)
    <3> DEFINE h == Left
               l == Left'
    <3>1. IsFiniteSet(M) /\ \A x \in M : h[x] = l[x]
      <4>1. IsFiniteSet(M) /\ M \subseteq OrderIds /\ \A x \in M : order[x].status = "open"
        BY <1>4, <1>5, MarketableFinite DEF Marketable
      <4> HIDE DEF M
      <4> QED
        BY <1>2, <1>9, <4>1
    <3> HIDE DEF M, h, l
    <3>2. SumOver(h, M) = SumOver(l, M)
      BY <3>1, SumSame
    <3> QED
      BY <3>2 DEF h, l
  <2> HIDE DEF M, N
  <2> QED
    BY <2>3, <2>4, <2>5, <2>6 DEF M, N
<1>14. RestsGTC'
  BY <1>2 DEF RestsGTC
<1>15. ImmediateOrders'
  <2>1. \A x \in OrderIds : x # taker => Immediate(order[x])
    BY <1>5, ImmediateNow
  <2>2. taker' # id => Immediate(order'[id])
    BY <1>2, <1>3 DEF Immediate
  <2>3. \A x \in OrderIds : x # taker' => Immediate(order'[x])
    BY <1>3, <1>4, <2>1, <2>2
  <2> QED
    BY <2>3, ImmediateThen
<1> QED
  BY <1>10, <1>11, <1>12, <1>13, <1>14, <1>15 DEF FillInv

\* One lemma for each action.
LEMMA StepFills == IInv /\ FillInv /\ [Next]_vars => FillInv'
<1> SUFFICES ASSUME IInv, FillInv, [Next]_vars PROVE FillInv'
  OBVIOUS
<1>1. ASSUME NEW id \in OrderIds, NEW req \in Requests, Submit(id, req) PROVE FillInv'
  BY <1>1, SubmitFills
<1>2. CASE Match
  BY <1>2, MatchFills
<1>3. CASE FinishMatch
  BY <1>3, FinishFills
<1>4. CASE AddToBook
  BY <1>4, AddFills
<1>5. ASSUME NEW id \in OrderIds, CancelOrder(id) PROVE FillInv'
  BY <1>5, CancelFills
<1>6. CASE UNCHANGED vars
  BY <1>6, StutterFills
<1> QED
  BY <1>1, <1>2, <1>3, <1>4, <1>5, <1>6 DEF Next

\* FillInv, together with IInv, holds in every reachable state of the shard.
THEOREM FillInvariantHolds == Spec => []FillInv
<1>1. Init => FillInv
  BY InitFills
<1>2. IInv /\ FillInv /\ [Next]_vars => FillInv'
  BY StepFills
<1> QED
  BY <1>1, <1>2, InvariantHolds, PTL DEF Spec

\* The cached volumes are what the queued orders have left, "open" is the status
\* of exactly the orders in the book, and every fill is in a published trade.
THEOREM BookAgrees == Spec => []BookConsistent
<1>1. IInv /\ FillInv => BookConsistent
  <2> SUFFICES ASSUME IInv, FillInv PROVE BookConsistent
    OBVIOUS
  <2>1. ASSUME phase # "matching", NEW id \in OrderIds
        PROVE  order[id].filled = Traded(trades, id)
    <3>1. matches = <<>> /\ trades \in Seq(MatchResult)
      BY <2>1 DEF IInv, MatchesSound, TypeOK
    <3>2. trades \o matches = trades
      BY <3>1, ConcatEmptySeq
    <3> QED
      BY <3>2, TradedNow DEF FillInv
  <2> QED
    BY <2>1 DEF FillInv, BookConsistent, FillsArePublished
<1> QED
  BY <1>1, InvariantHolds, FillInvariantHolds, PTL

\* A fill-or-kill order trades in full or not at all, and neither it nor an
\* immediate-or-cancel order ever rests: what CanFillFOK reads before the loop
\* is still there when the loop comes to it.
THEOREM ImmediateOrdersHold == Spec => []ImmediateOrders
<1>1. FillInv => ImmediateOrders
  BY DEF FillInv
<1> QED
  BY <1>1, FillInvariantHolds, PTL

(***************************************************************************)
(* Price-time priority.                                                    *)
(***************************************************************************)
\* Order x is somewhere before order y in a queue.
Precedes(queue, x, y) ==
    \E k, l \in 1 .. Len(queue) : k < l /\ queue[k] = x /\ queue[l] = y

\* Order x is before order y in one of the levels.
Leads(levels, x, y) ==
    \E j \in 1 .. Len(levels) : Precedes(levels[j].queue, x, y)

\* Who is before whom in new was so in old, unless it is before the newcomer late.
KeepsOrder(new, old, late) ==
    \A x, y : Leads(new, x, y) /\ y # late => Leads(old, x, y)

\* A queue of one order has no order before another.
LEMMA NonePrecedes ==
    ASSUME NEW queue, NEW x, NEW y, Len(queue) = 1
    PROVE  ~Precedes(queue, x, y)
  BY DEF Precedes

\* Taking an order out of a queue leaves the others in their order.
LEMMA RemovePrecedes ==
    ASSUME NEW queue \in Seq(OrderIds), NEW i \in 1 .. Len(queue), NEW x, NEW y,
           Precedes(RemoveAt(queue, i), x, y)
    PROVE  Precedes(queue, x, y)
<1> DEFINE rest == RemoveAt(queue, i)
<1>1. /\ Len(rest) = Len(queue) - 1
      /\ \A j \in 1 .. Len(queue) - 1 :
            rest[j] = IF j < i THEN queue[j] ELSE queue[j+1]
  BY RemoveAtFacts
<1>2. Len(queue) \in Nat
  BY Lengths
<1> HIDE DEF rest
<1>3. PICK k \in 1 .. Len(rest), l \in 1 .. Len(rest) :
         k < l /\ rest[k] = x /\ rest[l] = y
  BY DEF Precedes, rest
<1> DEFINE Old(j) == IF j < i THEN j ELSE j + 1
<1>4. /\ Old(k) \in 1 .. Len(queue) /\ Old(l) \in 1 .. Len(queue) /\ Old(k) < Old(l)
  BY <1>1, <1>2, <1>3
<1>5. queue[Old(k)] = x /\ queue[Old(l)] = y
  BY <1>1, <1>2, <1>3
<1> QED
  BY <1>4, <1>5 DEF Precedes

\* So does popping the first.
LEMMA TailPrecedes ==
    ASSUME NEW queue \in Seq(OrderIds), queue # <<>>, NEW x, NEW y,
           Precedes(Tail(queue), x, y)
    PROVE  Precedes(queue, x, y)
<1> DEFINE rest == Tail(queue)
<1>1. /\ Len(rest) = Len(queue) - 1
      /\ \A j \in 1 .. Len(queue) - 1 : rest[j] = queue[j+1]
  BY HeadTailProperties
<1>2. Len(queue) \in Nat
  BY Lengths
<1> HIDE DEF rest
<1>3. PICK k \in 1 .. Len(rest), l \in 1 .. Len(rest) :
         k < l /\ rest[k] = x /\ rest[l] = y
  BY DEF Precedes, rest
<1>4. /\ k + 1 \in 1 .. Len(queue) /\ l + 1 \in 1 .. Len(queue) /\ k + 1 < l + 1
      /\ queue[k + 1] = x /\ queue[l + 1] = y
  BY <1>1, <1>2, <1>3
<1> QED
  BY <1>4 DEF Precedes

\* An order that joins a queue is before nobody.
LEMMA AppendPrecedes ==
    ASSUME NEW queue \in Seq(OrderIds), NEW id \in OrderIds, NEW x, NEW y, y # id,
           Precedes(Append(queue, id), x, y)
    PROVE  Precedes(queue, x, y)
<1> DEFINE more == Append(queue, id)
<1>1. /\ Len(more) = Len(queue) + 1
      /\ more[Len(queue) + 1] = id
      /\ \A j \in 1 .. Len(queue) : more[j] = queue[j]
      /\ Len(queue) \in Nat
  BY Lengths
<1> HIDE DEF more
<1>2. PICK k \in 1 .. Len(more), l \in 1 .. Len(more) :
         k < l /\ more[k] = x /\ more[l] = y
  BY DEF Precedes, more
<1>3. l # Len(queue) + 1
  BY <1>1, <1>2
<1>4. k \in 1 .. Len(queue) /\ l \in 1 .. Len(queue)
  BY <1>1, <1>2, <1>3
<1> QED
  BY <1>1, <1>2, <1>4 DEF Precedes

\* Each level of new but the i-th is a level of old, and who is before whom in
\* the i-th was so in old.
LEMMA LevelsKeepOrder ==
    ASSUME NEW new, NEW old, NEW late, NEW i,
           \A j \in 1 .. Len(new) : j # i =>
              \E m \in 1 .. Len(old) : new[j] = old[m],
           \A x, y : y # late /\ i \in 1 .. Len(new) /\ Precedes(new[i].queue, x, y)
              => Leads(old, x, y)
    PROVE  KeepsOrder(new, old, late)
<1> SUFFICES ASSUME NEW x, NEW y, y # late,
                    NEW j \in 1 .. Len(new), Precedes(new[j].queue, x, y)
             PROVE  Leads(old, x, y)
  BY DEF KeepsOrder, Leads
<1>1. CASE j = i
  BY <1>1
<1>2. CASE j # i
  <2>1. PICK m \in 1 .. Len(old) : new[j] = old[m]
    BY <1>2
  <2> QED
    BY <2>1 DEF Leads
<1> QED
  BY <1>1, <1>2

\* A trade keeps the order of the side it takes from.
LEMMA ConsumeKeeps ==
    ASSUME NEW levels \in Seq(PriceLevel), levels # <<>>, NoneEmpty(levels),
           NEW q \in Int, NEW done \in BOOLEAN, NEW late
    PROVE  KeepsOrder(Consume(levels, q, done), levels, late)
<1> DEFINE best == [levels[1] EXCEPT !.volume = @ - q]
           queue == levels[1].queue
           popped == [best EXCEPT !.queue = Tail(@)]
<1>1. 1 \in 1 .. Len(levels) /\ levels[1] \in PriceLevel /\ Len(levels) \in Nat
  BY Lengths, ElementOfSeq
<1>2. queue \in Seq(OrderIds) /\ queue # <<>>
  BY <1>1, LevelTypes DEF NoneEmpty
<1>3. best.queue = queue /\ popped.queue = Tail(queue)
  BY <1>1 DEF PriceLevel
<1> HIDE DEF best, popped
<1>4. ASSUME NEW lev, NEW new, new = [levels EXCEPT ![1] = lev],
             \A x, y : Precedes(lev.queue, x, y) => Precedes(queue, x, y)
      PROVE  KeepsOrder(new, levels, late)
  <2>1. /\ Len(new) = Len(levels)
        /\ \A j \in 1 .. Len(levels) : new[j] = IF j = 1 THEN lev ELSE levels[j]
    BY <1>1, <1>4
  <2>2. \A j \in 1 .. Len(new) : j # 1 => \E m \in 1 .. Len(levels) : new[j] = levels[m]
    BY <2>1
  <2>3. \A x, y : Precedes(new[1].queue, x, y) => Leads(levels, x, y)
    BY <1>1, <1>4, <2>1 DEF Leads
  <2> QED
    BY <2>2, <2>3, LevelsKeepOrder
<1>5. CASE ~done
  <2>1. Consume(levels, q, done) = [levels EXCEPT ![1] = best]
    BY <1>5 DEF Consume, best
  <2> QED
    BY <1>3, <1>4, <2>1
<1>6. CASE done /\ Len(queue) = 1
  <2>1. Consume(levels, q, done) = Tail(levels)
    BY <1>6, <1>3 DEF Consume, best
  <2>2. /\ Len(Tail(levels)) = Len(levels) - 1
        /\ \A j \in 1 .. Len(levels) - 1 : Tail(levels)[j] = levels[j+1]
    BY HeadTailProperties
  <2>3. \A j \in 1 .. Len(Tail(levels)) : \E m \in 1 .. Len(levels) :
            Tail(levels)[j] = levels[m]
    <3> SUFFICES ASSUME NEW j \in 1 .. Len(Tail(levels))
                 PROVE  \E m \in 1 .. Len(levels) : Tail(levels)[j] = levels[m]
      OBVIOUS
    <3>1. j + 1 \in 1 .. Len(levels) /\ Tail(levels)[j] = levels[j+1]
      BY <1>1, <2>2
    <3> QED
      BY <3>1
  <2> DEFINE new == Tail(levels)
  <2> HIDE DEF new
  <2>4. KeepsOrder(new, levels, late)
    <3>1. 0 \notin 1 .. Len(new)
      OBVIOUS
    <3> QED
      BY <2>3, <3>1, LevelsKeepOrder DEF new
  <2> QED
    BY <2>1, <2>4 DEF new
<1>7. CASE done /\ Len(queue) # 1
  <2>1. Consume(levels, q, done) = [levels EXCEPT ![1] = popped]
    BY <1>7, <1>3 DEF Consume, best, popped
  <2>2. \A x, y : Precedes(popped.queue, x, y) => Precedes(queue, x, y)
    BY <1>2, <1>3, TailPrecedes
  <2> QED
    BY <1>4, <2>1, <2>2
<1> QED
  BY <1>5, <1>6, <1>7

\* So does a cancellation.
LEMMA DropKeeps ==
    ASSUME order \in [OrderIds -> Order],
           NEW levels \in Seq(PriceLevel),
           NEW i \in 1 .. Len(levels), NEW k \in 1 .. Len(levels[i].queue), NEW late
    PROVE  KeepsOrder(Drop(levels, i, k), levels, late)
<1> DEFINE queue == levels[i].queue
           vol == levels[i].volume - Remaining(order[queue[k]])
           less == [levels[i] EXCEPT !.queue = RemoveAt(queue, k), !.volume = vol]
<1>1. levels[i] \in PriceLevel /\ queue \in Seq(OrderIds) /\ Len(levels) \in Nat
  BY ElementOfSeq, LevelTypes, Lengths
<1>2. CASE Len(queue) = 1
  <2> DEFINE new == RemoveAt(levels, i)
  <2>1. Drop(levels, i, k) = new
    BY <1>2 DEF Drop
  <2>2. /\ Len(new) = Len(levels) - 1
        /\ \A j \in 1 .. Len(levels) - 1 :
              new[j] = IF j < i THEN levels[j] ELSE levels[j+1]
    BY RemoveAtFacts
  <2> HIDE DEF new
  <2>3. ASSUME NEW j \in 1 .. Len(new)
        PROVE  \E m \in 1 .. Len(levels) : new[j] = levels[m]
    <3>1. /\ j \in 1 .. Len(levels) /\ j + 1 \in 1 .. Len(levels)
          /\ new[j] = levels[j] \/ new[j] = levels[j+1]
      BY <1>1, <2>2
    <3> QED
      BY <3>1
  <2>4. KeepsOrder(new, levels, late)
    <3>1. 0 \notin 1 .. Len(new)
      OBVIOUS
    <3> QED
      BY <2>3, <3>1, LevelsKeepOrder
  <2> QED
    BY <2>1, <2>4
<1>3. CASE Len(queue) # 1
  <2> DEFINE new == [levels EXCEPT ![i] = less]
  <2>1. Drop(levels, i, k) = new
    BY <1>3 DEF Drop
  <2>2. less.queue = RemoveAt(queue, k)
    BY <1>1 DEF PriceLevel
  <2> HIDE DEF less
  <2>3. /\ Len(new) = Len(levels)
        /\ \A j \in 1 .. Len(levels) : new[j] = IF j = i THEN less ELSE levels[j]
    OBVIOUS
  <2> HIDE DEF new
  <2>4. \A j \in 1 .. Len(new) : j # i => \E m \in 1 .. Len(levels) : new[j] = levels[m]
    BY <2>3
  <2>5. \A x, y : Precedes(new[i].queue, x, y) => Leads(levels, x, y)
    <3>1. \A x, y : Precedes(less.queue, x, y) => Precedes(queue, x, y)
      BY <1>1, <2>2, RemovePrecedes
    <3> QED
      BY <2>3, <3>1 DEF Leads
  <2>6. KeepsOrder(new, levels, late)
    BY <2>4, <2>5, LevelsKeepOrder
  <2> QED
    BY <2>1, <2>6
<1> QED
  BY <1>2, <1>3

\* An order that is added goes before nobody in its level.
LEMMA AddKeeps ==
    ASSUME order \in [OrderIds -> Order], NEW id \in OrderIds,
           NEW levels \in Seq(PriceLevel), NEW i \in 1 .. Len(levels) + 1
    PROVE  KeepsOrder(AddAt(levels, i, id), levels, id)
<1> DEFINE p == order[id].price
           fits == i <= Len(levels) /\ levels[i].price = p
<1>1. Len(levels) \in Nat /\ p \in Nat
  BY Lengths DEF Order
<1>2. CASE fits
  <2> DEFINE more == Push(levels[i], id)
             new == [levels EXCEPT ![i] = more]
  <2>1. AddAt(levels, i, id) = new
    BY <1>2 DEF AddAt
  <2>2. i \in 1 .. Len(levels)
    BY <1>1, <1>2
  <2>3. levels[i] \in PriceLevel
    BY <2>2, ElementOfSeq
  <2>4. more.queue = Append(levels[i].queue, id) /\ levels[i].queue \in Seq(OrderIds)
    BY <2>3, PushLevel, LevelTypes
  <2> HIDE DEF more
  <2>5. /\ Len(new) = Len(levels)
        /\ \A j \in 1 .. Len(levels) : new[j] = IF j = i THEN more ELSE levels[j]
    BY <2>2
  <2> HIDE DEF new
  <2>6. \A j \in 1 .. Len(new) : j # i => \E m \in 1 .. Len(levels) : new[j] = levels[m]
    BY <2>5
  <2>7. \A x, y : y # id /\ Precedes(new[i].queue, x, y) => Leads(levels, x, y)
    <3>1. \A x, y : y # id /\ Precedes(more.queue, x, y) => Precedes(levels[i].queue, x, y)
      BY <2>4, AppendPrecedes
    <3> QED
      BY <2>2, <2>5, <3>1 DEF Leads
  <2>8. KeepsOrder(new, levels, id)
    BY <2>6, <2>7, LevelsKeepOrder
  <2> QED
    BY <2>1, <2>8
<1>3. CASE ~fits
  <2> DEFINE empty == [price |-> p, queue |-> <<>>, volume |-> 0]
             lev == Push(empty, id)
             new == InsertAt(levels, i, lev)
  <2>1. AddAt(levels, i, id) = new
    BY <1>3 DEF AddAt
  <2>2. lev \in PriceLevel /\ lev.queue = <<id>>
    <3>1. empty \in PriceLevel /\ empty.queue = <<>>
      BY <1>1 DEF PriceLevel
    <3> HIDE DEF empty
    <3>2. Push(empty, id) \in PriceLevel /\ Push(empty, id).queue = Append(<<>>, id)
      BY <3>1, PushLevel
    <3> QED
      BY <3>2
  <2> HIDE DEF lev
  <2>3. /\ Len(new) = Len(levels) + 1
        /\ \A j \in 1 .. Len(levels) + 1 :
              new[j] = IF j < i THEN levels[j] ELSE IF j = i THEN lev ELSE levels[j-1]
    BY <2>2, InsertLevel
  <2> HIDE DEF new
  <2>4. ASSUME NEW j \in 1 .. Len(new), j # i
        PROVE  \E m \in 1 .. Len(levels) : new[j] = levels[m]
    <3>1. CASE j < i
      BY <1>1, <2>3, <3>1
    <3>2. CASE j > i
      <4>1. j - 1 \in 1 .. Len(levels) /\ new[j] = levels[j-1]
        BY <1>1, <2>3, <3>2
      <4> QED
        BY <4>1
    <3> QED
      BY <1>1, <2>3, <2>4, <3>1, <3>2
  <2>5. new[i] = lev /\ Len(lev.queue) = 1
    BY <1>1, <2>2, <2>3
  <2>6. \A x, y : ~Precedes(new[i].queue, x, y)
    BY <2>5, NonePrecedes
  <2>7. KeepsOrder(new, levels, id)
    BY <2>4, <2>6, LevelsKeepOrder
  <2> QED
    BY <2>1, <2>7
<1> QED
  BY <1>2, <1>3

\* Order x is before order y in a queue of book b.
InOrder(b, x, y) == \E s \in Sides : Leads(b[s], x, y)

\* Both rest on one side, x at a better price or before y in a queue.
Ranked(x, y) ==
    /\ Resting(x) /\ Resting(y) /\ order[x].side = order[y].side
    /\ \/ Better(order[x].side, order[x].price, order[y].price)
       \/ InOrder(book, x, y)

\* Of two orders at one price.
Tied(x, y) ==
    /\ x # y /\ Resting(x) /\ Resting(y) /\ order[x].side = order[y].side
    /\ ~Better(order[x].side, order[x].price, order[y].price)
    /\ ~Better(order[x].side, order[y].price, order[x].price)

\* What the shape of the book makes of Ahead, which speaks of levels and places.
Ranking ==
    \A x, y \in OrderIds :
        /\ Ahead(x, y) <=> Ranked(x, y)
        /\ InOrder(book, x, y) =>
              Resting(x) /\ Resting(y) /\ Tied(x, y) /\ ~InOrder(book, y, x)
        /\ Tied(x, y) => InOrder(book, x, y) \/ InOrder(book, y, x)

\* Being before another in a queue, place by place.
LEMMA InOrderAt ==
    ASSUME NEW x, NEW y
    PROVE  InOrder(book, x, y) <=>
              \E s \in Sides : \E i : \E k, l :
                 k < l /\ At(s, i, k, x) /\ At(s, i, l, y)
<1>1. ASSUME InOrder(book, x, y)
      PROVE  \E s \in Sides : \E i : \E k, l : k < l /\ At(s, i, k, x) /\ At(s, i, l, y)
  <2>1. PICK s \in Sides : Leads(book[s], x, y)
    BY <1>1 DEF InOrder
  <2>2. PICK i \in 1 .. Len(book[s]) : Precedes(book[s][i].queue, x, y)
    BY <2>1 DEF Leads
  <2>3. PICK k \in 1 .. Len(book[s][i].queue), l \in 1 .. Len(book[s][i].queue) :
           k < l /\ book[s][i].queue[k] = x /\ book[s][i].queue[l] = y
    BY <2>2 DEF Precedes
  <2>4. At(s, i, k, x) /\ At(s, i, l, y)
    BY <2>3 DEF At
  <2> QED
    BY <2>3, <2>4
<1>2. ASSUME NEW s \in Sides, NEW i, NEW k, NEW l,
             k < l, At(s, i, k, x), At(s, i, l, y)
      PROVE  InOrder(book, x, y)
  BY <1>2 DEF At, InOrder, Leads, Precedes
<1> QED
  BY <1>1, <1>2

\* Resting, place by place.
LEMMA RestingAt ==
    ASSUME NEW x
    PROVE  Resting(x) <=> \E s \in Sides : \E i, k : At(s, i, k, x)
  BY DEF Resting, At

\* What a place says of the order in it.
LEMMA PlaceOf ==
    ASSUME TypeOK, BookWellFormed, NEW s \in Sides, NEW i, NEW k, NEW x \in OrderIds,
           At(s, i, k, x)
    PROVE  /\ i \in 1 .. Len(book[s]) /\ i \in Int /\ k \in Int
           /\ order[x].side = s /\ order[x].price = book[s][i].price
           /\ order[x].price \in Nat
<1>1. order[x].side = s /\ order[x].price = book[s][i].price
  BY SoundSeat
<1>2. order[x].price \in Nat
  BY DEF TypeOK, Order
<1>3. i \in 1 .. Len(book[s]) /\ k \in 1 .. Len(book[s][i].queue)
  BY DEF At
<1> QED
  BY <1>1, <1>2, <1>3

\* The shape of the book ranks its orders.
LEMMA ShapeRanks == TypeOK /\ BookWellFormed => Ranking
<1> SUFFICES ASSUME TypeOK, BookWellFormed, NEW x \in OrderIds, NEW y \in OrderIds
             PROVE  /\ Ahead(x, y) <=> Ranked(x, y)
                    /\ InOrder(book, x, y) =>
                          /\ Resting(x) /\ Resting(y) /\ Tied(x, y)
                          /\ ~InOrder(book, y, x)
                    /\ Tied(x, y) => InOrder(book, x, y) \/ InOrder(book, y, x)
  BY DEF Ranking
<1>1. ASSUME InOrder(book, x, y)
      PROVE  Resting(x) /\ Resting(y) /\ Tied(x, y) /\ ~InOrder(book, y, x)
  <2>1. PICK s, i, k, l : s \in Sides /\ k < l /\ At(s, i, k, x) /\ At(s, i, l, y)
    BY <1>1, InOrderAt
  <2>2. Resting(x) /\ Resting(y)
    BY <2>1, RestingAt
  <2>3. /\ order[x].side = s /\ order[y].side = s
        /\ order[x].price = order[y].price /\ order[x].price \in Nat
        /\ k \in Int /\ l \in Int
    BY <2>1, PlaceOf
  <2>4. ~InOrder(book, y, x)
    <3> SUFFICES ASSUME InOrder(book, y, x) PROVE FALSE
      OBVIOUS
    <3>1. PICK t, j, m, n : t \in Sides /\ m < n /\ At(t, j, m, y) /\ At(t, j, n, x)
      BY InOrderAt
    <3>2. m = l /\ n = k
      BY <2>1, <3>1, OneSeat
    <3> QED
      BY <2>1, <2>3, <3>1, <3>2
  <2>5. x # y
    BY <1>1, <2>4
  <2> QED
    BY <2>2, <2>3, <2>4, <2>5 DEF Tied, Better
<1>2. ASSUME Tied(x, y) PROVE InOrder(book, x, y) \/ InOrder(book, y, x)
  <2>1. PICK s, i, k : s \in Sides /\ At(s, i, k, x)
    BY <1>2, RestingAt DEF Tied
  <2>2. PICK t, j, l : t \in Sides /\ At(t, j, l, y)
    BY <1>2, RestingAt DEF Tied
  <2>3. /\ i \in 1 .. Len(book[s]) /\ i \in Int /\ k \in Int
        /\ order[x].side = s /\ order[x].price = book[s][i].price
    BY <2>1, PlaceOf
  <2>4. /\ j \in 1 .. Len(book[t]) /\ j \in Int /\ l \in Int
        /\ order[y].side = t /\ order[y].price = book[t][j].price
    BY <2>2, PlaceOf
  <2>5. s = t /\ i = j
    <3>1. s = t
      BY <1>2, <2>3, <2>4 DEF Tied
    <3>2. ~Better(s, book[s][i].price, book[s][j].price)
      BY <1>2, <2>3, <2>4, <3>1 DEF Tied
    <3>3. ~Better(s, book[s][j].price, book[s][i].price)
      BY <1>2, <2>3, <2>4, <3>1 DEF Tied
    <3>4. /\ i < j => Better(s, book[s][i].price, book[s][j].price)
          /\ j < i => Better(s, book[s][j].price, book[s][i].price)
      <4>1. s \in Sides /\ i \in 1 .. Len(book[s]) /\ j \in 1 .. Len(book[s])
        BY <2>1, <2>3, <2>4, <3>1
      <4> QED
        BY <4>1 DEF BookWellFormed, LevelsSorted
    <3> QED
      BY <2>3, <2>4, <3>1, <3>2, <3>3, <3>4
  <2>6. k # l
    BY <1>2, <2>1, <2>2, <2>5 DEF Tied, At
  <2>7. k < l \/ l < k
    BY <2>3, <2>4, <2>6
  <2> QED
    BY <2>1, <2>2, <2>5, <2>7, InOrderAt
<1>3. ASSUME Ahead(x, y) PROVE Ranked(x, y)
  <2>1. PICK s, i, j, k, l :
           /\ s \in Sides
           /\ At(s, i, k, x) /\ At(s, j, l, y)
           /\ \/ Better(s, book[s][i].price, book[s][j].price)
              \/ i = j /\ k < l
    BY <1>3 DEF Ahead
  <2>2. Resting(x) /\ Resting(y)
    BY <2>1, RestingAt
  <2>3. /\ order[x].side = s /\ order[y].side = s
        /\ order[x].price = book[s][i].price /\ order[y].price = book[s][j].price
    BY <2>1, SoundSeat
  <2>4. i = j /\ k < l => InOrder(book, x, y)
    BY <2>1, InOrderAt
  <2> QED
    BY <2>1, <2>2, <2>3, <2>4 DEF Ranked
<1>4. ASSUME Ranked(x, y) PROVE Ahead(x, y)
  <2>1. CASE InOrder(book, x, y)
    <3>1. PICK s, i, k, l : s \in Sides /\ k < l /\ At(s, i, k, x) /\ At(s, i, l, y)
      BY <2>1, InOrderAt
    <3> QED
      BY <3>1 DEF Ahead, At
  <2>2. CASE Better(order[x].side, order[x].price, order[y].price)
    <3>1. PICK s, i, k : s \in Sides /\ At(s, i, k, x)
      BY <1>4, RestingAt DEF Ranked
    <3>2. PICK t, j, l : t \in Sides /\ At(t, j, l, y)
      BY <1>4, RestingAt DEF Ranked
    <3>3. /\ order[x].side = s /\ order[y].side = t
          /\ order[x].price = book[s][i].price /\ order[y].price = book[t][j].price
      BY <3>1, <3>2, SoundSeat
    <3>4. s = t /\ Better(s, book[s][i].price, book[s][j].price)
      BY <1>4, <2>2, <3>3 DEF Ranked
    <3>5. At(s, j, l, y)
      BY <3>2, <3>4
    <3> QED
      BY <3>1, <3>4, <3>5 DEF Ahead, At
  <2> QED
    BY <1>4, <2>1, <2>2 DEF Ranked
<1> QED
  BY <1>1, <1>2, <1>3, <1>4

\* The same after a step.
LEMMA ShapeRanksThen == IInv' => Ranking'
<1>1. IInv => Ranking
  BY ShapeRanks DEF IInv
<1> QED
  BY <1>1, PTL

\* One side of the book changes, and keeps its order.
LEMMA SideKeepsOrder ==
    ASSUME book \in Books, NEW side \in Sides, NEW new,
           book' = [book EXCEPT ![side] = new], NEW late,
           KeepsOrder(new, book[side], late),
           NEW x, NEW y, y # late, InOrder(book', x, y)
    PROVE  InOrder(book, x, y)
<1>1. PICK s \in Sides : Leads(book'[s], x, y)
  BY DEF InOrder
<1>2. book'[s] = IF s = side THEN new ELSE book[s]
  BY DEF Books
<1>3. Leads(book[s], x, y)
  BY <1>1, <1>2 DEF KeepsOrder
<1> QED
  BY <1>3 DEF InOrder

\* What a step leaves to the orders that rest: who is before whom, sides and
\* prices, and what an order has traded that another is ahead of.
StepKeeps ==
    /\ \A x, y \in OrderIds : y # taker /\ InOrder(book', x, y) => InOrder(book, x, y)
    /\ \A x \in OrderIds : Resting(x) =>
          order'[x].side = order[x].side /\ order'[x].price = order[x].price
    /\ \A x, y \in OrderIds : Ahead(x, y) => order'[y].filled = order[y].filled

\* A resting order is open, and so not the taker.
LEMMA RestingOpen ==
    ASSUME IInv, NEW x \in OrderIds, Resting(x)
    PROVE  order[x].status = "open" /\ x # taker
<1>1. PICK s, i, k : s \in Sides /\ At(s, i, k, x)
  BY RestingAt
<1>2. order[x].status = "open"
  BY <1>1, SoundSeat DEF IInv
<1>3. taker \in OrderIds => order[taker].status = "created"
  BY DEF IInv, TypeOK, TakerSound
<1> QED
  BY <1>2, <1>3

\* No order is ahead of the one the taker meets.
LEMMA MakerFirst ==
    ASSUME IInv, NEW s \in Sides, NEW maker, At(s, 1, 1, maker), NEW x
    PROVE  ~Ahead(x, maker)
<1> SUFFICES ASSUME Ahead(x, maker) PROVE FALSE
  OBVIOUS
<1>1. PICK t, i, j, k, l :
         /\ t \in Sides
         /\ At(t, i, k, x) /\ At(t, j, l, maker)
         /\ \/ Better(t, book[t][i].price, book[t][j].price)
            \/ i = j /\ k < l
  BY DEF Ahead
<1>2. t = s /\ j = 1 /\ l = 1
  BY <1>1, OneSeat DEF IInv
<1>3. i \in 1 .. Len(book[s]) /\ k \in 1 .. Len(book[s][i].queue) /\ 1 \in 1 .. Len(book[s])
  BY <1>1, <1>2 DEF At
<1>4. Better(s, book[s][i].price, book[s][1].price)
  BY <1>1, <1>2, <1>3
<1>5. book[s][i].price \in Nat /\ book[s][1].price \in Nat
  <2>1. book[s] \in Seq(PriceLevel)
    BY DEF IInv, TypeOK
  <2> QED
    BY <1>3, <2>1, ElementOfSeq, LevelTypes
<1>6. 1 < i => Better(s, book[s][1].price, book[s][i].price)
  BY <1>3 DEF IInv, BookWellFormed, LevelsSorted
<1> QED
  BY <1>3, <1>4, <1>5, <1>6 DEF Better

\* A request leaves the orders that rest alone.
LEMMA SubmitKeeps ==
    ASSUME IInv, NEW id \in OrderIds, NEW req \in Requests, Submit(id, req)
    PROVE  StepKeeps
<1>1. PICK st : SubmitStep(id, req, st)
  BY SubmitEffect
<1>2. /\ book' = book /\ order[id].status = "none"
      /\ \A x \in OrderIds : x # id => order'[x] = order[x]
  BY <1>1 DEF SubmitStep, Submitted
<1>3. ASSUME NEW x \in OrderIds, Resting(x) PROVE order'[x] = order[x]
  BY <1>2, <1>3, RestingOpen
<1>4. ASSUME NEW x, NEW y, Ahead(x, y) PROVE Resting(y)
  BY <1>4, RestingAt DEF Ahead
<1> QED
  BY <1>2, <1>3, <1>4 DEF StepKeeps

\* A trade moves only the taker and the first maker.
LEMMA MatchKeeps == ASSUME IInv, Match PROVE StepKeeps
<1>1. PICK opp, maker, q, done : MatchStep(opp, maker, q, done)
  BY MatchEffect
<1> DEFINE new == Consume(book[opp], q, done)
<1>2. /\ opp \in Sides /\ At(opp, 1, 1, maker)
      /\ taker \in OrderIds /\ maker \in OrderIds
      /\ q \in Int /\ done \in BOOLEAN
      /\ book' = [book EXCEPT ![opp] = new]
      /\ \A x \in OrderIds : x # taker /\ x # maker => order'[x] = order[x]
      /\ SameRequest(order[taker], order'[taker])
      /\ SameRequest(order[maker], order'[maker])
  BY <1>1 DEF MatchStep, Filled
<1>3. book \in Books /\ NoneEmpty(book[opp]) /\ book[opp] \in Seq(PriceLevel)
  BY <1>2 DEF IInv, TypeOK, Books, BookWellFormed, QueuesSound, NoneEmpty
<1>4. book[opp] # <<>>
  BY <1>2, <1>3, Lengths DEF At
<1>5. KeepsOrder(new, book[opp], taker)
  BY <1>2, <1>3, <1>4, ConsumeKeeps
<1> HIDE DEF new
<1>6. ASSUME NEW x \in OrderIds, NEW y \in OrderIds, y # taker, InOrder(book', x, y)
      PROVE  InOrder(book, x, y)
  BY <1>2, <1>3, <1>5, <1>6, SideKeepsOrder
<1>7. \A x \in OrderIds : order'[x].side = order[x].side /\ order'[x].price = order[x].price
  BY <1>2 DEF SameRequest
<1>8. ASSUME NEW x \in OrderIds, NEW y \in OrderIds, Ahead(x, y)
      PROVE  order'[y].filled = order[y].filled
  <2>1. Resting(y)
    BY <1>8, RestingAt DEF Ahead
  <2>2. y # taker
    BY <2>1, RestingOpen
  <2>3. y # maker
    BY <1>2, <1>8, MakerFirst
  <2> QED
    BY <1>2, <2>2, <2>3
<1> QED
  BY <1>6, <1>7, <1>8 DEF StepKeeps

\* A step that only sets a status and changes the book on one side.
LEMMA StatusKeeps ==
    ASSUME NEW id, NEW st, StatusSet(id, st),
           \A x, y \in OrderIds : y # taker /\ InOrder(book', x, y) => InOrder(book, x, y)
    PROVE  StepKeeps
<1>1. \A x \in OrderIds : /\ order'[x].side = order[x].side
                          /\ order'[x].price = order[x].price
                          /\ order'[x].filled = order[x].filled
  BY DEF StatusSet, SameRequest
<1> QED
  BY <1>1 DEF StepKeeps

\* The end of the loop leaves the book alone.
LEMMA FinishKeeps == ASSUME IInv, FinishMatch PROVE StepKeeps
<1> DEFINE out == Outcome(order[taker])
<1> HIDE DEF out
<1>1. StatusSet(taker, out) /\ book' = book
  BY FinishEffect DEF FinishStep, out
<1> QED
  BY <1>1, StatusKeeps

\* The order that comes to rest is the taker.
LEMMA AddKeepsPriority == ASSUME IInv, AddToBook PROVE StepKeeps
<1>1. PICK side, i : AddStep(side, i)
  BY AddEffect
<1> DEFINE new == AddAt(book[side], i, taker)
<1>2. /\ side \in Sides /\ taker \in OrderIds /\ StatusSet(taker, "open")
      /\ i \in 1 .. Len(book[side]) + 1
      /\ book' = [book EXCEPT ![side] = new]
  BY <1>1 DEF AddStep
<1>3. /\ book \in Books /\ book[side] \in Seq(PriceLevel)
      /\ order \in [OrderIds -> Order]
  BY <1>2 DEF IInv, TypeOK, Books
<1>4. KeepsOrder(new, book[side], taker)
  BY <1>2, <1>3, AddKeeps
<1> HIDE DEF new
<1>5. ASSUME NEW x \in OrderIds, NEW y \in OrderIds, y # taker, InOrder(book', x, y)
      PROVE  InOrder(book, x, y)
  BY <1>2, <1>3, <1>4, <1>5, SideKeepsOrder
<1> QED
  BY <1>2, <1>5, StatusKeeps

\* A cancellation takes one order out.
LEMMA CancelKeeps ==
    ASSUME IInv, NEW id \in OrderIds, CancelOrder(id) PROVE StepKeeps
<1>1. PICK side, i, k : CancelStep(side, i, k, id)
  BY CancelEffect
<1> DEFINE new == Drop(book[side], i, k)
<1>2. /\ side \in Sides /\ StatusSet(id, "cancelled")
      /\ i \in 1 .. Len(book[side]) /\ k \in 1 .. Len(book[side][i].queue)
      /\ book' = [book EXCEPT ![side] = new]
  BY <1>1 DEF CancelStep
<1>3. /\ book \in Books /\ book[side] \in Seq(PriceLevel)
      /\ order \in [OrderIds -> Order]
  BY <1>2 DEF IInv, TypeOK, Books
<1>4. KeepsOrder(new, book[side], taker)
  BY <1>2, <1>3, DropKeeps
<1> HIDE DEF new
<1>5. ASSUME NEW x \in OrderIds, NEW y \in OrderIds, y # taker, InOrder(book', x, y)
      PROVE  InOrder(book, x, y)
  BY <1>2, <1>3, <1>4, <1>5, SideKeepsOrder
<1> QED
  BY <1>2, <1>5, StatusKeeps

\* And so every step.
LEMMA NextKeeps == ASSUME IInv, Next PROVE StepKeeps
  BY SubmitKeeps, MatchKeeps, FinishKeeps, AddKeepsPriority, CancelKeeps DEF Next

\* PriceTimePriority for two orders.
PriorityOf(a, b) ==
    /\ Ahead(a, b) => order'[b].filled = order[b].filled
    /\ Ahead(a, b) /\ Resting(a)' /\ Resting(b)' => Ahead(a, b)'
    /\ /\ Resting(a) /\ ~Resting(b)
       /\ Resting(a)' /\ Resting(b)'
       /\ order[a].side = order'[b].side
       /\ ~Better(order[a].side, order'[b].price, order[a].price)
       => Ahead(a, b)'

\* A step of the shard keeps the priority of any two orders.
LEMMA PriorityStep ==
    ASSUME IInv, IInv', Next, NEW a \in OrderIds, NEW b \in OrderIds
    PROVE  PriorityOf(a, b)
<1>1. StepKeeps
  BY NextKeeps
<1>2. Ranking /\ Ranking'
  BY ShapeRanks, ShapeRanksThen DEF IInv
<1>3. /\ Ahead(a, b)' <=> Ranked(a, b)'
      /\ Tied(a, b)' => InOrder(book', a, b) \/ InOrder(book', b, a)
  BY <1>2 DEF Ranking
<1>4. /\ Ahead(a, b) <=> Ranked(a, b)
      /\ InOrder(book, a, b) => Tied(a, b) /\ ~InOrder(book, b, a)
      /\ InOrder(book, b, a) => Resting(b)
  BY <1>2 DEF Ranking
<1>5. Resting(a) => a # taker
  BY RestingOpen
<1>6. Resting(a) => (InOrder(book', b, a) => InOrder(book, b, a))
  BY <1>1, <1>5 DEF StepKeeps
<1>7. ASSUME Ahead(a, b), Resting(a)', Resting(b)' PROVE Ahead(a, b)'
  <2>1. /\ Resting(a) /\ Resting(b) /\ order[a].side = order[b].side
        /\ Better(order[a].side, order[a].price, order[b].price) \/ InOrder(book, a, b)
    BY <1>4, <1>7 DEF Ranked
  <2>2. /\ order'[a].side = order[a].side /\ order'[a].price = order[a].price
        /\ order'[b].side = order[b].side /\ order'[b].price = order[b].price
    BY <1>1, <2>1 DEF StepKeeps
  <2>3. CASE Better(order[a].side, order[a].price, order[b].price)
    BY <1>3, <1>7, <2>1, <2>2, <2>3 DEF Ranked
  <2>4. CASE InOrder(book, a, b)
    <3>1. Tied(a, b) /\ ~InOrder(book, b, a)
      BY <1>4, <2>4
    <3>2. Tied(a, b)'
      BY <1>7, <2>2, <3>1 DEF Tied
    <3>3. InOrder(book', a, b)
      BY <1>3, <1>6, <2>1, <3>1, <3>2
    <3> QED
      BY <1>3, <1>7, <2>1, <2>2, <3>3 DEF Ranked
  <2> QED
    BY <2>1, <2>3, <2>4
<1>8. ASSUME Resting(a), ~Resting(b), Resting(a)', Resting(b)',
             order[a].side = order'[b].side,
             ~Better(order[a].side, order'[b].price, order[a].price)
      PROVE  Ahead(a, b)'
  <2>1. order'[a].side = order[a].side /\ order'[a].price = order[a].price
    BY <1>1, <1>8 DEF StepKeeps
  <2>2. CASE Better(order[a].side, order[a].price, order'[b].price)
    BY <1>3, <1>8, <2>1, <2>2 DEF Ranked
  <2>3. CASE ~Better(order[a].side, order[a].price, order'[b].price)
    <3>1. a # b
      BY <1>8
    <3>2. Tied(a, b)'
      BY <1>8, <2>1, <2>3, <3>1 DEF Tied
    <3>3. ~InOrder(book', b, a)
      BY <1>4, <1>6, <1>8
    <3> QED
      BY <1>3, <1>8, <2>1, <3>2, <3>3 DEF Ranked
  <2> QED
    BY <2>2, <2>3
<1> QED
  BY <1>1, <1>7, <1>8 DEF PriorityOf, StepKeeps

\* Price-time priority: nobody trades before an order that is ahead of it, the
\* orders in the book keep their ranks, and a new one goes behind its equals.
THEOREM PriorityKept == Spec => PriceTimePriority
<1>1. IInv /\ IInv' /\ [Next]_vars =>
        [\A a, b \in OrderIds : PriorityOf(a, b)]_vars
  BY PriorityStep
<1> QED
  BY <1>1, InvariantHolds, PTL DEF Spec, PriceTimePriority, PriorityOf

(***************************************************************************)
(* The shard implements OrderLife.                                         *)
(***************************************************************************)
\* A step leaves what an order asked for as it is, or writes a request's.
LEMMA StepAsked == IInv /\ AskedFor /\ [Next]_vars => AskedFor'
<1> SUFFICES ASSUME IInv, AskedFor, [Next]_vars, NEW x \in OrderIds,
                    order'[x].status # "none"
             PROVE  \E req \in Requests :
                       /\ req.type = order'[x].type
                       /\ req.tif = order'[x].tif /\ req.qty = order'[x].qty
  BY DEF AskedFor
<1> DEFINE Asked(o) == \E req \in Requests :
                          req.type = o.type /\ req.tif = o.tif /\ req.qty = o.qty
<1>1. order[x].status # "none" => Asked(order[x])
  BY DEF AskedFor
<1>2. ASSUME NEW id \in OrderIds, NEW st, order[id].status # "none", StatusSet(id, st)
      PROVE  Asked(order'[x])
  <2>1. CASE x = id
    BY <1>1, <1>2, <2>1 DEF StatusSet, SameRequest
  <2>2. CASE x # id
    <3>1. order'[x] = order[x]
      BY <1>2, <2>2 DEF StatusSet
    <3> QED
      BY <1>1, <3>1
  <2> QED
    BY <2>1, <2>2
<1>3. ASSUME NEW id \in OrderIds, NEW req \in Requests, Submit(id, req)
      PROVE  Asked(order'[x])
  <2>1. PICK st : SubmitStep(id, req, st)
    BY <1>3, SubmitEffect
  <2>2. /\ \A y \in OrderIds : y # id => order'[y] = order[y]
        /\ SameRequest(req, order'[id])
    BY <2>1 DEF SubmitStep, Submitted
  <2>3. CASE x = id
    BY <2>2, <2>3 DEF SameRequest
  <2>4. CASE x # id
    <3>1. order'[x] = order[x]
      BY <2>2, <2>4
    <3> QED
      BY <1>1, <3>1
  <2> QED
    BY <2>3, <2>4
<1>4. CASE Match
  <2>1. PICK opp, maker, q, done : MatchStep(opp, maker, q, done)
    BY <1>4, MatchEffect
  <2>2. /\ \A y \in OrderIds : y # taker /\ y # maker => order'[y] = order[y]
        /\ SameRequest(order[taker], order'[taker]) /\ order[taker].status # "none"
        /\ SameRequest(order[maker], order'[maker]) /\ order[maker].status # "none"
    BY <2>1 DEF MatchStep, Filled
  <2>3. CASE x \in {taker, maker}
    BY <1>1, <2>2, <2>3 DEF SameRequest
  <2>4. CASE x \notin {taker, maker}
    <3>1. order'[x] = order[x]
      BY <2>2, <2>4
    <3> QED
      BY <1>1, <3>1
  <2> QED
    BY <2>3, <2>4
<1>5. CASE FinishMatch
  <2>1. /\ taker \in OrderIds /\ order[taker].status # "none"
        /\ StatusSet(taker, Outcome(order[taker]))
    BY <1>5, FinishEffect DEF FinishStep
  <2> QED
    BY <1>2, <2>1
<1>6. CASE AddToBook
  <2>1. taker \in OrderIds /\ order[taker].status # "none" /\ StatusSet(taker, "open")
    BY <1>6, AddEffect DEF AddStep
  <2> QED
    BY <1>2, <2>1
<1>7. ASSUME NEW id \in OrderIds, CancelOrder(id) PROVE Asked(order'[x])
  <2>1. order[id].status # "none" /\ StatusSet(id, "cancelled")
    BY <1>7, CancelEffect DEF CancelStep
  <2> QED
    BY <1>2, <2>1
<1>8. CASE UNCHANGED vars
  BY <1>1, <1>8 DEF vars
<1> QED
  BY <1>3, <1>4, <1>5, <1>6, <1>7, <1>8 DEF Next

\* The lives of the orders, and what an order that is not answered shows.
Lives == [id \in OrderIds |-> Standing(order[id])]

LEMMA StandingIs ==
    ASSUME NEW o
    PROVE  /\ o.status \in {"none", "created"} => Standing(o) = Life!Unknown
           /\ o.status \notin {"none", "created"} =>
                 /\ Standing(o) = [type |-> o.type, tif |-> o.tif, qty |-> o.qty,
                                   filled |-> o.filled, status |-> o.status]
                 /\ Standing(o).status = o.status
  BY DEF Standing, Life!Unknown

\* Where no order shows a change, no life changes; where one does, one life does.
LEMMA LivesSame ==
    ASSUME \A x \in OrderIds : Standing(order'[x]) = Standing(order[x])
    PROVE  Lives' = Lives
  BY DEF Lives

LEMMA LivesChange ==
    ASSUME NEW id \in OrderIds, NEW o, o = Standing(order'[id]),
           \A x \in OrderIds : x # id => Standing(order'[x]) = Standing(order[x])
    PROVE  Lives' = [Lives EXCEPT ![id] = o] /\ Lives[id] = Standing(order[id])
  BY DEF Lives

\* The answer to a request is one that OrderLife allows.
LEMMA AnswerStep ==
    ASSUME NEW id \in OrderIds, NEW req \in Requests,
           order[id].status \in {"none", "created"},
           \A x \in OrderIds : x # id => Standing(order'[x]) = Standing(order[x]),
           Standing(order'[id]) \in Life!Answers(req)
    PROVE  Life!Next
<1> DEFINE o == Standing(order'[id])
<1>1. Lives' = [Lives EXCEPT ![id] = o] /\ Lives[id] = Standing(order[id])
  BY LivesChange
<1>2. Standing(order[id]).status = "none"
  BY StandingIs DEF Life!Unknown
<1> HIDE DEF o
<1>3. Lives[id].status = "none" /\ \E r \in Life!Answers(req) : Lives' = [Lives EXCEPT ![id] = r]
  BY <1>1, <1>2 DEF o
<1>4. Life!Answer(id, req)
  BY <1>3 DEF Life!Answer, Lives
<1> QED
  BY <1>4 DEF Life!Next

\* The rules of Answers, one for each way an order can be answered.
LEMMA AnswerAllowed ==
    ASSUME NEW req \in Requests, NEW o,
           o.type = req.type, o.tif = req.tif, o.qty = req.qty,
           o.filled \in Nat, o.filled <= req.qty,
           \/ o.status = "filled" /\ o.filled = req.qty
           \/ o.status = "rejected" /\ o.filled = 0 /\ (req.tif = "FOK" \/ req.type = "market")
           \/ o.status = "cancelled" /\ o.filled < req.qty /\ req.tif = "IOC"
           \/ o.status = "open" /\ o.filled < req.qty /\ req.tif = "GTC"
    PROVE  Standing(o) \in Life!Answers(req)
<1>1. req.qty \in Nat /\ req.qty > 0
  BY RequestsAssumption DEF RequestType
<1>2. Standing(o) = [type |-> req.type, tif |-> req.tif, qty |-> req.qty,
                     filled |-> o.filled, status |-> o.status]
  BY StandingIs
<1>3. \A F, S : o.filled \in F /\ o.status \in S => Standing(o) \in Life!Standing(req, F, S)
  BY <1>2 DEF Life!Standing
<1>4. CASE o.status = "filled"
  BY <1>3, <1>4 DEF Life!Answers
<1>5. CASE o.status = "rejected"
  BY <1>3, <1>5 DEF Life!Answers
<1>6. CASE o.status \in {"cancelled", "open"}
  <2> DEFINE after == CASE req.tif = "IOC" -> {"cancelled"}
                        [] req.tif = "FOK" -> {}
                        [] OTHER -> {"open"}
  <2>1. o.filled \in 0 .. req.qty - 1
    BY <1>1, <1>6
  <2>2. o.status \in after
    BY <1>6
  <2> HIDE DEF after
  <2>3. Standing(o) \in Life!Standing(req, 0 .. req.qty - 1, after)
    BY <1>3, <2>1, <2>2
  <2> QED
    BY <2>3 DEF Life!Answers, after
<1> QED
  BY <1>4, <1>5, <1>6

LEMMA SubmitLife ==
    ASSUME IInv, NEW id \in OrderIds, NEW req \in Requests, Submit(id, req)
    PROVE  Life!Next \/ Lives' = Lives
<1>1. PICK st : SubmitStep(id, req, st)
  BY SubmitEffect
<1>2. /\ order[id].status = "none"
      /\ \/ st = "rejected" /\ (req.tif = "FOK" \/ req.type = "market")
         \/ st = "created"
  BY <1>1 DEF SubmitStep
<1>3. /\ \A x \in OrderIds : x # id => order'[x] = order[x]
      /\ SameRequest(req, order'[id])
      /\ order'[id].filled = 0 /\ order'[id].status = st
  BY <1>1 DEF SubmitStep, Submitted
<1>4. \A x \in OrderIds : x # id => Standing(order'[x]) = Standing(order[x])
  BY <1>3
<1>5. CASE st = "created"
  <2>1. Standing(order'[id]) = Standing(order[id])
    BY <1>2, <1>3, <1>5, StandingIs
  <2>2. Lives' = Lives
    BY <1>4, <2>1, LivesSame
  <2> QED
    BY <2>2
<1>6. CASE st = "rejected"
  <2> DEFINE o == order'[id]
  <2>1. /\ o.type = req.type /\ o.tif = req.tif /\ o.qty = req.qty
        /\ o.filled = 0 /\ o.status = "rejected"
        /\ req.tif = "FOK" \/ req.type = "market"
    BY <1>2, <1>3, <1>6 DEF SameRequest
  <2> HIDE DEF o
  <2>2. 0 <= req.qty
    BY RequestsAssumption DEF RequestType
  <2>3. Standing(o) \in Life!Answers(req)
    BY <2>1, <2>2, AnswerAllowed
  <2>4. Life!Next
    BY <1>2, <1>4, <2>3, AnswerStep DEF o
  <2> QED
    BY <2>4
<1> QED
  BY <1>2, <1>5, <1>6

\* The taker shows nothing yet; the maker trades as one.
LEMMA MatchLife ==
    ASSUME IInv, Match
    PROVE  Life!Next
<1>1. PICK opp, maker, q, done : MatchStep(opp, maker, q, done)
  BY MatchEffect
<1> DEFINE m == order[maker]
           n == order'[maker]
           o == Standing(n)
<1>2. /\ taker \in OrderIds /\ maker \in OrderIds /\ maker # taker
      /\ order[taker].status = "created" /\ order'[taker].status = "created"
      /\ m.status = "open"
      /\ q \in Nat /\ q > 0 /\ q <= Remaining(m)
      /\ done \in BOOLEAN /\ (done <=> Remaining(m) = q)
      /\ \A x \in OrderIds : x # taker /\ x # maker => order'[x] = order[x]
      /\ SameRequest(m, n) /\ n.filled = m.filled + q
      /\ n.status = IF done THEN "filled" ELSE "open"
  BY <1>1 DEF MatchStep, Filled
<1>3. \A x \in OrderIds : x # maker => Standing(order'[x]) = Standing(order[x])
  <2>1. Standing(order'[taker]) = Standing(order[taker])
    BY <1>2, StandingIs
  <2> QED
    BY <1>2, <2>1
<1>4. Lives' = [Lives EXCEPT ![maker] = o] /\ Lives[maker] = Standing(m)
  BY <1>2, <1>3, LivesChange
<1>5. m.qty \in Nat /\ m.filled \in Nat /\ n.qty = m.qty /\ n.type = m.type /\ n.tif = m.tif
  BY <1>2, Typed DEF Order, SameRequest
<1> HIDE DEF m, n
<1>6. /\ Standing(m) = [type |-> m.type, tif |-> m.tif, qty |-> m.qty,
                        filled |-> m.filled, status |-> m.status]
      /\ o = [type |-> m.type, tif |-> m.tif, qty |-> m.qty,
              filled |-> m.filled + q, status |-> n.status]
  BY <1>2, <1>5, StandingIs
<1>7. q \in 1 .. m.qty - m.filled /\ (done <=> m.filled + q = m.qty)
  BY <1>2, <1>5 DEF Remaining
<1> HIDE DEF o
<1>8. /\ Lives[maker].status = "open" /\ Lives[maker].qty = m.qty
      /\ Lives[maker].filled = m.filled
      /\ Lives' = [Lives EXCEPT ![maker] = o]
  BY <1>2, <1>4, <1>6
<1>9. [Lives EXCEPT ![maker].filled = @ + q,
                    ![maker].status = IF Lives[maker].filled + q = Lives[maker].qty
                                      THEN "filled" ELSE "open"] = Lives'
  <2> DEFINE st == IF Lives[maker].filled + q = Lives[maker].qty THEN "filled" ELSE "open"
             sum == Lives[maker].filled + q
  <2>1. st = n.status /\ sum = m.filled + q
    BY <1>2, <1>7, <1>8
  <2> HIDE DEF st, sum
  <2>2. Lives[maker] = [type |-> m.type, tif |-> m.tif, qty |-> m.qty,
                        filled |-> m.filled, status |-> m.status]
    BY <1>4, <1>6
  <2>3. [[Lives[maker] EXCEPT !.filled = sum] EXCEPT !.status = st] = o
    <3> DEFINE r == [type |-> m.type, tif |-> m.tif, qty |-> m.qty,
                     filled |-> m.filled, status |-> m.status]
               s == [r EXCEPT !.filled = sum]
    <3>1. s = [type |-> m.type, tif |-> m.tif, qty |-> m.qty,
               filled |-> sum, status |-> m.status]
      OBVIOUS
    <3> HIDE DEF s
    <3>2. [s EXCEPT !.status = st] = [type |-> m.type, tif |-> m.tif, qty |-> m.qty,
                                      filled |-> sum, status |-> st]
      BY <3>1
    <3>3. [s EXCEPT !.status = st] = o
      BY <1>6, <2>1, <3>2
    <3> QED
      BY <2>2, <3>3 DEF s
  <2>4. [Lives EXCEPT ![maker] = [[Lives[maker] EXCEPT !.filled = sum] EXCEPT !.status = st]]
          = Lives'
    BY <1>8, <2>3
  <2> QED
    BY <1>2, <2>4 DEF st, sum, Lives
<1>10. Life!TradeAsMaker(maker)
  <2>1. \E p \in 1 .. Lives[maker].qty - Lives[maker].filled :
           Lives' = [Lives EXCEPT
                       ![maker].filled = @ + p,
                       ![maker].status = IF Lives[maker].filled + p = Lives[maker].qty
                                         THEN "filled" ELSE "open"]
    BY <1>7, <1>8, <1>9
  <2> QED
    BY <1>8, <2>1 DEF Life!TradeAsMaker, Lives
<1> QED
  BY <1>2, <1>10 DEF Life!Next

\* The end of a request answers it, or it goes on to the book.
LEMMA FinishLife ==
    ASSUME IInv, FillInv, AskedFor, FinishMatch
    PROVE  Life!Next \/ Lives' = Lives
<1> DEFINE o == order[taker]
           n == order'[taker]
           out == Outcome(o)
<1>1. FinishStep(out)
  BY FinishEffect
<1>2. /\ taker \in OrderIds /\ o.status = "created"
      /\ \A x \in OrderIds : x # taker => order'[x] = order[x]
      /\ SameRequest(o, n) /\ n.filled = o.filled /\ n.status = out
      /\ out \in {"filled", "cancelled", "created"}
  BY <1>1 DEF FinishStep, StatusSet
<1>3. \A x \in OrderIds : x # taker => Standing(order'[x]) = Standing(order[x])
  BY <1>2
<1>4. CASE out = "created"
  <2>1. Standing(n) = Standing(o)
    BY <1>2, <1>4, StandingIs
  <2>2. Lives' = Lives
    BY <1>3, <2>1, LivesSame
  <2> QED
    BY <2>2
<1>5. CASE out \in {"filled", "cancelled"}
  <2>1. PICK req \in Requests :
           req.type = o.type /\ req.tif = o.tif /\ req.qty = o.qty
    BY <1>2 DEF AskedFor
  <2>2. /\ o.qty \in Nat /\ o.filled \in Nat /\ o.filled <= o.qty
        /\ o.tif \in TimesInForce
    BY <1>2, Typed DEF Order, IInv, NoOverfill
  <2>3. out = "filled" => o.filled = o.qty
    BY <1>2, <2>2 DEF Outcome, Remaining
  <2>4. out = "cancelled" => o.filled < o.qty /\ o.tif = "IOC"
    <3>1. o.tif = "FOK" => out = "filled"
      BY FinishedFOK
    <3> QED
      BY <1>2, <2>2, <3>1 DEF Outcome, Remaining
  <2>5. n.type = o.type /\ n.tif = o.tif /\ n.qty = o.qty
    BY <1>2 DEF SameRequest
  <2> HIDE DEF o, n, out
  <2>6. Standing(n) \in Life!Answers(req)
    BY <1>2, <1>5, <2>1, <2>2, <2>3, <2>4, <2>5, AnswerAllowed
  <2>7. Life!Next
    BY <1>2, <1>3, <2>6, AnswerStep DEF n, o
  <2> QED
    BY <2>7
<1> QED
  BY <1>2, <1>4, <1>5

\* An order that comes to rest is answered then.
LEMMA AddLife ==
    ASSUME IInv, FillInv, AskedFor, AddToBook
    PROVE  Life!Next
<1> DEFINE o == order[taker]
           n == order'[taker]
<1>1. /\ phase = "resting" /\ taker \in OrderIds /\ o.status = "created"
      /\ Remaining(o) > 0
      /\ \A x \in OrderIds : x # taker => order'[x] = order[x]
      /\ SameRequest(o, n) /\ n.filled = o.filled /\ n.status = "open"
  BY AddEffect DEF AddStep, StatusSet
<1>2. \A x \in OrderIds : x # taker => Standing(order'[x]) = Standing(order[x])
  BY <1>1
<1>3. PICK req \in Requests :
         req.type = o.type /\ req.tif = o.tif /\ req.qty = o.qty
  BY <1>1 DEF AskedFor
<1>4. o.qty \in Nat /\ o.filled \in Nat /\ o.filled < o.qty
  BY <1>1, Typed DEF Order, Remaining
<1>5. o.tif = "GTC"
  BY <1>1 DEF FillInv, RestsGTC
<1>6. n.type = o.type /\ n.tif = o.tif /\ n.qty = o.qty
  BY <1>1 DEF SameRequest
<1> HIDE DEF o, n
<1>7. Standing(n) \in Life!Answers(req)
  BY <1>1, <1>3, <1>4, <1>5, <1>6, AnswerAllowed
<1> QED
  BY <1>1, <1>2, <1>7, AnswerStep DEF n, o

LEMMA CancelLife ==
    ASSUME IInv, NEW id \in OrderIds, CancelOrder(id)
    PROVE  Life!Next
<1> DEFINE o == order[id]
           n == order'[id]
           r == Standing(n)
<1>1. /\ o.status = "open"
      /\ \A x \in OrderIds : x # id => order'[x] = order[x]
      /\ SameRequest(o, n) /\ n.filled = o.filled /\ n.status = "cancelled"
  BY CancelEffect DEF CancelStep, StatusSet
<1>2. Lives' = [Lives EXCEPT ![id] = r] /\ Lives[id] = Standing(o)
  BY <1>1, LivesChange
<1>3. n.type = o.type /\ n.tif = o.tif /\ n.qty = o.qty
  BY <1>1 DEF SameRequest
<1> HIDE DEF o, n
<1>4. /\ Standing(o) = [type |-> o.type, tif |-> o.tif, qty |-> o.qty,
                        filled |-> o.filled, status |-> "open"]
      /\ r = [type |-> o.type, tif |-> o.tif, qty |-> o.qty,
              filled |-> o.filled, status |-> "cancelled"]
  BY <1>1, <1>3, StandingIs
<1> HIDE DEF r
<1>5. [Lives[id] EXCEPT !.status = "cancelled"] = r
  <2> DEFINE s == [type |-> o.type, tif |-> o.tif, qty |-> o.qty,
                   filled |-> o.filled, status |-> "open"]
  <2>1. [s EXCEPT !.status = "cancelled"] = r
    BY <1>4
  <2> QED
    BY <1>2, <1>4, <2>1
<1>6. Lives[id].status = "open" /\ Lives' = [Lives EXCEPT ![id].status = "cancelled"]
  <2>1. Lives[id].status = "open"
    BY <1>2, <1>4
  <2> QED
    BY <1>2, <1>5, <2>1
<1>7. Life!Withdraw(id)
  BY <1>6 DEF Life!Withdraw, Lives
<1> QED
  BY <1>7 DEF Life!Next

\* Every step of the shard is a step of one order's life, or none.
LEMMA StepLife ==
    IInv /\ FillInv /\ AskedFor /\ [Next]_vars => Life!Next \/ Lives' = Lives
<1> SUFFICES ASSUME IInv, FillInv, AskedFor, [Next]_vars
             PROVE  Life!Next \/ Lives' = Lives
  OBVIOUS
<1>1. ASSUME NEW id \in OrderIds, NEW req \in Requests, Submit(id, req)
      PROVE  Life!Next \/ Lives' = Lives
  BY <1>1, SubmitLife
<1>2. CASE Match
  BY <1>2, MatchLife
<1>3. CASE FinishMatch
  BY <1>3, FinishLife
<1>4. CASE AddToBook
  BY <1>4, AddLife
<1>5. ASSUME NEW id \in OrderIds, CancelOrder(id)
      PROVE  Life!Next \/ Lives' = Lives
  BY <1>5, CancelLife
<1>6. CASE UNCHANGED vars
  BY <1>6 DEF vars, Lives
<1> QED
  BY <1>1, <1>2, <1>3, <1>4, <1>5, <1>6 DEF Next

\* The engine keeps its promise to the order service: order by order it behaves
\* as OrderLife says.
THEOREM ServesOrders == Spec => ImplementsOrderLife
<1>1. Init => Life!Init
  <2> SUFFICES ASSUME Init PROVE Lives = [id \in OrderIds |-> Life!Unknown]
    BY DEF Life!Init, Lives
  <2>1. \A x \in OrderIds : Standing(order[x]) = Life!Unknown
    BY DEF Init, Unsubmitted, Standing, Life!Unknown
  <2> QED
    BY <2>1 DEF Lives
<1>2. Init => AskedFor
  BY DEF Init, AskedFor, Unsubmitted
<1>3. IInv /\ FillInv /\ AskedFor /\ [Next]_vars =>
         [Life!Next]_([id \in OrderIds |-> Standing(order[id])])
  BY StepLife DEF Lives
<1> QED
  BY <1>1, <1>2, <1>3, StepAsked, InvariantHolds, FillInvariantHolds, PTL
     DEF Spec, ImplementsOrderLife, Life!Spec

(***************************************************************************)
(* Lists arranged by a relation.                                           *)
(***************************************************************************)
\* List l names the members of S once each, and R is the order it has them in.
Arranges(l, S, R) ==
    /\ l \in Seq(S)
    /\ \A x \in S : \E p \in 1 .. Len(l) : l[p] = x
    /\ \A p, q \in 1 .. Len(l) : p < q <=> <<l[p], l[q]>> \in R

\* The members of an arranged list.
LEMMA ArrangedOnce ==
    ASSUME NEW l, NEW S, NEW R, Arranges(l, S, R)
    PROVE  /\ Len(l) \in Nat
           /\ \A p \in 1 .. Len(l) : l[p] \in S
           /\ \A p, q \in 1 .. Len(l) : l[p] = l[q] => p = q
           /\ ToSet(l) = S
<1>1. l \in Seq(S) /\ Len(l) \in Nat
  BY LenProperties DEF Arranges
<1>2. \A p \in 1 .. Len(l) : l[p] \in S
  BY <1>1, ElementOfSeq
<1>3. ASSUME NEW p \in 1 .. Len(l), NEW q \in 1 .. Len(l), l[p] = l[q]
      PROVE  p = q
  <2>1. p < q <=> <<l[p], l[q]>> \in R
    BY DEF Arranges
  <2>2. q < p <=> <<l[q], l[p]>> \in R
    BY DEF Arranges
  <2>3. p < p <=> <<l[p], l[p]>> \in R
    BY DEF Arranges
  <2> QED
    BY <1>1, <1>3, <2>1, <2>2, <2>3
<1>4. ToSet(l) = S
  <2>1. ToSet(l) = { l[k] : k \in 1 .. Len(l) }
    BY <1>1, InSet
  <2> QED
    BY <1>2, <2>1 DEF Arranges
<1> QED
  BY <1>1, <1>2, <1>3, <1>4

\* Two lists that arrange the same members by the same relation agree as long
\* as both go on: where they first differ, each has a later member of the other.
LEMMA ArrangedAgree ==
    ASSUME NEW l, NEW m, NEW S, NEW R, Arranges(l, S, R), Arranges(m, S, R),
           NEW p \in 1 .. Len(l), p \in 1 .. Len(m)
    PROVE  l[p] = m[p]
<1> DEFINE Bad == { n \in Nat : n \in 1 .. Len(l) /\ n \in 1 .. Len(m) /\ l[n] # m[n] }
<1>1. Len(l) \in Nat /\ Len(m) \in Nat
  BY ArrangedOnce
<1> SUFFICES ASSUME Bad # {} PROVE FALSE
  BY <1>1
<1>2. PICK n \in Bad : \A k \in Bad : n <= k
  BY LeastNumber
<1>3. /\ n \in Nat /\ n \in 1 .. Len(l) /\ n \in 1 .. Len(m) /\ l[n] # m[n]
      /\ \A k \in 1 .. n-1 : l[k] = m[k]
  <2>1. \A k \in 1 .. n-1 : k \in Nat /\ k \in 1 .. Len(l) /\ k \in 1 .. Len(m) /\ ~(n <= k)
    BY <1>1, <1>2
  <2> QED
    BY <1>2, <2>1
<1> HIDE DEF Bad
<1>4. PICK i \in 1 .. Len(l) : l[i] = m[n]
  BY <1>3, ArrangedOnce DEF Arranges
<1>5. PICK j \in 1 .. Len(m) : m[j] = l[n]
  BY <1>3, ArrangedOnce DEF Arranges
<1>6. ~(i < n)
  <2> SUFFICES ASSUME i < n PROVE FALSE
    OBVIOUS
  <2>1. l[i] = m[i] /\ i \in 1 .. Len(m)
    BY <1>1, <1>3
  <2> QED
    BY <1>3, <1>4, <2>1, ArrangedOnce
<1>7. ~(j < n)
  <2> SUFFICES ASSUME j < n PROVE FALSE
    OBVIOUS
  <2>1. l[j] = m[j] /\ j \in 1 .. Len(l)
    BY <1>1, <1>3
  <2> QED
    BY <1>3, <1>5, <2>1, ArrangedOnce
<1>8. n < i /\ n < j
  BY <1>1, <1>3, <1>4, <1>5, <1>6, <1>7
<1>9. <<l[n], l[i]>> \in R
  BY <1>3, <1>4, <1>8 DEF Arranges
<1>10. ~(j < n) /\ (j < n <=> <<m[j], m[n]>> \in R)
  BY <1>3, <1>5, <1>7 DEF Arranges
<1> QED
  BY <1>4, <1>5, <1>9, <1>10

\* And so there is one arrangement.
LEMMA ArrangedAlike ==
    ASSUME NEW l, NEW m, NEW S, NEW R, Arranges(l, S, R), Arranges(m, S, R)
    PROVE  l = m
<1>1. /\ Len(l) \in Nat /\ Len(m) \in Nat
      /\ l \in Seq(S) /\ m \in Seq(S)
  BY ArrangedOnce DEF Arranges
<1>2. \A p \in 1 .. Len(l) : p \in 1 .. Len(m) => l[p] = m[p]
  BY ArrangedAgree
<1>3. ~(Len(l) < Len(m))
  <2> SUFFICES ASSUME Len(l) < Len(m) PROVE FALSE
    OBVIOUS
  <2> DEFINE n == Len(m)
  <2>1. n \in 1 .. Len(m)
    BY <1>1
  <2>2. PICK i \in 1 .. Len(l) : l[i] = m[n]
    BY <2>1, ArrangedOnce DEF Arranges
  <2>3. i \in 1 .. Len(m) /\ i # n
    BY <1>1
  <2>4. m[i] = m[n]
    BY <1>2, <2>2, <2>3
  <2> QED
    BY <2>1, <2>3, <2>4, ArrangedOnce
<1>4. ~(Len(m) < Len(l))
  <2> SUFFICES ASSUME Len(m) < Len(l) PROVE FALSE
    OBVIOUS
  <2> DEFINE n == Len(l)
  <2>1. n \in 1 .. Len(l)
    BY <1>1
  <2>2. PICK i \in 1 .. Len(m) : m[i] = l[n]
    BY <2>1, ArrangedOnce DEF Arranges
  <2>3. i \in 1 .. Len(l) /\ i # n
    BY <1>1
  <2>4. l[i] = l[n]
    BY <1>2, <2>2, <2>3
  <2> QED
    BY <2>1, <2>3, <2>4, ArrangedOnce
<1>5. Len(l) = Len(m)
  BY <1>1, <1>3, <1>4
<1> QED
  BY <1>1, <1>2, <1>5, SeqEqual

\* One list after the other.
LEMMA ArrangedConcat ==
    ASSUME NEW l, NEW m, NEW S, NEW T, NEW R, Arranges(l, S, R), Arranges(m, T, R),
           \A x \in S, y \in T : <<x, y>> \in R /\ <<y, x>> \notin R
    PROVE  Arranges(l \o m, S \cup T, R)
<1> DEFINE c == l \o m
           U == S \cup T
<1>1. /\ Len(l) \in Nat /\ Len(m) \in Nat
      /\ \A p \in 1 .. Len(l) : l[p] \in S
      /\ \A p \in 1 .. Len(m) : m[p] \in T
  BY ArrangedOnce
<1>2. l \in Seq(U) /\ m \in Seq(U)
  BY SeqMonotonic DEF Arranges
<1>3. /\ c \in Seq(U) /\ Len(c) = Len(l) + Len(m)
      /\ \A p \in 1 .. Len(l) + Len(m) :
            c[p] = IF p <= Len(l) THEN l[p] ELSE m[p - Len(l)]
  BY <1>2, ConcatProperties
<1> HIDE DEF c
<1>4. ASSUME NEW p \in 1 .. Len(c)
      PROVE  \/ p <= Len(l) /\ p \in 1 .. Len(l) /\ c[p] = l[p]
             \/ /\ p > Len(l) /\ p - Len(l) \in 1 .. Len(m)
                /\ c[p] = m[p - Len(l)]
  BY <1>1, <1>3
<1>5. ASSUME NEW x \in U PROVE \E p \in 1 .. Len(c) : c[p] = x
  <2>1. CASE x \in S
    <3>1. PICK p \in 1 .. Len(l) : l[p] = x
      BY <2>1 DEF Arranges
    <3>2. p \in 1 .. Len(c) /\ c[p] = l[p]
      BY <1>1, <1>3
    <3> QED
      BY <3>1, <3>2
  <2>2. CASE x \in T
    <3>1. PICK p \in 1 .. Len(m) : m[p] = x
      BY <2>2 DEF Arranges
    <3>2. /\ Len(l) + p \in 1 .. Len(c) /\ ~(Len(l) + p <= Len(l))
          /\ (Len(l) + p) - Len(l) = p
      BY <1>1, <1>3
    <3>3. c[Len(l) + p] = m[p]
      BY <1>3, <3>2
    <3> QED
      BY <3>1, <3>2, <3>3
  <2> QED
    BY <2>1, <2>2
<1>6. ASSUME NEW p \in 1 .. Len(c), NEW q \in 1 .. Len(c)
      PROVE  p < q <=> <<c[p], c[q]>> \in R
  <2>1. CASE p \in 1 .. Len(l) /\ q \in 1 .. Len(l) /\ c[p] = l[p] /\ c[q] = l[q]
    BY <2>1 DEF Arranges
  <2>2. CASE /\ p <= Len(l) /\ q > Len(l) /\ p \in 1 .. Len(l) /\ q - Len(l) \in 1 .. Len(m)
             /\ c[p] = l[p] /\ c[q] = m[q - Len(l)]
    <3>1. p < q
      BY <1>1, <2>2
    <3> QED
      BY <1>1, <2>2, <3>1
  <2>3. CASE /\ q <= Len(l) /\ p > Len(l) /\ q \in 1 .. Len(l) /\ p - Len(l) \in 1 .. Len(m)
             /\ c[q] = l[q] /\ c[p] = m[p - Len(l)]
    <3>1. ~(p < q)
      BY <1>1, <2>3
    <3>2. c[p] \in T /\ c[q] \in S
      BY <1>1, <2>3
    <3> QED
      BY <3>1, <3>2
  <2>4. CASE /\ p > Len(l) /\ p - Len(l) \in 1 .. Len(m) /\ c[p] = m[p - Len(l)]
             /\ q > Len(l) /\ q - Len(l) \in 1 .. Len(m) /\ c[q] = m[q - Len(l)]
    <3>1. p - Len(l) < q - Len(l) <=> <<c[p], c[q]>> \in R
      BY <2>4 DEF Arranges
    <3>2. p - Len(l) < q - Len(l) <=> p < q
      BY <1>1, <2>4
    <3> QED
      BY <3>1, <3>2
  <2> QED
    BY <1>4, <2>1, <2>2, <2>3, <2>4
<1> QED
  BY <1>3, <1>5, <1>6 DEF Arranges, c

\* One member leaves.
LEMMA ArrangedWithout ==
    ASSUME NEW l, NEW S, NEW R, Arranges(l, S, R), NEW i \in 1 .. Len(l)
    PROVE  Arranges(RemoveAt(l, i), S \ {l[i]}, R)
<1> DEFINE c == RemoveAt(l, i)
           U == S \ {l[i]}
           Old(p) == IF p < i THEN p ELSE p + 1
<1>1. /\ Len(l) \in Nat /\ l \in Seq(S)
      /\ \A p \in 1 .. Len(l) : l[p] \in S
      /\ \A p, q \in 1 .. Len(l) : l[p] = l[q] => p = q
  BY ArrangedOnce DEF Arranges
<1>2. /\ c \in Seq(S) /\ Len(c) = Len(l) - 1
      /\ \A p \in 1 .. Len(l) - 1 : c[p] = IF p < i THEN l[p] ELSE l[p+1]
  BY <1>1, RemoveAtFacts
<1> HIDE DEF c
<1>3. ASSUME NEW p \in 1 .. Len(c)
      PROVE  Old(p) \in 1 .. Len(l) /\ Old(p) # i /\ c[p] = l[Old(p)]
  BY <1>1, <1>2
<1>4. ASSUME NEW p \in 1 .. Len(c) PROVE c[p] \in U
  BY <1>1, <1>3
<1>5. c \in Seq(U)
  BY <1>2, <1>4, LenProperties, IsASeq
<1>6. ASSUME NEW x \in U PROVE \E p \in 1 .. Len(c) : c[p] = x
  <2>1. PICK q \in 1 .. Len(l) : l[q] = x
    BY DEF Arranges
  <2>2. q # i
    BY <2>1
  <2>3. CASE q < i
    <3>1. q \in 1 .. Len(c) /\ q \in 1 .. Len(l) - 1
      BY <1>1, <1>2, <2>3
    <3> QED
      BY <1>2, <2>1, <2>3, <3>1
  <2>4. CASE i < q
    <3>1. q - 1 \in 1 .. Len(c) /\ q - 1 \in 1 .. Len(l) - 1 /\ ~(q - 1 < i) /\ (q - 1) + 1 = q
      BY <1>1, <1>2, <2>4
    <3> QED
      BY <1>2, <2>1, <3>1
  <2> QED
    BY <1>1, <2>2, <2>3, <2>4
<1>7. ASSUME NEW p \in 1 .. Len(c), NEW q \in 1 .. Len(c)
      PROVE  p < q <=> <<c[p], c[q]>> \in R
  <2>1. Old(p) < Old(q) <=> p < q
    BY <1>1, <1>2
  <2>2. Old(p) < Old(q) <=> <<l[Old(p)], l[Old(q)]>> \in R
    BY <1>3 DEF Arranges
  <2> QED
    BY <1>3, <2>1, <2>2
<1> QED
  BY <1>5, <1>6, <1>7 DEF Arranges, c

\* One member comes in.
LEMMA ArrangedWith ==
    ASSUME NEW l, NEW S, NEW R, Arranges(l, S, R), NEW i \in 1 .. Len(l) + 1, NEW e,
           <<e, e>> \notin R,
           \A j \in 1 .. Len(l) : /\ <<l[j], e>> \in R <=> j < i
                                  /\ <<e, l[j]>> \in R <=> j >= i
    PROVE  Arranges(InsertAt(l, i, e), S \cup {e}, R)
<1> DEFINE c == InsertAt(l, i, e)
           U == S \cup {e}
<1>1. /\ Len(l) \in Nat /\ l \in Seq(U)
      /\ \A p \in 1 .. Len(l) : l[p] \in S
  BY ArrangedOnce, SeqMonotonic DEF Arranges
<1>2. /\ c \in Seq(U) /\ Len(c) = Len(l) + 1
      /\ \A p \in 1 .. Len(l) + 1 :
            c[p] = IF p < i THEN l[p] ELSE IF p = i THEN e ELSE l[p-1]
  BY <1>1, InsertAtFacts
<1> HIDE DEF c
<1>3. ASSUME NEW p \in 1 .. Len(c)
      PROVE  \/ p < i /\ p \in 1 .. Len(l) /\ c[p] = l[p]
             \/ p = i /\ c[p] = e
             \/ p > i /\ p - 1 \in 1 .. Len(l) /\ c[p] = l[p-1]
  BY <1>1, <1>2
<1>4. ASSUME NEW x \in U PROVE \E p \in 1 .. Len(c) : c[p] = x
  <2>1. CASE x = e
    <3>1. i \in 1 .. Len(c) /\ ~(i < i)
      BY <1>1, <1>2
    <3> QED
      BY <1>2, <2>1, <3>1
  <2>2. CASE x \in S
    <3>1. PICK q \in 1 .. Len(l) : l[q] = x
      BY <2>2 DEF Arranges
    <3>2. CASE q < i
      <4>1. q \in 1 .. Len(c)
        BY <1>1, <1>2
      <4> QED
        BY <1>2, <3>1, <3>2, <4>1
    <3>3. CASE ~(q < i)
      <4>1. q + 1 \in 1 .. Len(c) /\ ~(q + 1 < i) /\ q + 1 # i /\ (q + 1) - 1 = q
        BY <1>1, <1>2, <3>3
      <4> QED
        BY <1>2, <3>1, <4>1
    <3> QED
      BY <3>2, <3>3
  <2> QED
    BY <2>1, <2>2
<1>5. ASSUME NEW p \in 1 .. Len(c), NEW q \in 1 .. Len(c)
      PROVE  p < q <=> <<c[p], c[q]>> \in R
  <2>1. CASE p = i /\ c[p] = e
    <3>1. CASE q = i /\ c[q] = e
      BY <2>1, <3>1, <1>1
    <3>2. CASE q < i /\ q \in 1 .. Len(l) /\ c[q] = l[q]
      <4>1. ~(q >= i) /\ ~(p < q)
        BY <1>1, <2>1, <3>2
      <4> QED
        BY <2>1, <3>2, <4>1
    <3>3. CASE q > i /\ q - 1 \in 1 .. Len(l) /\ c[q] = l[q-1]
      <4>1. q - 1 >= i /\ p < q
        BY <1>1, <2>1, <3>3
      <4> QED
        BY <2>1, <3>3, <4>1
    <3> QED
      BY <1>3, <3>1, <3>2, <3>3
  <2>2. CASE p < i /\ p \in 1 .. Len(l) /\ c[p] = l[p]
    <3>1. CASE q = i /\ c[q] = e
      BY <2>2, <3>1
    <3>2. CASE q < i /\ q \in 1 .. Len(l) /\ c[q] = l[q]
      BY <2>2, <3>2 DEF Arranges
    <3>3. CASE q > i /\ q - 1 \in 1 .. Len(l) /\ c[q] = l[q-1]
      <4>1. p < q - 1 /\ p < q
        BY <1>1, <2>2, <3>3
      <4> QED
        BY <2>2, <3>3, <4>1 DEF Arranges
    <3> QED
      BY <1>3, <3>1, <3>2, <3>3
  <2>3. CASE p > i /\ p - 1 \in 1 .. Len(l) /\ c[p] = l[p-1]
    <3>1. CASE q = i /\ c[q] = e
      <4>1. ~(p - 1 < i) /\ ~(p < q)
        BY <1>1, <2>3, <3>1
      <4> QED
        BY <2>3, <3>1, <4>1
    <3>2. CASE q < i /\ q \in 1 .. Len(l) /\ c[q] = l[q]
      <4>1. ~(p - 1 < q) /\ ~(p < q)
        BY <1>1, <2>3, <3>2
      <4> QED
        BY <2>3, <3>2, <4>1 DEF Arranges
    <3>3. CASE q > i /\ q - 1 \in 1 .. Len(l) /\ c[q] = l[q-1]
      <4>1. p - 1 < q - 1 <=> p < q
        BY <1>1, <2>3, <3>3
      <4> QED
        BY <2>3, <3>3, <4>1 DEF Arranges
    <3> QED
      BY <1>3, <3>1, <3>2, <3>3
  <2> QED
    BY <1>3, <2>1, <2>2, <2>3
<1> QED
  BY <1>2, <1>4, <1>5 DEF Arranges, c

\* Another relation may agree with the first on the members.
LEMMA ArrangedBy ==
    ASSUME NEW l, NEW S, NEW R, NEW Q, Arranges(l, S, R),
           \A x, y \in S : <<x, y>> \in R <=> <<x, y>> \in Q
    PROVE  Arranges(l, S, Q)
<1>1. \A p \in 1 .. Len(l) : l[p] \in S
  BY ArrangedOnce
<1> QED
  BY <1>1 DEF Arranges

(***************************************************************************)
(* FlattenSeq.                                                             *)
(***************************************************************************)
\* Function g joins the first i lists, for every i up to n.
Joins(g, seqs, n) ==
    g = [i \in 1 .. n |-> IF i = 1 THEN seqs[i] ELSE g[i-1] \o seqs[i]]

\* There is such a function.
LEMMA JoinExists ==
    ASSUME NEW seqs, NEW n \in Nat
    PROVE  \E g : Joins(g, seqs, n)
<1> DEFINE Bad == { m \in Nat : ~ \E g : Joins(g, seqs, m) }
<1> SUFFICES ASSUME Bad # {} PROVE FALSE
  OBVIOUS
<1>1. PICK m \in Bad : \A k \in Bad : m <= k
  BY LeastNumber
<1>2. m \in Nat /\ ~ \E g : Joins(g, seqs, m)
  BY <1>1
<1>3. m # 0
  <2> SUFFICES ASSUME m = 0 PROVE FALSE
    OBVIOUS
  <2> DEFINE e == [i \in 1 .. 0 |-> <<>>]
  <2>1. 1 .. 0 = {}
    OBVIOUS
  <2>2. Joins(e, seqs, 0)
    BY <2>1 DEF Joins
  <2> QED
    BY <1>2, <2>2
<1>4. m - 1 \in Nat /\ m - 1 \notin Bad
  BY <1>1, <1>2, <1>3
<1>5. PICK g : Joins(g, seqs, m - 1)
  BY <1>4
<1> DEFINE last == IF m = 1 THEN seqs[m] ELSE g[m-1] \o seqs[m]
           h == [i \in 1 .. m |-> IF i = m THEN last ELSE g[i]]
<1>6. ASSUME NEW i \in 1 .. m
      PROVE  h[i] = IF i = 1 THEN seqs[i] ELSE h[i-1] \o seqs[i]
  <2>1. CASE i = m
    <3>1. i # 1 => h[i-1] = g[i-1]
      BY <1>2, <2>1
    <3> QED
      BY <2>1, <3>1
  <2>2. CASE i # m
    <3>1. i \in 1 .. m - 1 /\ h[i] = g[i]
      BY <1>2, <2>2
    <3>2. g[i] = IF i = 1 THEN seqs[i] ELSE g[i-1] \o seqs[i]
      BY <1>5, <3>1 DEF Joins
    <3>3. i # 1 => h[i-1] = g[i-1]
      BY <1>2, <2>2
    <3> QED
      BY <3>1, <3>2, <3>3
  <2> QED
    BY <2>1, <2>2
<1>7. h = [i \in 1 .. m |-> h[i]]
  OBVIOUS
<1> HIDE DEF h
<1>8. [i \in 1 .. m |-> h[i]] =
         [i \in 1 .. m |-> IF i = 1 THEN seqs[i] ELSE h[i-1] \o seqs[i]]
  BY <1>6
<1>9. Joins(h, seqs, m)
  BY <1>7, <1>8 DEF Joins
<1> QED
  BY <1>2, <1>9

\* FlattenSeq joins all of them.
LEMMA FlattenJoins ==
    ASSUME NEW seqs, Len(seqs) \in Nat, Len(seqs) # 0
    PROVE  \E g : Joins(g, seqs, Len(seqs)) /\ FlattenSeq(seqs) = g[Len(seqs)]
<1> DEFINE g == CHOOSE f : Joins(f, seqs, Len(seqs))
<1>1. Joins(g, seqs, Len(seqs))
  <2>1. \E f : Joins(f, seqs, Len(seqs))
    BY JoinExists
  <2> QED
    BY <2>1
<1>2. FlattenSeq(seqs) = g[Len(seqs)]
  BY DEF FlattenSeq, Joins
<1> QED
  BY <1>1, <1>2

\* Lists that are arranged, and their members list by list too.
Stacked(seqs, parts, R) ==
    /\ \A j \in 1 .. Len(seqs) : Arranges(seqs[j], parts[j], R)
    /\ \A j, k \in 1 .. Len(seqs) : j < k =>
          \A x \in parts[j], y \in parts[k] : <<x, y>> \in R /\ <<y, x>> \notin R

\* FlattenSeq of such lists arranges all their members.
LEMMA ArrangedFlat ==
    ASSUME NEW U, NEW seqs \in Seq(U), NEW parts, NEW R, Stacked(seqs, parts, R)
    PROVE  Arranges(FlattenSeq(seqs), UNION { parts[j] : j \in 1 .. Len(seqs) }, R)
<1> DEFINE N == Len(seqs)
           Upto(n) == UNION { parts[j] : j \in 1 .. n }
<1>1. N \in Nat
  BY LenProperties
<1>2. CASE N = 0
  <2>1. FlattenSeq(seqs) = seqs /\ seqs = <<>>
    BY <1>2, EmptySeq DEF FlattenSeq
  <2>2. Upto(N) = {}
    BY <1>2
  <2>3. Arranges(<<>>, {}, R)
    BY DEF Arranges
  <2> QED
    BY <2>1, <2>2, <2>3
<1>3. CASE N # 0
  <2>1. PICK g : Joins(g, seqs, N) /\ FlattenSeq(seqs) = g[N]
    BY <1>1, <1>3, FlattenJoins
  <2> DEFINE Bad == { n \in Nat : n \in 1 .. N /\ ~Arranges(g[n], Upto(n), R) }
  <2>2. Bad = {}
    <3> SUFFICES ASSUME Bad # {} PROVE FALSE
      OBVIOUS
    <3>1. PICK n \in Bad : \A k \in Bad : n <= k
      BY LeastNumber
    <3>2. n \in Nat /\ n \in 1 .. N /\ ~Arranges(g[n], Upto(n), R)
      BY <3>1
    <3>3. g[n] = IF n = 1 THEN seqs[n] ELSE g[n-1] \o seqs[n]
      BY <2>1, <3>2 DEF Joins
    <3>4. CASE n = 1
      <4>1. Upto(1) = parts[1]
        OBVIOUS
      <4>2. Arranges(seqs[1], parts[1], R)
        BY <3>2, <3>4 DEF Stacked
      <4> QED
        BY <3>2, <3>3, <3>4, <4>1, <4>2
    <3>5. CASE n # 1
      <4>1. n - 1 \in Nat /\ n - 1 \in 1 .. N /\ ~(n <= n - 1)
        BY <1>1, <3>2, <3>5
      <4>2. Arranges(g[n-1], Upto(n-1), R)
        BY <3>1, <4>1
      <4>3. Arranges(seqs[n], parts[n], R)
        BY <3>2 DEF Stacked
      <4>4. \A x \in Upto(n-1), y \in parts[n] : <<x, y>> \in R /\ <<y, x>> \notin R
        <5> SUFFICES ASSUME NEW x \in Upto(n-1), NEW y \in parts[n]
                     PROVE  <<x, y>> \in R /\ <<y, x>> \notin R
          OBVIOUS
        <5>1. PICK j \in 1 .. n-1 : x \in parts[j]
          OBVIOUS
        <5>2. j \in 1 .. N /\ j < n
          BY <1>1, <3>2
        <5> QED
          BY <3>2, <5>1, <5>2 DEF Stacked
      <4>5. Upto(n) = Upto(n-1) \cup parts[n]
        <5>1. 1 .. n = (1 .. n-1) \cup {n}
          BY <3>2
        <5> QED
          BY <5>1
      <4> HIDE DEF Upto
      <4>6. Arranges(g[n-1] \o seqs[n], Upto(n-1) \cup parts[n], R)
        BY <4>2, <4>3, <4>4, ArrangedConcat
      <4> QED
        BY <3>2, <3>3, <3>5, <4>5, <4>6
    <3> QED
      BY <3>4, <3>5
  <2>3. N \in Nat /\ N \in 1 .. N
    BY <1>1, <1>3
  <2>4. Arranges(g[N], Upto(N), R)
    BY <2>2, <2>3
  <2> QED
    BY <2>1, <2>4
<1> QED
  BY <1>2, <1>3

(***************************************************************************)
(* The ladder of a side.                                                   *)
(***************************************************************************)
\* The orders that wait on side s.
OnSide(s) == { x \in OrderIds : Resting(x) /\ order[x].side = s }

\* The pairs of orders of which the first is ahead.
Before == { p \in OrderIds \X OrderIds : Ahead(p[1], p[2]) }

\* As a set of pairs it says the same.
LEMMA BeforeIs ==
    ASSUME NEW x \in OrderIds, NEW y \in OrderIds
    PROVE  <<x, y>> \in Before <=> Ahead(x, y)
  BY DEF Before

\* Places and ranks say the same of who is ahead.
LEMMA PlacesRank ==
    ASSUME TypeOK, BookWellFormed, NEW s \in Sides, NEW i, NEW j, NEW k, NEW l,
           NEW x \in OrderIds, NEW y \in OrderIds, At(s, i, k, x), At(s, j, l, y)
    PROVE  /\ i < j => Ahead(x, y) /\ ~Ahead(y, x)
           /\ i = j => (k < l <=> Ahead(x, y))
<1>1. /\ i \in 1 .. Len(book[s]) /\ j \in 1 .. Len(book[s])
      /\ k \in 1 .. Len(book[s][i].queue) /\ l \in 1 .. Len(book[s][j].queue)
  BY DEF At
<1>2. /\ book[s][i].price \in Nat /\ book[s][j].price \in Nat
      /\ i \in Int /\ j \in Int
  BY <1>1, PlaceOf
<1>3. /\ i < j => Better(s, book[s][i].price, book[s][j].price)
      /\ j < i => Better(s, book[s][j].price, book[s][i].price)
  BY <1>1 DEF BookWellFormed, LevelsSorted
<1>4. ASSUME Ahead(x, y) PROVE i < j \/ (i = j /\ k < l)
  <2>1. PICK t, m, n, u, v :
           /\ t \in Sides /\ At(t, m, u, x) /\ At(t, n, v, y)
           /\ \/ Better(t, book[t][m].price, book[t][n].price)
              \/ m = n /\ u < v
    BY <1>4 DEF Ahead
  <2>2. t = s /\ m = i /\ n = j /\ u = k /\ v = l
    BY <2>1, OneSeat
  <2>3. Better(s, book[s][i].price, book[s][j].price) \/ (i = j /\ k < l)
    BY <2>1, <2>2
  <2> QED
    BY <1>2, <1>3, <2>3 DEF Better
<1>5. ASSUME i < j \/ (i = j /\ k < l) PROVE Ahead(x, y)
  <2>1. Better(s, book[s][i].price, book[s][j].price) \/ (i = j /\ k < l)
    BY <1>3, <1>5
  <2> QED
    BY <1>1, <2>1 DEF Ahead
<1>6. ASSUME i < j, Ahead(y, x) PROVE FALSE
  <2>1. PICK t, m, n, u, v :
           /\ t \in Sides /\ At(t, m, u, y) /\ At(t, n, v, x)
           /\ \/ Better(t, book[t][m].price, book[t][n].price)
              \/ m = n /\ u < v
    BY <1>6 DEF Ahead
  <2>2. t = s /\ m = j /\ n = i
    BY <2>1, OneSeat
  <2>3. Better(s, book[s][j].price, book[s][i].price) \/ i = j
    BY <2>1, <2>2
  <2> QED
    BY <1>2, <1>3, <1>6, <2>3 DEF Better
<1> QED
  BY <1>2, <1>4, <1>5, <1>6

\* In one queue the earlier place is the one ahead.
LEMMA QueueRank ==
    ASSUME TypeOK, BookWellFormed, NEW s \in Sides, NEW j, NEW k, NEW l,
           NEW x \in OrderIds, NEW y \in OrderIds, At(s, j, k, x), At(s, j, l, y)
    PROVE  k < l <=> <<x, y>> \in Before
<1>1. k < l <=> Ahead(x, y)
  BY PlacesRank
<1> QED
  BY <1>1, BeforeIs

\* The queue of a level is arranged.
LEMMA QueueRanks ==
    ASSUME TypeOK, BookWellFormed, NEW s \in Sides, NEW j \in 1 .. Len(book[s])
    PROVE  Arranges(book[s][j].queue, Queued(book[s][j]), Before)
<1> DEFINE queue == book[s][j].queue
<1>1. book \in Books
  BY DEF TypeOK, Books
<1>2. /\ Queued(book[s][j]) = { queue[k] : k \in 1 .. Len(queue) }
      /\ Queued(book[s][j]) \subseteq OrderIds
  BY <1>1, QueuedAt
<1>3. queue \in Seq(OrderIds) /\ Len(queue) \in Nat
  BY <1>1, ElementOfSeq, LevelTypes, LenProperties DEF Books
<1>4. ASSUME NEW k \in 1 .. Len(queue), NEW l \in 1 .. Len(queue)
      PROVE  k < l <=> <<queue[k], queue[l]>> \in Before
  <2>1. At(s, j, k, queue[k]) /\ At(s, j, l, queue[l])
    BY DEF At
  <2>2. queue[k] \in OrderIds /\ queue[l] \in OrderIds
    BY <1>2
  <2> QED
    BY <2>1, <2>2, QueueRank
<1>5. queue \in Seq(Queued(book[s][j]))
  <2>1. \A k \in 1 .. Len(queue) : queue[k] \in Queued(book[s][j])
    BY <1>2
  <2> QED
    BY <1>3, <2>1, LenProperties, IsASeq
<1> QED
  BY <1>2, <1>4, <1>5 DEF Arranges

\* Reading the queues one after the other gives the ranks of the whole side.
Laddered == \A s \in Sides : Arranges(Ladder(book[s]), OnSide(s), Before)

\* Levels in order, each with its queue in order, are one list in order.
LEMMA LaddersArranged == TypeOK /\ BookWellFormed => Laddered
<1> SUFFICES ASSUME TypeOK, BookWellFormed, NEW s \in Sides
             PROVE  Arranges(Ladder(book[s]), OnSide(s), Before)
  BY DEF Laddered
<1> DEFINE N == Len(book[s])
           seqs == [i \in 1 .. N |-> book[s][i].queue]
           parts == [i \in 1 .. N |-> Queued(book[s][i])]
<1>1. /\ book \in Books /\ N \in Nat
      /\ \A i \in 1 .. N : book[s][i].queue \in Seq(OrderIds)
  BY ElementOfSeq, LevelTypes, LenProperties DEF TypeOK, Books
<1>2. seqs \in Seq(Seq(OrderIds)) /\ Len(seqs) = N
  BY <1>1, IsASeq
<1>3. \A j \in 1 .. N : /\ seqs[j] = book[s][j].queue
                        /\ parts[j] = Queued(book[s][j])
  OBVIOUS
<1>4. ASSUME NEW j \in 1 .. N, NEW x \in parts[j]
      PROVE  x \in OrderIds /\ \E k : At(s, j, k, x)
  <2>1. /\ Queued(book[s][j]) = { book[s][j].queue[k] : k \in 1 .. Len(book[s][j].queue) }
        /\ Queued(book[s][j]) \subseteq OrderIds
    BY <1>1, QueuedAt
  <2>2. PICK k \in 1 .. Len(book[s][j].queue) : book[s][j].queue[k] = x
    BY <2>1
  <2> QED
    BY <2>1, <2>2 DEF At
<1> HIDE DEF seqs, parts
<1>5. \A j \in 1 .. N : Arranges(seqs[j], parts[j], Before)
  BY <1>3, QueueRanks
<1>6. ASSUME NEW j \in 1 .. N, NEW m \in 1 .. N, j < m, NEW x \in parts[j], NEW y \in parts[m]
      PROVE  <<x, y>> \in Before /\ <<y, x>> \notin Before
  <2>1. PICK k : At(s, j, k, x)
    BY <1>4
  <2>2. PICK l : At(s, m, l, y)
    BY <1>4
  <2>3. x \in OrderIds /\ y \in OrderIds /\ j \in Int /\ m \in Int
    BY <1>1, <1>4
  <2>4. Ahead(x, y) /\ ~Ahead(y, x)
    BY <1>6, <2>1, <2>2, <2>3, PlacesRank
  <2> QED
    BY <2>3, <2>4, BeforeIs
<1>7. Stacked(seqs, parts, Before)
  BY <1>2, <1>5, <1>6 DEF Stacked
<1>8. Arranges(FlattenSeq(seqs), UNION { parts[j] : j \in 1 .. Len(seqs) }, Before)
  BY <1>2, <1>7, ArrangedFlat
<1>9. UNION { parts[j] : j \in 1 .. Len(seqs) } = OnSide(s)
  <2>1. ASSUME NEW j \in 1 .. N, NEW x \in parts[j] PROVE x \in OnSide(s)
    <3>1. PICK k : At(s, j, k, x)
      BY <1>4
    <3>2. x \in OrderIds /\ Resting(x) /\ order[x].side = s
      BY <1>4, <3>1, RestingAt, PlaceOf
    <3> QED
      BY <3>2 DEF OnSide
  <2>2. ASSUME NEW x \in OnSide(s) PROVE \E j \in 1 .. N : x \in parts[j]
    <3>1. x \in OrderIds /\ Resting(x) /\ order[x].side = s
      BY DEF OnSide
    <3>2. PICK t, j, k : t \in Sides /\ At(t, j, k, x)
      BY <3>1, RestingAt
    <3>3. t = s
      BY <3>1, <3>2, PlaceOf
    <3>4. /\ j \in 1 .. N /\ k \in 1 .. Len(book[s][j].queue)
          /\ book[s][j].queue[k] = x
      BY <3>2, <3>3 DEF At
    <3>5. Queued(book[s][j]) = { book[s][j].queue[n] : n \in 1 .. Len(book[s][j].queue) }
      BY <1>1, <3>4, QueuedAt
    <3> QED
      BY <1>3, <3>4, <3>5
  <2> QED
    BY <1>2, <2>1, <2>2
<1>10. Ladder(book[s]) = FlattenSeq(seqs)
  BY DEF Ladder, seqs
<1> QED
  BY <1>8, <1>9, <1>10

\* After a step they are so again.
LEMMA LaddersArrangedThen == IInv' => Laddered'
<1>1. IInv => Laddered
  BY LaddersArranged DEF IInv
<1> QED
  BY <1>1, PTL

\* The ladder of one side, before a step.
LEMMA LaddersNow ==
    ASSUME IInv, NEW s \in Sides
    PROVE  Arranges(Ladder(book[s]), OnSide(s), Before)
  BY LaddersArranged DEF IInv, Laddered

\* The ladder of one side, after it.
LEMMA LaddersThen ==
    ASSUME IInv', NEW s \in Sides
    PROVE  Arranges(Ladder(book'[s]), OnSide(s)', Before')
  BY LaddersArrangedThen DEF Laddered

\* Of two members of an arranged list one is before the other.
LEMMA ArrangedPairs ==
    ASSUME NEW l, NEW S, NEW R, Arranges(l, S, R), NEW x \in S, NEW y \in S
    PROVE  /\ <<x, y>> \in R => <<y, x>> \notin R
           /\ x # y => <<x, y>> \in R \/ <<y, x>> \in R
           /\ <<x, x>> \notin R
<1>0. Len(l) \in Nat
  BY ArrangedOnce
<1>1. PICK p \in 1 .. Len(l) : l[p] = x
  BY DEF Arranges
<1>2. PICK q \in 1 .. Len(l) : l[q] = y
  BY DEF Arranges
<1>3. p < q <=> <<x, y>> \in R
  BY <1>1, <1>2 DEF Arranges
<1>4. q < p <=> <<y, x>> \in R
  BY <1>1, <1>2 DEF Arranges
<1>5. p < p <=> <<x, x>> \in R
  BY <1>1 DEF Arranges
<1>6. p \in Int /\ q \in Int
  BY <1>0
<1> QED
  BY <1>1, <1>2, <1>3, <1>4, <1>5, <1>6

\* Orders that stay on their side stay before or behind one another.
LEMMA RanksStay ==
    ASSUME IInv, IInv', Next, NEW s \in Sides,
           NEW x \in OnSide(s), NEW y \in OnSide(s), x \in OnSide(s)', y \in OnSide(s)'
    PROVE  <<x, y>> \in Before <=> <<x, y>> \in Before'
<1>1. x \in OrderIds /\ y \in OrderIds /\ Resting(x)' /\ Resting(y)'
  BY DEF OnSide
<1>2. PriorityOf(x, y) /\ PriorityOf(y, x)
  BY <1>1, PriorityStep
<1>3. /\ <<x, y>> \in Before <=> Ahead(x, y)
      /\ <<y, x>> \in Before <=> Ahead(y, x)
      /\ <<x, y>> \in Before' <=> Ahead(x, y)'
      /\ <<y, x>> \in Before' <=> Ahead(y, x)'
  BY <1>1 DEF Before
<1>4. /\ <<x, y>> \in Before => <<x, y>> \in Before'
      /\ <<y, x>> \in Before => <<y, x>> \in Before'
  BY <1>1, <1>2, <1>3 DEF PriorityOf
<1>5. /\ x # y => <<x, y>> \in Before \/ <<y, x>> \in Before
      /\ <<x, x>> \notin Before
  BY LaddersNow, ArrangedPairs
<1>6. /\ <<x, y>> \in Before' => <<y, x>> \notin Before'
      /\ <<x, x>> \notin Before'
  BY LaddersThen, ArrangedPairs
<1> QED
  BY <1>4, <1>5, <1>6

\* A side that has the same orders as before has them in the same order.
LEMMA SideStays ==
    ASSUME IInv, IInv', Next, NEW s \in Sides, OnSide(s)' = OnSide(s)
    PROVE  Ladder(book'[s]) = Ladder(book[s])
<1> DEFINE S == OnSide(s)
           R == Before
           Q == Before'
           l == Ladder(book[s])
           m == Ladder(book'[s])
<1>1. Arranges(l, S, R) /\ Arranges(m, S, Q)
  BY LaddersNow, LaddersThen
<1>2. \A x, y \in S : <<x, y>> \in R <=> <<x, y>> \in Q
  BY RanksStay
<1> HIDE DEF S, R, Q, l, m
<1>3. Arranges(l, S, Q)
  BY <1>1, <1>2, ArrangedBy
<1>4. m = l
  BY <1>1, <1>3, ArrangedAlike
<1> QED
  BY <1>4 DEF l, m

\* One order leaves its place.
LEMMA SideLoses ==
    ASSUME IInv, IInv', Next, NEW s \in Sides, NEW i \in 1 .. Len(Ladder(book[s])),
           OnSide(s)' = OnSide(s) \ {Ladder(book[s])[i]}
    PROVE  Ladder(book'[s]) = RemoveAt(Ladder(book[s]), i)
<1> DEFINE S == OnSide(s)
           R == Before
           Q == Before'
           l == Ladder(book[s])
           m == Ladder(book'[s])
           T == S \ {l[i]}
<1>1. Arranges(l, S, R) /\ Arranges(m, T, Q)
  BY LaddersNow, LaddersThen
<1>2. \A x, y \in T : <<x, y>> \in R <=> <<x, y>> \in Q
  BY RanksStay
<1>3. i \in 1 .. Len(l)
  OBVIOUS
<1>4. T = S \ {l[i]}
  OBVIOUS
<1> HIDE DEF S, R, Q, l, m, T
<1> DEFINE c == RemoveAt(l, i)
<1>5. Arranges(c, T, R)
  BY <1>1, <1>3, <1>4, ArrangedWithout
<1> HIDE DEF c
<1>6. Arranges(c, T, Q)
  BY <1>2, <1>5, ArrangedBy
<1>7. m = c
  BY <1>1, <1>6, ArrangedAlike
<1> QED
  BY <1>7 DEF l, m, c

\* One order comes in, in front of those whose price is worse than its own.
LEMMA SideGains ==
    ASSUME IInv, IInv', Next, NEW s \in Sides, NEW id \in OrderIds, id \notin OnSide(s),
           OnSide(s)' = OnSide(s) \cup {id},
           NEW i \in 1 .. Len(Ladder(book[s])) + 1,
           \A j \in 1 .. Len(Ladder(book[s])) :
              Better(s, order'[id].price, order[Ladder(book[s])[j]].price) <=> j >= i
    PROVE  Ladder(book'[s]) = InsertAt(Ladder(book[s]), i, id)
<1> DEFINE S == OnSide(s)
           R == Before
           Q == Before'
           l == Ladder(book[s])
           m == Ladder(book'[s])
           T == S \cup {id}
<1>1. Arranges(l, S, R) /\ Arranges(m, T, Q)
  BY LaddersNow, LaddersThen
<1>2. \A x, y \in S : <<x, y>> \in R <=> <<x, y>> \in Q
  BY RanksStay
<1>3. id \in OrderIds /\ Resting(id)' /\ order'[id].side = s
  BY DEF OnSide
<1>4. ASSUME NEW x \in S
      PROVE  /\ <<x, id>> \in Q <=> ~Better(s, order'[id].price, order[x].price)
             /\ <<id, x>> \in Q <=> Better(s, order'[id].price, order[x].price)
  <2>1. /\ x \in OrderIds /\ Resting(x) /\ order[x].side = s /\ Resting(x)'
        /\ x # id /\ order'[x].side = s
    BY DEF OnSide
  <2>2. ~Resting(id)
    <3> SUFFICES ASSUME Resting(id) PROVE FALSE
      OBVIOUS
    <3>1. order[id].side # s
      BY <1>3 DEF OnSide
    <3>2. StepKeeps
      BY NextKeeps
    <3> QED
      BY <1>3, <3>1, <3>2 DEF StepKeeps
  <2>3. PriorityOf(x, id)
    BY <1>3, <2>1, PriorityStep
  <2>4. ~Better(s, order'[id].price, order[x].price) => Ahead(x, id)'
    BY <1>3, <2>1, <2>2, <2>3 DEF PriorityOf
  <2>5. Better(s, order'[id].price, order[x].price) => Ahead(id, x)'
    <3>1. order'[x].price = order[x].price
      BY <2>1, NextKeeps DEF StepKeeps
    <3>2. Ranking'
      BY ShapeRanksThen
    <3>3. Ahead(id, x)' <=> Ranked(id, x)'
      BY <1>3, <2>1, <3>2 DEF Ranking
    <3> QED
      BY <1>3, <2>1, <3>1, <3>3 DEF Ranked
  <2>6. /\ <<x, id>> \in Q <=> Ahead(x, id)'
        /\ <<id, x>> \in Q <=> Ahead(id, x)'
    BY <1>3, <2>1 DEF Before
  <2>7. x \in T /\ id \in T
    OBVIOUS
  <2>8. <<x, id>> \in Q => <<id, x>> \notin Q
    <3> HIDE DEF T, Q, m
    <3> QED
      BY <1>1, <2>7, ArrangedPairs
  <2> QED
    BY <2>4, <2>5, <2>6, <2>8
<1>5. <<id, id>> \notin Q
  <2>1. id \in T
    OBVIOUS
  <2> HIDE DEF T, Q, m
  <2> QED
    BY <1>1, <2>1, ArrangedPairs
<1>6. /\ Len(l) \in Nat
      /\ \A j \in 1 .. Len(l) : l[j] \in S
  <2> HIDE DEF l, S
  <2> QED
    BY <1>1, ArrangedOnce
<1>7. \A j \in 1 .. Len(l) : /\ <<l[j], id>> \in Q <=> j < i
                             /\ <<id, l[j]>> \in Q <=> j >= i
  <2> SUFFICES ASSUME NEW j \in 1 .. Len(l)
               PROVE  /\ <<l[j], id>> \in Q <=> j < i
                      /\ <<id, l[j]>> \in Q <=> j >= i
    OBVIOUS
  <2>1. Better(s, order'[id].price, order[l[j]].price) <=> j >= i
    OBVIOUS
  <2>2. l[j] \in S
    BY <1>6
  <2>3. j < i <=> ~(j >= i)
    BY <1>6
  <2> HIDE DEF l, S, Q
  <2> QED
    BY <1>4, <2>1, <2>2, <2>3
<1>8. i \in 1 .. Len(l) + 1 /\ T = S \cup {id}
  OBVIOUS
<1> HIDE DEF S, R, Q, l, m, T
<1>9. Arranges(l, S, Q)
  BY <1>1, <1>2, ArrangedBy
<1> DEFINE c == InsertAt(l, i, id)
<1>10. Arranges(c, T, Q)
  BY <1>5, <1>7, <1>8, <1>9, ArrangedWith
<1> HIDE DEF c
<1>11. m = c
  BY <1>1, <1>10, ArrangedAlike
<1> QED
  BY <1>11 DEF l, m, c

\* The orders of a side are its open ones.
LEMMA SideOpen ==
    ASSUME FillInv, NEW s
    PROVE  OnSide(s) = { x \in OrderIds : order[x].status = "open" /\ order[x].side = s }
  BY DEF OnSide, FillInv, OpenIffResting

\* After a step too.
LEMMA SideOpenThen ==
    ASSUME FillInv', NEW s
    PROVE  OnSide(s)' = { x \in OrderIds : order'[x].status = "open" /\ order'[x].side = s }
  BY DEF OnSide, FillInv, OpenIffResting

\* The first of the ladder is the head of the first queue, and there is one
\* where there is the other.
LEMMA LadderHead ==
    ASSUME IInv, NEW s \in Sides
    PROVE  /\ Ladder(book[s]) = <<>> <=> book[s] = <<>>
           /\ book[s] # <<>> =>
                 /\ 1 \in 1 .. Len(Ladder(book[s]))
                 /\ Ladder(book[s])[1] = book[s][1].queue[1]
                 /\ Ladder(book[s])[1] \in OrderIds
                 /\ order[Ladder(book[s])[1]].price = book[s][1].price
<1> DEFINE l == Ladder(book[s])
           first == book[s][1].queue[1]
<1>1. /\ Arranges(l, OnSide(s), Before)
      /\ book[s] \in Seq(PriceLevel) /\ Len(book[s]) \in Nat
  BY LaddersNow, LenProperties DEF IInv, TypeOK
<1> HIDE DEF l
<1>2. /\ Len(l) \in Nat /\ l \in Seq(OnSide(s))
      /\ \A p \in 1 .. Len(l) : l[p] \in OnSide(s)
  BY <1>1, ArrangedOnce DEF Arranges
<1>3. ASSUME book[s] = <<>> PROVE l = <<>>
  <2>1. OnSide(s) = {}
    <3> SUFFICES ASSUME NEW x \in OnSide(s) PROVE FALSE
      OBVIOUS
    <3>1. x \in OrderIds /\ Resting(x) /\ order[x].side = s
      BY DEF OnSide
    <3>2. PICK t, i, k : t \in Sides /\ At(t, i, k, x)
      BY <3>1, RestingAt
    <3>3. t = s /\ i \in 1 .. Len(book[s])
      BY <3>1, <3>2, PlaceOf DEF IInv
    <3> QED
      BY <1>3, <3>3
  <2>2. Len(l) = 0
    <3> SUFFICES ASSUME Len(l) # 0 PROVE FALSE
      OBVIOUS
    <3>1. 1 \in 1 .. Len(l)
      BY <1>2
    <3> QED
      BY <1>2, <2>1, <3>1
  <2> QED
    BY <1>2, <2>2, EmptySeq
<1>4. ASSUME book[s] # <<>>
      PROVE  /\ 1 \in 1 .. Len(l) /\ l[1] = first /\ l[1] \in OrderIds
             /\ order[first].price = book[s][1].price
  <2>1. 1 \in 1 .. Len(book[s]) /\ book[s][1].queue # <<>>
    <3>1. 1 \in 1 .. Len(book[s])
      BY <1>1, <1>4, Lengths
    <3> QED
      BY <3>1 DEF IInv, BookWellFormed, QueuesSound
  <2>2. book[s][1].queue \in Seq(OrderIds) /\ first \in OrderIds /\ At(s, 1, 1, first)
    <3>1. book[s][1].queue \in Seq(OrderIds)
      BY <1>1, <2>1, ElementOfSeq, LevelTypes
    <3>2. 1 \in 1 .. Len(book[s][1].queue)
      BY <2>1, <3>1, Lengths
    <3> QED
      BY <2>1, <3>1, <3>2, ElementOfSeq DEF At
  <2>3. first \in OnSide(s) /\ order[first].price = book[s][1].price
    <3>1. order[first].side = s /\ order[first].price = book[s][1].price /\ Resting(first)
      BY <2>2, PlaceOf, RestingAt DEF IInv
    <3> QED
      BY <2>2, <3>1 DEF OnSide
  <2> HIDE DEF first
  <2>4. PICK p \in 1 .. Len(l) : l[p] = first
    BY <1>1, <2>3 DEF Arranges
  <2>5. 1 \in 1 .. Len(l) /\ l[1] \in OnSide(s) /\ l[1] \in OrderIds
    BY <1>2, <2>4 DEF OnSide
  <2>6. ~(1 < p)
    <3> SUFFICES ASSUME 1 < p PROVE FALSE
      OBVIOUS
    <3>1. <<l[1], first>> \in Before
      BY <1>1, <2>4, <2>5 DEF Arranges
    <3>2. Ahead(l[1], first)
      BY <2>2, <2>5, <3>1, BeforeIs
    <3> QED
      BY <2>2, <3>2, MakerFirst
  <2>7. p = 1
    BY <1>2, <2>4, <2>6
  <2> QED
    BY <2>3, <2>4, <2>5, <2>7
<1>5. l = <<>> => book[s] = <<>>
  <2> SUFFICES ASSUME l = <<>>, book[s] # <<>> PROVE FALSE
    OBVIOUS
  <2>1. 1 \in 1 .. Len(l)
    BY <1>4
  <2>2. Len(l) = 0
    BY Lengths
  <2> QED
    BY <2>1, <2>2
<1> QED
  BY <1>3, <1>4, <1>5 DEF l, first

(***************************************************************************)
(* The steps of the shard as steps of PriceTimeBook.                       *)
(***************************************************************************)
\* What stands for the ladders of PriceTimeBook.
Ladders == [side \in Sides |-> Ladder(book[side])]

\* A step that leaves the book leaves the ladders.
LEMMA LaddersSame == ASSUME book' = book PROVE Ladders' = Ladders
  BY DEF Ladders

\* A step that changes one side of the book changes the ladder of that side.
LEMMA LaddersChange ==
    ASSUME book \in Books, NEW side \in Sides, NEW new,
           book' = [book EXCEPT ![side] = new],
           NEW l, Ladder(book'[side]) = l
    PROVE  Ladders' = [Ladders EXCEPT ![side] = l]
<1>1. \A s \in Sides : s # side => book'[s] = book[s]
  BY DEF Books
<1>2. \A s \in Sides : Ladder(book'[s]) = IF s = side THEN l ELSE Ladder(book[s])
  BY <1>1
<1> DEFINE f == Ladders
           g == Ladders'
<1>3. /\ f = [s \in Sides |-> f[s]] /\ g = [s \in Sides |-> g[s]]
      /\ \A s \in Sides : f[s] = Ladder(book[s]) /\ g[s] = Ladder(book'[s])
  BY DEF Ladders
<1> HIDE DEF f, g
<1>4. \A s \in Sides : g[s] = IF s = side THEN l ELSE f[s]
  BY <1>2, <1>3
<1>5. g = [f EXCEPT ![side] = l]
  BY <1>3, <1>4
<1> QED
  BY <1>5 DEF f, g

\* The terms of PriceTimeBook in those of the shard.
LEMMA AbstractTerms ==
    /\ \A id : Abstract!Left(id) = Remaining(order[id])
    /\ \A s : Abstract!Other(s) = Opposite(s)
    /\ \A req, st : Abstract!Fresh(req, st) = NewOrder(req, st)
    /\ \A o, p : o.side \in Sides => (Abstract!Suits(o, p) <=> Crosses(o, p))
<1>1. \A id : Abstract!Left(id) = Remaining(order[id])
  BY DEF Abstract!Left, Remaining
<1>2. \A s : Abstract!Other(s) = Opposite(s)
  BY DEF Abstract!Other, Opposite
<1>3. \A req, st : Abstract!Fresh(req, st) = NewOrder(req, st)
  BY DEF Abstract!Fresh, NewOrder
<1>4. \A o, p : o.side \in Sides => (Abstract!Suits(o, p) <=> Crosses(o, p))
  BY DEF Abstract!Suits, Crosses, Sides
<1> QED
  BY <1>1, <1>2, <1>3, <1>4

\* The taker may trade there when it matches here.
LEMMA MayTradeIs ==
    ASSUME IInv, taker \in OrderIds
    PROVE  Abstract!MayTrade <=> CanMatch
<1> DEFINE o == order[taker]
           opp == Opposite(o.side)
           l == Ladder(book[opp])
<1>1. o \in Order /\ o.side \in Sides /\ opp \in Sides
  BY Typed DEF Order, Opposite, Sides
<1>2. /\ l = <<>> <=> book[opp] = <<>>
      /\ book[opp] # <<>> => order[l[1]].price = book[opp][1].price
  BY <1>1, LadderHead
<1>3. /\ Abstract!Left(taker) = Remaining(o) /\ Abstract!Other(o.side) = opp
      /\ \A p : Abstract!Suits(o, p) <=> Crosses(o, p)
  BY <1>1, AbstractTerms
<1>4. [side \in Sides |-> Ladder(book[side])][opp] = l
  BY <1>1
<1>5. Abstract!MayTrade <=>
         Remaining(o) > 0 /\ l # <<>> /\ Crosses(o, order[l[1]].price)
  BY <1>3, <1>4 DEF Abstract!MayTrade
<1>6. CanMatch <=> Remaining(o) > 0 /\ book[opp] # <<>> /\ Crosses(o, book[opp][1].price)
  BY DEF CanMatch, Facing
<1> HIDE DEF o, opp, l
<1> QED
  BY <1>2, <1>5, <1>6

\* RemoveAt of the first is Tail.
LEMMA RemoveHead ==
    ASSUME NEW S, NEW s \in Seq(S), s # <<>>
    PROVE  RemoveAt(s, 1) = Tail(s)
<1>1. Len(s) \in Nat /\ Len(s) > 0 /\ 1 \in 1 .. Len(s)
  BY EmptySeq, LenProperties
<1>2. /\ Tail(s) \in Seq(S) /\ Len(Tail(s)) = Len(s) - 1
      /\ \A i \in 1 .. Len(Tail(s)) : Tail(s)[i] = s[i+1]
  BY HeadTailProperties
<1>3. /\ RemoveAt(s, 1) \in Seq(S) /\ Len(RemoveAt(s, 1)) = Len(s) - 1
      /\ \A i \in 1 .. Len(s) - 1 : RemoveAt(s, 1)[i] = IF i < 1 THEN s[i] ELSE s[i+1]
  BY <1>1, RemoveAtFacts
<1>4. \A i \in 1 .. Len(s) - 1 : ~(i < 1)
  BY <1>1
<1> QED
  BY <1>2, <1>3, <1>4, SeqEqual

\* The lesser of two numbers.
LEMMA Lesser ==
    ASSUME NEW a \in Int, NEW b \in Int
    PROVE  Min({a, b}) = IF a > b THEN b ELSE a
<1> DEFINE m == IF a > b THEN b ELSE a
<1>1. m \in {a, b} /\ \A y \in {a, b} : m =< y
  OBVIOUS
<1>2. ASSUME NEW x \in {a, b}, \A y \in {a, b} : x =< y PROVE x = m
  BY <1>1, <1>2
<1> QED
  BY <1>1, <1>2 DEF Min

\* A cancellation, in the terms of PriceTimeBook.
LEMMA CancelForm ==
    ASSUME NEW id, taker = NoOrder, order[id].status = "open",
           order' = [order EXCEPT ![id].status = "cancelled"], taker' = taker,
           NEW L, L = [side \in Sides |-> Ladder(book[side])],
           NEW i \in 1 .. Len(L[order[id].side]), L[order[id].side][i] = id,
           [side \in Sides |-> Ladder(book'[side])] =
              [L EXCEPT ![order[id].side] = RemoveAt(L[order[id].side], i)]
    PROVE  Abstract!Cancel(id)
  BY DEF Abstract!Cancel, Abstract!RemoveAt, RemoveAt

\* Cancelling takes the order out of the ladder and leaves the others as they are.
LEMMA CancelServes ==
    ASSUME IInv, IInv', FillInv, FillInv', NEW id \in OrderIds, CancelOrder(id)
    PROVE  Abstract!Cancel(id)
<1>1. PICK side, i, k : CancelStep(side, i, k, id)
  BY CancelEffect
<1> DEFINE new == Drop(book[side], i, k)
           l == Ladder(book[side])
<1>2. /\ side \in Sides /\ At(side, i, k, id) /\ order[id].status = "open"
      /\ phase = "idle" /\ taker' = taker
      /\ StatusSet(id, "cancelled")
      /\ book' = [book EXCEPT ![side] = new]
  BY <1>1 DEF CancelStep
<1>3. /\ order' = [order EXCEPT ![id].status = "cancelled"]
      /\ taker = NoOrder /\ book \in Books
  BY <1>2 DEF CancelOrder, IInv, TypeOK, Books
<1>4. order[id].side = side /\ Resting(id) /\ id \in OnSide(side)
  BY <1>2, PlaceOf, RestingAt DEF IInv, OnSide
<1>5. Arranges(l, OnSide(side), Before)
  BY <1>2, LaddersNow
<1> HIDE DEF l, new
<1>6. PICK p \in 1 .. Len(l) : l[p] = id
  BY <1>4, <1>5 DEF Arranges
<1>7. OnSide(side)' = OnSide(side) \ {id}
  <2>1. /\ \A x \in OrderIds : x # id => order'[x] = order[x]
        /\ order'[id].status = "cancelled"
    BY <1>2 DEF StatusSet
  <2> QED
    BY <2>1, SideOpen, SideOpenThen
<1>8. Next
  BY DEF Next
<1>9. Ladder(book'[side]) = RemoveAt(l, p)
  <2>1. OnSide(side)' = OnSide(side) \ {l[p]}
    BY <1>6, <1>7
  <2> QED
    BY <1>2, <1>8, <2>1, SideLoses DEF l
<1>10. Ladders' = [Ladders EXCEPT ![side] = RemoveAt(l, p)] /\ Ladders[side] = l
  <2>1. Ladders' = [Ladders EXCEPT ![side] = RemoveAt(l, p)]
    BY <1>2, <1>3, <1>9, LaddersChange
  <2>2. Ladders[side] = l
    BY <1>2 DEF Ladders, l
  <2> QED
    BY <2>1, <2>2
<1> DEFINE L == Ladders
<1>11. L = [s \in Sides |-> Ladder(book[s])] /\ Ladders' = [s \in Sides |-> Ladder(book'[s])]
  BY DEF Ladders
<1> HIDE DEF L
<1>12. [s \in Sides |-> Ladder(book'[s])] = [L EXCEPT ![side] = RemoveAt(L[side], p)] /\ L[side] = l
  BY <1>10, <1>11 DEF L
<1> QED
  BY <1>2, <1>3, <1>4, <1>6, <1>11, <1>12, CancelForm

\* A trade, in the terms of PriceTimeBook.
TradesAs(L, opp, maker, q, done) ==
    /\ taker # NoOrder /\ Abstract!MayTrade /\ taker' = taker
    /\ L = [side \in Sides |-> Ladder(book[side])]
    /\ opp = Opposite(order[taker].side) /\ maker = L[opp][1]
    /\ q = Min({Remaining(order[taker]), Remaining(order[maker])})
    /\ done = (q = Remaining(order[maker]))
    /\ order' = [order EXCEPT ![taker] = Abstract!Dealt(@, q, FALSE),
                              ![maker] = Abstract!Dealt(@, q, done)]
    /\ [side \in Sides |-> Ladder(book'[side])] =
          [L EXCEPT ![opp] = IF done THEN Tail(@) ELSE @]

\* What trades so is a step Trade of PriceTimeBook.
LEMMA TradeForm ==
    ASSUME NEW L, NEW opp, NEW maker, NEW q, NEW done, TradesAs(L, opp, maker, q, done)
    PROVE  Abstract!Trade
<1>1. /\ Abstract!Left(taker) = Remaining(order[taker])
      /\ Abstract!Left(maker) = Remaining(order[maker])
      /\ Abstract!Other(order[taker].side) = opp
      /\ \A S : Abstract!Min(S) = Min(S)
  BY AbstractTerms DEF Abstract!Min, Min, TradesAs
<1> QED
  BY <1>1 DEF Abstract!Trade, TradesAs

\* One turn of the match loop trades with the head of the opposite ladder.
LEMMA TradeServes ==
    ASSUME IInv, IInv', FillInv, FillInv', Match
    PROVE  Abstract!Trade
<1>0. PICK opp, maker, q, done :
         /\ opp = Opposite(order[taker].side) /\ maker = Head(Facing[1].queue)
         /\ q = TradeQty(taker, maker) /\ done = (Remaining(order[maker]) = q)
  OBVIOUS
<1> DEFINE l == Ladder(book[opp])
           new == Consume(book[opp], q, done)
           t1 == Fill(order[taker], q, FALSE)
           m1 == Fill(order[maker], q, done)
<1>1. /\ phase = "matching" /\ CanMatch /\ taker' = taker
      /\ order' = [order EXCEPT ![taker] = Fill(@, q, FALSE), ![maker] = Fill(@, q, done)]
      /\ book' = [book EXCEPT ![opp] = new]
  BY <1>0 DEF Match
<1>2. /\ taker \in OrderIds /\ maker \in OrderIds /\ maker # taker
      /\ order[taker].status = "created"
      /\ At(opp, 1, 1, maker)
      /\ order[maker].status = "open"
      /\ q \in Nat /\ q > 0
      /\ done \in BOOLEAN
  BY <1>0, <1>1, MatchFacts
<1>3. /\ order \in [OrderIds -> Order] /\ book \in Books
      /\ order[taker] \in Order /\ order[maker] \in Order /\ opp \in Sides
      /\ Facing = book[opp] /\ taker # NoOrder
  BY <1>0, <1>2, Typed, NoOrderAssumption DEF Order, Opposite, Sides, Facing
<1>4. /\ t1.status = "created" /\ m1.status = IF done THEN "filled" ELSE "open"
      /\ t1.side = order[taker].side /\ m1.side = order[maker].side
  BY <1>2, <1>3, FillFacts
<1>5. \A x \in OrderIds : order'[x] = IF x = maker THEN m1 ELSE IF x = taker THEN t1 ELSE order[x]
  BY <1>1, <1>2, <1>3
<1>6. order[maker].side = opp
  BY <1>2, <1>3, PlaceOf DEF IInv
<1>7. maker = l[1] /\ l # <<>> /\ 1 \in 1 .. Len(l) /\ Arranges(l, OnSide(opp), Before)
  <2>1. book[opp] # <<>>
    BY <1>1, <1>3 DEF CanMatch
  <2>2. maker = book[opp][1].queue[1]
    BY <1>2 DEF At
  <2> QED
    BY <1>3, <2>1, <2>2, LadderHead, LaddersNow
<1>8. q = Min({Remaining(order[taker]), Remaining(order[maker])})
  <2>1. Remaining(order[taker]) \in Int /\ Remaining(order[maker]) \in Int
    BY <1>2, <1>3, LeftInt
  <2> QED
    BY <1>0, <2>1, Lesser DEF TradeQty
<1>9. Next
  BY DEF Next
<1> HIDE DEF l, new, t1, m1
<1>10. Ladder(book'[opp]) = IF done THEN Tail(l) ELSE l
  <2>0. /\ OnSide(opp) = { x \in OrderIds : order[x].status = "open" /\ order[x].side = opp }
        /\ OnSide(opp)' = { x \in OrderIds : order'[x].status = "open" /\ order'[x].side = opp }
    BY SideOpen, SideOpenThen
  <2>1. CASE done
    <3>1. \A x \in OrderIds : order'[x].status = "open" /\ order'[x].side = opp
                              <=> x # maker /\ order[x].status = "open" /\ order[x].side = opp
      BY <1>2, <1>4, <1>5, <2>1
    <3>2. OnSide(opp)' = OnSide(opp) \ {l[1]}
      BY <1>7, <2>0, <3>1
    <3>3. Ladder(book'[opp]) = RemoveAt(l, 1)
      BY <1>3, <1>7, <1>9, <3>2, SideLoses DEF l
    <3>4. RemoveAt(l, 1) = Tail(l)
      BY <1>7, RemoveHead DEF Arranges
    <3> QED
      BY <2>1, <3>3, <3>4
  <2>2. CASE ~done
    <3>1. \A x \in OrderIds : order'[x].status = "open" /\ order'[x].side = opp
                              <=> order[x].status = "open" /\ order[x].side = opp
      BY <1>2, <1>4, <1>5, <1>6, <2>2
    <3>2. OnSide(opp)' = OnSide(opp)
      BY <2>0, <3>1
    <3> QED
      BY <1>3, <1>9, <2>2, <3>2, SideStays DEF l
  <2> QED
    BY <1>2, <2>1, <2>2
<1> DEFINE L == Ladders
           c == IF done THEN Tail(l) ELSE l
<1>11. /\ L = [s \in Sides |-> Ladder(book[s])] /\ L[opp] = l
       /\ Ladders' = [s \in Sides |-> Ladder(book'[s])]
  BY <1>3 DEF Ladders, l
<1>12. Ladders' = [L EXCEPT ![opp] = c]
  <2> HIDE DEF c, L
  <2>1. Ladder(book'[opp]) = c
    BY <1>10 DEF c
  <2> QED
    BY <1>1, <1>3, <2>1, LaddersChange DEF L
<1> HIDE DEF L
<1>13. [s \in Sides |-> Ladder(book'[s])] =
          [L EXCEPT ![opp] = IF done THEN Tail(L[opp]) ELSE L[opp]]
  BY <1>0, <1>11, <1>12
<1>14. t1 = Abstract!Dealt(order[taker], q, FALSE) /\ m1 = Abstract!Dealt(order[maker], q, done)
  BY DEF Abstract!Dealt, Fill, t1, m1
<1>15. order' = [order EXCEPT ![taker] = t1, ![maker] = m1]
  BY <1>2, <1>3, <1>1 DEF t1, m1
<1>16. order' = [order EXCEPT ![taker] = Abstract!Dealt(@, q, FALSE),
                              ![maker] = Abstract!Dealt(@, q, done)]
  BY <1>2, <1>3, <1>14, <1>15
<1>17. TradesAs(L, opp, maker, q, done)
  <2>1. Abstract!MayTrade
    BY <1>1, <1>2, MayTradeIs
  <2>2. done = (q = Remaining(order[maker]))
    BY <1>0
  <2>3. [side \in Sides |-> Ladder(book'[side])] = [L EXCEPT ![opp] = IF done THEN Tail(@) ELSE @]
    BY <1>11, <1>13
  <2> QED
    BY <1>0, <1>1, <1>3, <1>7, <1>8, <1>11, <1>16, <2>1, <2>2, <2>3 DEF TradesAs
<1> QED
  BY <1>17, TradeForm

\* The end of a request, in the terms of PriceTimeBook.
SettlesAs(L, side, id, status) ==
    /\ taker # NoOrder /\ ~Abstract!MayTrade /\ taker' = NoOrder
    /\ id = taker /\ side = order[taker].side
    /\ L = [s \in Sides |-> Ladder(book[s])]
    /\ status = IF Remaining(order[taker]) = 0 THEN "filled"
                ELSE IF order[taker].tif = "IOC" THEN "cancelled" ELSE "open"
    /\ order' = [order EXCEPT ![taker].status = status]
    /\ Remaining(order[taker]) > 0 => order[taker].tif # "FOK"
    /\ \/ status # "open" /\ [s \in Sides |-> Ladder(book'[s])] = L
       \/ /\ status = "open"
          /\ \E i \in 1 .. Len(L[side]) + 1 :
                /\ Abstract!IsPlaceOf(i, L[side], id)
                /\ [s \in Sides |-> Ladder(book'[s])] =
                      [L EXCEPT ![side] = InsertAt(L[side], i, id)]

\* What settles so is a step Settle of PriceTimeBook.
LEMMA SettleForm ==
    ASSUME NEW L, NEW side, NEW id, NEW status, SettlesAs(L, side, id, status)
    PROVE  Abstract!Settle
<1>1. /\ Abstract!Left(taker) = Remaining(order[taker])
      /\ \A s, i, e : Abstract!InsertAt(s, i, e) = InsertAt(s, i, e)
  BY AbstractTerms DEF Abstract!InsertAt, InsertAt
<1> DEFINE home == order[taker].side
<1>2. id = taker /\ side = home
  BY DEF SettlesAs
<1> HIDE DEF home
<1>3. SettlesAs(L, home, taker, status)
  BY <1>2
<1> USE DEF home
<1> QED
  BY <1>1, <1>3 DEF Abstract!Settle, SettlesAs

\* An order that ends in the loop is settled; one that goes on to the book is not yet.
LEMMA FinishServes ==
    ASSUME IInv, IInv', FillInv, FillInv', FinishMatch
    PROVE  \/ Abstract!Settle
           \/ order' = order /\ Ladders' = Ladders /\ taker' = taker
<1> DEFINE o == order[taker]
           out == Outcome(o)
<1>1. FinishStep(out)
  BY FinishEffect
<1>2. /\ phase = "matching" /\ ~CanMatch /\ taker \in OrderIds /\ o.status = "created"
      /\ \/ out \in {"filled", "cancelled"} /\ taker' = NoOrder
         \/ out = "created" /\ taker' = taker
      /\ StatusSet(taker, out) /\ book' = book
  BY <1>1 DEF FinishStep
<1>3. order' = [order EXCEPT ![taker].status = out]
  BY DEF FinishMatch
<1>4. Ladders' = Ladders
  BY <1>2, LaddersSame
<1>5. /\ o \in Order /\ o.qty \in Nat /\ o.filled \in Nat /\ o.filled <= o.qty
      /\ order \in [OrderIds -> Order] /\ o.tif \in TimesInForce
  BY <1>2, Typed DEF Order, IInv, NoOverfill
<1>6. CASE out = "created"
  <2>1. taker' = taker
    BY <1>2, <1>6
  <2>2. order' = order
    <3> DEFINE r == [o EXCEPT !.status = out]
    <3>1. order' = [order EXCEPT ![taker] = r]
      BY <1>3
    <3>2. out = o.status
      BY <1>2, <1>6
    <3> HIDE DEF o, out
    <3>3. r = o
      BY <1>5, <3>2 DEF Order
    <3> HIDE DEF r
    <3> QED
      BY <1>5, <3>1, <3>3 DEF o
  <2> QED
    BY <1>4, <2>1, <2>2
<1>7. CASE out \in {"filled", "cancelled"}
  <2>1. o.tif = "FOK" => out = "filled"
    BY FinishedFOK
  <2>2. Remaining(o) \in Int /\ (Remaining(o) <= 0 <=> Remaining(o) = 0)
    BY <1>5 DEF Remaining
  <2>3. out = IF Remaining(o) = 0 THEN "filled"
              ELSE IF o.tif = "IOC" THEN "cancelled" ELSE "open"
    BY <1>2, <1>7, <2>1, <2>2 DEF Outcome
  <2>4. Remaining(o) > 0 => o.tif # "FOK"
    BY <2>1, <2>2 DEF Outcome
  <2>5. taker # NoOrder /\ ~Abstract!MayTrade /\ taker' = NoOrder
    BY <1>2, <1>7, MayTradeIs, NoOrderAssumption
  <2> DEFINE L == [side \in Sides |-> Ladder(book[side])]
  <2>6. [side \in Sides |-> Ladder(book'[side])] = L
    BY <1>4 DEF Ladders
  <2>7. out # "open"
    BY <1>7
  <2> HIDE DEF out, L
  <2>8. L = [side \in Sides |-> Ladder(book[side])]
    BY DEF L
  <2>9. /\ order' = [order EXCEPT ![taker].status = out]
        /\ Remaining(order[taker]) > 0 => order[taker].tif # "FOK"
    BY <1>3, <2>4
  <2> DEFINE side == order[taker].side
  <2>10. SettlesAs(L, side, taker, out)
    BY <2>3, <2>5, <2>6, <2>7, <2>8, <2>9 DEF SettlesAs
  <2> QED
    BY <2>10, SettleForm
<1> QED
  BY <1>2, <1>6, <1>7

\* Prices do not get better along the ladder.
LEMMA LadderPrices ==
    ASSUME IInv, NEW s \in Sides, NEW j \in 1 .. Len(Ladder(book[s])),
           NEW k \in 1 .. Len(Ladder(book[s])), j < k
    PROVE  LET x == Ladder(book[s])[j]
               y == Ladder(book[s])[k]
           IN  /\ order[x].price \in Nat /\ order[y].price \in Nat
               /\ ~Better(s, order[y].price, order[x].price)
<1> DEFINE l == Ladder(book[s])
           x == l[j]
           y == l[k]
<1>1. Arranges(l, OnSide(s), Before)
  BY LaddersNow
<1> HIDE DEF l
<1>2. x \in OnSide(s) /\ y \in OnSide(s) /\ <<x, y>> \in Before
  BY <1>1, ArrangedOnce DEF Arranges, l
<1> HIDE DEF x, y
<1>3. x \in OrderIds /\ y \in OrderIds /\ order[x].side = s /\ order[y].side = s
  BY <1>2 DEF OnSide
<1>4. Ahead(x, y) /\ Ranking
  BY <1>2, <1>3, BeforeIs, ShapeRanks DEF IInv
<1>5. Ranked(x, y) /\ (InOrder(book, x, y) => Tied(x, y))
  BY <1>3, <1>4 DEF Ranking
<1>6. order[x].price \in Nat /\ order[y].price \in Nat
  BY <1>3 DEF IInv, TypeOK, Order
<1>7. Better(s, order[x].price, order[y].price) \/ Tied(x, y)
  BY <1>3, <1>5 DEF Ranked
<1>8. ~Better(s, order[y].price, order[x].price)
  BY <1>3, <1>6, <1>7 DEF Better, Tied
<1> QED
  BY <1>6, <1>8 DEF x, y, l

\* And so there is a place for every price.
LEMMA PlaceExists ==
    ASSUME IInv, NEW s \in Sides, NEW p \in Nat
    PROVE  \E i \in 1 .. Len(Ladder(book[s])) + 1 :
              \A j \in 1 .. Len(Ladder(book[s])) :
                 Better(s, p, order[Ladder(book[s])[j]].price) <=> j >= i
<1> DEFINE l == Ladder(book[s])
           N == Len(l)
           Worse(j) == Better(s, p, order[l[j]].price)
           T == { i \in Nat : i \in 1 .. N + 1 /\ \A j \in i .. N : Worse(j) }
<1>1. N \in Nat
  BY LaddersNow, ArrangedOnce
<1>2. N + 1 \in T
  BY <1>1
<1>3. PICK i \in T : \A k \in T : i <= k
  BY <1>2, LeastNumber
<1>4. i \in 1 .. N + 1 /\ \A j \in i .. N : Worse(j)
  BY <1>3
<1>5. ASSUME NEW j \in 1 .. N, j < i PROVE ~Worse(j)
  <2> SUFFICES ASSUME Worse(j) PROVE FALSE
    OBVIOUS
  <2>1. ASSUME NEW k \in j .. N PROVE Worse(k)
    <3>1. CASE k = j
      BY <3>1
    <3>2. CASE k # j
      <4>1. k \in 1 .. N /\ j < k
        BY <1>1, <3>2
      <4>2. /\ order[l[j]].price \in Nat /\ order[l[k]].price \in Nat
            /\ ~Better(s, order[l[k]].price, order[l[j]].price)
        BY <4>1, LadderPrices
      <4> QED
        BY <4>2 DEF Better
    <3> QED
      BY <3>1, <3>2
  <2>2. j \in T
    BY <1>1, <2>1
  <2>3. ~(i <= j)
    BY <1>1, <1>3, <1>5
  <2> QED
    BY <1>3, <2>2, <2>3
<1> HIDE DEF T
<1>6. \A j \in 1 .. N : Worse(j) <=> j >= i
  <2> SUFFICES ASSUME NEW j \in 1 .. N PROVE Worse(j) <=> j >= i
    OBVIOUS
  <2>1. CASE j < i
    <3>1. ~(j >= i)
      BY <1>1, <1>4, <2>1
    <3> QED
      BY <1>5, <2>1, <3>1
  <2>2. CASE ~(j < i)
    <3>1. j >= i /\ j \in i .. N
      BY <1>1, <1>4, <2>2
    <3> QED
      BY <1>4, <3>1
  <2> QED
    BY <2>1, <2>2
<1> QED
  BY <1>4, <1>6

\* What goes to the book takes its place in the ladder of its side.
LEMMA AddServes ==
    ASSUME IInv, IInv', FillInv, FillInv', AddToBook
    PROVE  Abstract!Settle
<1>0. PICK id \in OrderIds : id = taker
  BY AddEffect DEF AddStep
<1>1. PICK side, n : AddStep(side, n)
  BY AddEffect
<1> DEFINE new == AddAt(book[side], n, taker)
           l == Ladder(book[side])
           L == [s \in Sides |-> Ladder(book[s])]
           p == order[id].price
<1>2. /\ side = order[id].side /\ side \in Sides /\ phase = "resting" /\ taker' = NoOrder
      /\ order[id].status = "created" /\ Remaining(order[id]) > 0
      /\ StatusSet(id, "open")
      /\ book' = [book EXCEPT ![side] = new]
  BY <1>0, <1>1 DEF AddStep
<1>3. order' = [order EXCEPT ![taker].status = "open"]
  BY DEF AddToBook
<1>4. /\ taker # NoOrder /\ ~Abstract!MayTrade
      /\ order[id].tif = "GTC" /\ order[id].price \in Nat
      /\ book \in Books
  <2>1. ~CanMatch /\ order[taker].tif = "GTC"
    BY <1>2 DEF IInv, RestSound, FillInv, RestsGTC
  <2> QED
    BY <1>0, <2>1, MayTradeIs, NoOrderAssumption, Typed DEF Order
<1> HIDE DEF new
<1>5. PICK i \in 1 .. Len(l) + 1 :
         \A j \in 1 .. Len(l) : Better(side, p, order[l[j]].price) <=> j >= i
  BY <1>2, <1>4, PlaceExists
<1>6. /\ id \notin OnSide(side) /\ OnSide(side)' = OnSide(side) \cup {id}
      /\ order'[id].price = p
  <2>1. /\ \A x \in OrderIds : x # id => order'[x] = order[x]
        /\ order'[id].status = "open" /\ order'[id].side = side /\ order'[id].price = p
    BY <1>2 DEF StatusSet, SameRequest
  <2>2. /\ OnSide(side) = { x \in OrderIds : order[x].status = "open" /\ order[x].side = side }
        /\ OnSide(side)' = { x \in OrderIds : order'[x].status = "open" /\ order'[x].side = side }
    BY SideOpen, SideOpenThen
  <2> QED
    BY <1>2, <2>1, <2>2
<1>7. Next
  BY DEF Next
<1>8. Ladder(book'[side]) = InsertAt(l, i, id)
  BY <1>2, <1>5, <1>6, <1>7, SideGains
<1>9. Ladders' = [Ladders EXCEPT ![side] = InsertAt(l, i, id)]
  <2> HIDE DEF l
  <2> QED
    BY <1>2, <1>4, <1>8, LaddersChange
<1>10. Abstract!IsPlaceOf(i, l, id)
  <2>1. \A x : Abstract!Worse(x, id) <=> Better(side, p, order[x].price)
    BY <1>2 DEF Abstract!Worse, Better, Sides
  <2> HIDE DEF l, p
  <2> QED
    BY <1>5, <2>1 DEF Abstract!IsPlaceOf
<1>11. /\ L = Ladders /\ L[side] = l
       /\ [s \in Sides |-> Ladder(book'[s])] = Ladders'
  BY <1>2 DEF Ladders
<1>12. \E k \in 1 .. Len(L[side]) + 1 :
          /\ Abstract!IsPlaceOf(k, L[side], id)
          /\ [s \in Sides |-> Ladder(book'[s])] = [L EXCEPT ![side] = InsertAt(L[side], k, id)]
  <2> HIDE DEF L, l
  <2> QED
    BY <1>5, <1>9, <1>10, <1>11
<1>13. L = [s \in Sides |-> Ladder(book[s])]
  OBVIOUS
<1>14. Remaining(order[id]) # 0
  <2>1. Remaining(order[id]) \in Int
    BY Typed, LeftInt
  <2> QED
    BY <1>2, <2>1
<1> DEFINE st == "open"
<1>15. st = IF Remaining(order[taker]) = 0 THEN "filled"
            ELSE IF order[taker].tif = "IOC" THEN "cancelled" ELSE "open"
  BY <1>0, <1>4, <1>14
<1>16. /\ st = "open" /\ order' = [order EXCEPT ![taker].status = st]
       /\ Remaining(order[taker]) > 0 => order[taker].tif # "FOK"
  BY <1>0, <1>3, <1>4
<1> HIDE DEF st, L
<1>17. taker # NoOrder /\ ~Abstract!MayTrade /\ taker' = NoOrder
  BY <1>2, <1>4
<1>18. id = taker /\ side = order[taker].side
  BY <1>0, <1>2
<1>19. SettlesAs(L, side, id, st)
  BY <1>12, <1>13, <1>15, <1>16, <1>17, <1>18 DEF SettlesAs
<1> QED
  BY <1>19, SettleForm

(***************************************************************************)
(* What CanFillFOK finds is what there is.                                 *)
(***************************************************************************)
\* If what suits an order covers its quantity, the levels it may trade at do.
LEMMA CoveredFillable ==
    ASSUME IInv, VolumeExact, OpenIffResting, NEW o, o.side \in Sides, o.price \in Nat,
           o.qty \in Nat, o.qty > 0, SumOver(Left, Marketable(o)) >= o.qty
    PROVE  CanFillFOK(o, book[Opposite(o.side)])
<1>0. PICK opp \in Sides : opp = Opposite(o.side)
  BY DEF Opposite, Sides
<1> DEFINE levels == book[opp]
           N == Len(levels)
           Fits(i) == Crosses(o, levels[i].price)
           T == { m \in Nat : m \in 0 .. N /\ \A i \in m + 1 .. N : ~Fits(i) }
<1>1. /\ order \in [OrderIds -> Order] /\ book \in Books /\ BookWellFormed
      /\ N \in Nat /\ levels \in Seq(PriceLevel)
      /\ \A i \in 1 .. N : levels[i].price \in Nat
  <2>1. order \in [OrderIds -> Order] /\ book \in Books /\ BookWellFormed
    BY DEF IInv, TypeOK, Books
  <2>2. levels \in Seq(PriceLevel)
    BY <2>1 DEF Books
  <2> QED
    BY <2>1, <2>2, LenProperties, ElementOfSeq, LevelTypes
<1>2. N \in T
  BY <1>1
<1>3. PICK n \in T : \A m \in T : n <= m
  BY <1>2, LeastNumber
<1>4. n \in Nat /\ n \in 0 .. N /\ \A i \in n + 1 .. N : ~Fits(i)
  BY <1>3
<1>5. ASSUME n # 0 PROVE Fits(n)
  <2> SUFFICES ASSUME ~Fits(n) PROVE FALSE
    OBVIOUS
  <2>1. n - 1 \in Nat /\ n - 1 \in 0 .. N /\ ~(n <= n - 1)
    BY <1>1, <1>4, <1>5
  <2>2. \A i \in (n - 1) + 1 .. N : ~Fits(i)
    <3> SUFFICES ASSUME NEW i \in (n - 1) + 1 .. N PROVE ~Fits(i)
      OBVIOUS
    <3>1. i = n \/ i \in n + 1 .. N
      BY <1>1, <1>4
    <3> QED
      BY <1>4, <3>1
  <2> QED
    BY <1>3, <2>1, <2>2
<1>6. \A i \in 1 .. n : Fits(i)
  <2> SUFFICES ASSUME NEW i \in 1 .. n PROVE Fits(i)
    OBVIOUS
  <2>1. CASE i = n
    BY <1>5, <1>4, <2>1
  <2>2. CASE i # n
    <3>1. i \in 1 .. N /\ n \in 1 .. N /\ i < n /\ n # 0
      BY <1>1, <1>4, <2>2
    <3>2. Better(opp, levels[i].price, levels[n].price)
      BY <1>1, <3>1 DEF BookWellFormed, LevelsSorted
    <3>3. Fits(n) /\ levels[i].price \in Nat /\ levels[n].price \in Nat
      BY <1>1, <1>5, <3>1
    <3> QED
      BY <1>0, <3>2, <3>3 DEF Crosses, Better, Opposite, Sides
  <2> QED
    BY <2>1, <2>2
<1> DEFINE reach == Reach(book, opp, n)
           some == Marketable(o)
<1> HIDE DEF T
<1>7. OneLevel(book)
  BY <1>1, WellFormedQueues
<1>8. some \subseteq reach
  <2> SUFFICES ASSUME NEW x \in some PROVE x \in reach
    OBVIOUS
  <2>1. /\ x \in OrderIds /\ QueuedIn(book, x)
        /\ order[x].side = opp /\ Crosses(o, order[x].price)
    BY <1>0, <1>1, MarketableFinite DEF Marketable
  <2>2. PICK s \in Sides : \E j \in 1 .. Len(book[s]) : x \in Queued(book[s][j])
    BY <2>1 DEF QueuedIn
  <2>3. PICK j \in 1 .. Len(book[s]) : x \in Queued(book[s][j])
    BY <2>2
  <2>4. s = opp /\ order[x].price = book[opp][j].price
    BY <1>1, <2>1, <2>2, <2>3, WellFormedQueues
  <2>5. j \in 1 .. N /\ Fits(j)
    BY <2>1, <2>3, <2>4
  <2>6. j \in 1 .. n
    BY <1>1, <1>4, <2>5
  <2> QED
    BY <2>3, <2>4, <2>6 DEF Reach
<1>9. reach \subseteq some
  <2> SUFFICES ASSUME NEW x, x \in reach PROVE x \in some
    OBVIOUS
  <2>1. PICK j \in 1 .. n : x \in Queued(book[opp][j])
    BY DEF Reach
  <2>2. j \in 1 .. Len(book[opp])
    BY <1>1, <1>4
  <2>3. /\ x \in OrderIds /\ order[x].status = "open"
        /\ order[x].side = opp /\ order[x].price = book[opp][j].price
    BY <1>1, <2>1, <2>2, WellFormedQueues
  <2> QED
    BY <1>0, <1>6, <2>1, <2>3 DEF Marketable
<1>10. reach = some
  BY <1>8, <1>9
<1>11. SumOver([j \in 1 .. n |-> levels[j].volume], 1 .. n) = SumOver(Left, reach)
  <2>1. \A x \in OrderIds : Left[x] \in Int
    BY <1>1, LeftInt
  <2> QED
    BY <1>1, <1>4, <1>7, <2>1, ReachSum, ExactNow
<1>12. CumVolume(levels, n) = SumOver(Left, reach)
  BY <1>11, SumNames DEF CumVolume
<1>13. CumVolume(levels, n) >= o.qty
  <2> HIDE DEF reach, some, levels
  <2> QED
    BY <1>10, <1>12 DEF some
<1>14. n # 0
  <2> SUFFICES ASSUME n = 0 PROVE FALSE
    OBVIOUS
  <2>1. reach = {}
    BY DEF Reach
  <2>2. SumOver(Left, reach) = 0
    BY <2>1, SumEmpty
  <2> HIDE DEF reach, some, levels
  <2> QED
    BY <1>12, <1>13, <2>2
<1>15. n \in 1 .. N
  BY <1>1, <1>4, <1>14
<1> QED
  BY <1>0, <1>6, <1>13, <1>15 DEF CanFillFOK

\* What there is to trade with, there and here.
LEMMA AvailableIs ==
    ASSUME IInv, FillInv, NEW o, o.side \in Sides
    PROVE  Abstract!Available(o) = SumOver(Left, Marketable(o))
<1>0. PICK opp \in Sides : opp = Opposite(o.side)
  BY DEF Opposite, Sides
<1> DEFINE l == Ladder(book[opp])
           some == { x \in ToSet(l) : Crosses(o, order[x].price) }
<1>1. [id \in OrderIds |-> Abstract!Left(id)] = Left
  BY AbstractTerms DEF Left
<1>2. /\ Abstract!Other(o.side) = opp
      /\ \A p : Abstract!Suits(o, p) <=> Crosses(o, p)
  BY <1>0, AbstractTerms
<1>3. [side \in Sides |-> Ladder(book[side])][opp] = l
  OBVIOUS
<1>4. \A f, S : Abstract!SumFunctionOnSet(f, S) = SumOver(f, S)
  BY DEF Abstract!SumFunctionOnSet, Abstract!FoldFunctionOnSet, Abstract!MapThenFoldSet,
         SumOver, MapThenSumSet, MapThenFoldSet
<1>5. \A s : Abstract!ToSet(s) = ToSet(s)
  BY DEF Abstract!ToSet, ToSet
<1>6. ToSet(l) = OnSide(opp)
  BY LaddersNow, ArrangedOnce
<1>7. OnSide(opp) = { x \in OrderIds : order[x].status = "open" /\ order[x].side = opp }
  BY SideOpen
<1> HIDE DEF l
<1>8. some = Marketable(o)
  BY <1>0, <1>6, <1>7 DEF Marketable
<1>9. Abstract!Available(o) = SumOver(Left, some)
  BY <1>1, <1>2, <1>3, <1>4, <1>5 DEF Abstract!Available
<1> QED
  BY <1>8, <1>9

\* An order is refused there for the reasons it is refused here.
LEMMA RefusalIs ==
    ASSUME IInv, FillInv, NEW o, o.side \in Sides, o.price \in Nat, o.qty \in Nat, o.qty > 0
    PROVE  Abstract!MayRefuse(o) <=> FOKUnfillable(o) \/ NoLiquidity(o)
<1>0. PICK opp \in Sides : opp = Opposite(o.side)
  BY DEF Opposite, Sides
<1> DEFINE l == Ladder(book[opp])
           sum == SumOver(Left, Marketable(o))
           fits == CanFillFOK(o, book[opp])
<1>1. VolumeExact /\ OpenIffResting
  BY DEF FillInv
<1>2. sum >= o.qty <=> fits
  BY <1>0, <1>1, CoveredFillable, FillableCovered
<1>3. sum \in Int
  <2>1. IsFiniteSet(Marketable(o)) /\ Marketable(o) \subseteq OrderIds
    BY <1>1, MarketableFinite DEF IInv, TypeOK, Books
  <2>2. \A x \in Marketable(o) : Left[x] \in Int
    BY <2>1, LeftInt DEF IInv, TypeOK
  <2> QED
    BY <2>1, <2>2, SumInteger
<1>4. Abstract!Available(o) = sum
  BY AvailableIs
<1>5. Abstract!Other(o.side) = opp
  BY <1>0, AbstractTerms
<1>6. [side \in Sides |-> Ladder(book[side])][opp] = l
  OBVIOUS
<1>7. /\ l = <<>> <=> book[opp] = <<>>
      /\ book[opp] # <<>> => order[l[1]].price = book[opp][1].price
  BY LadderHead
<1>8. NoLiquidity(o) <=> /\ o.type = "market"
                         /\ book[opp] = <<>> \/ book[opp][1].price = 0
  BY <1>0 DEF NoLiquidity, BestPrice
<1>9. FOKUnfillable(o) <=> o.tif = "FOK" /\ ~fits
  BY <1>0 DEF FOKUnfillable
<1> HIDE DEF l, sum, fits
<1>10. Abstract!MayRefuse(o) <=>
          \/ o.tif = "FOK" /\ sum < o.qty
          \/ o.type = "market" /\ (l = <<>> \/ order[l[1]].price = 0)
  BY <1>4, <1>5, <1>6 DEF Abstract!MayRefuse
<1>11. sum < o.qty <=> ~fits
  BY <1>2, <1>3
<1> QED
  BY <1>7, <1>8, <1>9, <1>10, <1>11

\* A request is refused or taken up.
LEMMA SubmitServes ==
    ASSUME IInv, FillInv, NEW id \in OrderIds, NEW req \in Requests, Submit(id, req)
    PROVE  Abstract!Submit(id, req)
<1> DEFINE o == NewOrder(req, "created")
           r == NewOrder(req, "rejected")
           refused == FOKUnfillable(o) \/ NoLiquidity(o)
<1>1. o.side \in Sides /\ o.price \in Nat /\ o.qty \in Nat /\ o.qty > 0
  BY RequestsAssumption DEF RequestType, NewOrder
<1>2. Abstract!MayRefuse(o) <=> refused
  <2> HIDE DEF o
  <2> QED
    BY <1>1, RefusalIs
<1>3. Abstract!Fresh(req, "created") = o /\ Abstract!Fresh(req, "rejected") = r
  BY AbstractTerms
<1>4. [o EXCEPT !.status = "rejected"] = r
  BY DEF NewOrder
<1>5. /\ phase = "idle" /\ order[id].status = "none"
      /\ book' = book
      /\ IF refused THEN order' = [order EXCEPT ![id] = r] /\ taker' = taker
                    ELSE order' = [order EXCEPT ![id] = o] /\ taker' = id
  <2>1. CASE RejectFOK(id, req)
    BY <1>4, <2>1 DEF RejectFOK, Refuse, Idle
  <2>2. CASE RejectMarket(id, req)
    BY <1>4, <2>2 DEF RejectMarket, Refuse, Idle
  <2>3. CASE MatchOrder(id, req)
    BY <2>3 DEF MatchOrder, Idle
  <2> QED
    BY <2>1, <2>2, <2>3 DEF Submit
<1>6. taker = NoOrder
  BY <1>5 DEF IInv, TypeOK
<1>7. [side \in Sides |-> Ladder(book'[side])] = [side \in Sides |-> Ladder(book[side])]
  BY <1>5
<1> HIDE DEF o, r, refused
<1> QED
  BY <1>2, <1>3, <1>5, <1>6, <1>7 DEF Abstract!Submit

\* No order waits at first, there or here.
LEMMA InitServes == Init => Abstract!Init
<1> SUFFICES ASSUME Init PROVE Abstract!Init
  OBVIOUS
<1>1. IInv
  BY InitIInv
<1>2. \A s \in Sides : Ladder(book[s]) = <<>>
  <2>1. \A s \in Sides : book[s] = <<>>
    BY DEF Init
  <2> QED
    BY <1>1, <2>1, LadderHead
<1>3. [side \in Sides |-> Ladder(book[side])] = [side \in {"buy", "sell"} |-> <<>>]
  BY <1>2 DEF Sides
<1>4. /\ order = [id \in OrderIds |->
                    [side |-> "buy", type |-> "limit", tif |-> "GTC", price |-> 0,
                     qty |-> 0, filled |-> 0, status |-> "none"]]
      /\ taker = NoOrder
  BY DEF Init, Unsubmitted
<1> QED
  BY <1>3, <1>4 DEF Abstract!Init

\* Every step of the shard is a step of the price-time list, or none.
LEMMA StepServes ==
    IInv /\ IInv' /\ FillInv /\ FillInv' /\ [Next]_vars =>
        \/ Abstract!Next
        \/ order' = order /\ Ladders' = Ladders /\ taker' = taker
<1> SUFFICES ASSUME IInv, IInv', FillInv, FillInv', [Next]_vars
             PROVE  \/ Abstract!Next
                    \/ order' = order /\ Ladders' = Ladders /\ taker' = taker
  OBVIOUS
<1>1. ASSUME NEW id \in OrderIds, NEW req \in Requests, Submit(id, req)
      PROVE  Abstract!Next
  BY <1>1, SubmitServes DEF Abstract!Next
<1>2. CASE Match
  BY <1>2, TradeServes DEF Abstract!Next
<1>3. CASE FinishMatch
  BY <1>3, FinishServes DEF Abstract!Next
<1>4. CASE AddToBook
  BY <1>4, AddServes DEF Abstract!Next
<1>5. ASSUME NEW id \in OrderIds, CancelOrder(id)
      PROVE  Abstract!Next
  BY <1>5, CancelServes DEF Abstract!Next
<1>6. CASE UNCHANGED vars
  BY <1>6, LaddersSame DEF vars
<1> QED
  BY <1>1, <1>2, <1>3, <1>4, <1>5, <1>6 DEF Next

\* The book keeps price-time priority: levels, queues and cached volumes behave
\* as one plain list a side, whatever orders and cancellations come.
THEOREM ServesInPriority == Spec => ImplementsPriceTime
<1>1. IInv /\ IInv' /\ FillInv /\ FillInv' /\ [Next]_vars =>
         [Abstract!Next]_<<order, [side \in Sides |-> Ladder(book[side])], taker>>
  BY StepServes DEF Ladders
<1> QED
  BY <1>1, InitServes, InvariantHolds, FillInvariantHolds, PTL
     DEF Spec, ImplementsPriceTime, Abstract!Spec, Abstract!vars
=============================================================================
