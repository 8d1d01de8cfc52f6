----------------------------- MODULE OrderBook -----------------------------
(***************************************************************************)
(* One shard of the matching engine: the order book of a trading pair      *)
(* (internal/matching/orderbook.go, matcher.go) together with the          *)
(* goroutine that is its only writer (processOrder in engine.go).          *)
(*                                                                         *)
(* The shard takes one request at a time.  Its steps are cut where another *)
(* goroutine can look at the book, and inside the match loop, once for     *)
(* each iteration:                                                         *)
(*                                                                         *)
(*   idle --MatchOrder--> matching --FinishMatch--> idle | resting         *)
(*                        (one Match step per loop iteration, ob.mu held)  *)
(*   resting --AddToBook--> idle                                           *)
(*   idle --RejectFOK | RejectMarket | CancelOrder--> idle                 *)
(*                                                                         *)
(* Quantities and prices are naturals: the validator accepts multiples of  *)
(* a step and of a tick only.  Price 0 is the price of an order sent       *)
(* without one (market and stop-loss orders).                              *)
(***************************************************************************)
EXTENDS Integers, Sequences, SequencesExt

CONSTANTS
    OrderIds,   \* the ids NewOrderID hands out, each used once
    NoOrder,    \* nil
    Requests    \* the orders clients may send

Sides == {"buy", "sell"}
Types == {"limit", "market", "stop_loss", "stop_limit"}
TimesInForce == {"GTC", "IOC", "FOK"}
Statuses == {"none", "created", "open", "filled", "cancelled", "rejected"}

RequestType ==
    [side: Sides, type: Types, tif: TimesInForce, price: Nat, qty: Nat \ {0}]

ASSUME NoOrderAssumption == NoOrder \notin OrderIds

ASSUME RequestsAssumption == Requests \subseteq RequestType

VARIABLES
    order,      \* order[id]: what the shard knows of order id
    book,       \* book["buy"] = bids, book["sell"] = asks; best level first
    seqNum,     \* number of orders that ever came to rest
    phase,      \* where the shard goroutine is
    taker,      \* the order being matched, or NoOrder
    matches,    \* trades of the MatchOrder call in progress
    trades      \* trades published so far, in order

vars == <<order, book, seqNum, phase, taker, matches, trades>>

(***************************************************************************)
(* Records.  A priceLevel's linked list with its len field is a sequence.  *)
(***************************************************************************)
Order == [side: Sides, type: Types, tif: TimesInForce, price: Nat,
          qty: Nat, filled: Nat, status: Statuses]

PriceLevel == [price: Nat, queue: Seq(OrderIds), volume: Int]

MatchResult == [taker: OrderIds, maker: OrderIds, price: Nat, qty: Nat]

Unsubmitted == [side |-> "buy", type |-> "limit", tif |-> "GTC", price |-> 0,
                qty |-> 0, filled |-> 0, status |-> "none"]

NewOrder(req, status) ==
    [side |-> req.side, type |-> req.type, tif |-> req.tif, price |-> req.price,
     qty |-> req.qty, filled |-> 0, status |-> status]

Opposite(side) == IF side = "buy" THEN "sell" ELSE "buy"

Remaining(o) == o.qty - o.filled

IsFinal(status) == status \in {"filled", "cancelled", "rejected"}

\* On this side of the book, price p has priority over price q.
Better(side, p, q) == IF side = "buy" THEN p > q ELSE p < q

\* Mutant: an order at its own limit price does not trade.
CrossesStrictly(o, p) ==
    o.type = "limit" => IF o.side = "buy" THEN o.price > p ELSE o.price < p

\* Order o may trade at price p: only limit orders look at the price.
Crosses(o, p) ==
    o.type = "limit" => IF o.side = "buy" THEN o.price >= p ELSE o.price <= p

BestPrice(levels) == IF levels = <<>> THEN 0 ELSE levels[1].price

CumVolume(levels, n) ==
    LET volume == [i \in 1 .. n |-> levels[i].volume]
    IN  SumFunctionOnSet(volume, 1 .. n)

\* The volumes cached in the levels o may trade at cover its quantity.
CanFillFOK(o, levels) ==
    \E n \in 1 .. Len(levels) :
        /\ \A i \in 1 .. n : Crosses(o, levels[i].price)
        /\ CumVolume(levels, n) >= o.qty

(***************************************************************************)
(* Requests the shard refuses before it matches.                           *)
(***************************************************************************)
Idle == phase = "idle"

Refuse(id, o) ==
    /\ order' = [order EXCEPT ![id] = [o EXCEPT !.status = "rejected"]]
    /\ UNCHANGED <<book, seqNum, phase, taker, matches, trades>>

FOKUnfillable(o) == o.tif = "FOK" /\ ~CanFillFOK(o, book[Opposite(o.side)])

\* A best price of zero is read as an empty side.
NoLiquidity(o) == o.type = "market" /\ BestPrice(book[Opposite(o.side)]) = 0

RejectFOK(id, req) ==
    LET o == NewOrder(req, "created")
    IN  /\ Idle /\ order[id].status = "none"
        /\ FOKUnfillable(o)
        /\ Refuse(id, o)

RejectMarket(id, req) ==
    LET o == NewOrder(req, "created")
    IN  /\ Idle /\ order[id].status = "none"
        /\ ~FOKUnfillable(o) /\ NoLiquidity(o)
        /\ Refuse(id, o)

(***************************************************************************)
(* MatchOrder: the loop of matchBuy and matchSell, one iteration a step.   *)
(***************************************************************************)
MatchOrder(id, req) ==
    LET o == NewOrder(req, "created")
    IN  /\ Idle /\ order[id].status = "none"
        /\ ~FOKUnfillable(o) /\ ~NoLiquidity(o)
        /\ order' = [order EXCEPT ![id] = o]
        /\ phase' = "matching"
        /\ taker' = id
        /\ matches' = <<>>
        /\ UNCHANGED <<book, seqNum, trades>>

\* The side of the book the taker trades against.
Facing == book[Opposite(order[taker].side)]

CanMatch ==
    /\ Remaining(order[taker]) > 0
    /\ Facing # <<>>
    /\ Crosses(order[taker], Facing[1].price)

\* Mutant: one lot at a time.
OneLot(t, m) == 1

TradeQty(t, m) ==
    IF Remaining(order[t]) > Remaining(order[m])
    THEN Remaining(order[m]) ELSE Remaining(order[t])

\* Mutant: the quantity is taken off.
FillBackwards(o, q, done) ==
    [o EXCEPT !.filled = @ - q, !.status = IF done THEN "filled" ELSE @]

\* Order o trades q; a maker that is done gets its last status here.
Fill(o, q, done) ==
    [o EXCEPT !.filled = @ + q, !.status = IF done THEN "filled" ELSE @]

\* Mutant: a level stays when its last order is popped.
ConsumeKeepingLevel(levels, q, done) ==
    [levels EXCEPT ![1] = [@ EXCEPT !.volume = @ - q,
                                    !.queue = IF done THEN Tail(@) ELSE @]]

\* Mutant: a maker that is done stays in its queue.
ConsumeWithoutPop(levels, q, done) == [levels EXCEPT ![1].volume = @ - q]

\* The maker at the head of the best level has traded q; pop it when it is done.
Consume(levels, q, done) ==
    LET best == [levels[1] EXCEPT !.volume = @ - q]
    IN  IF ~done THEN [levels EXCEPT ![1] = best]
        ELSE IF Len(best.queue) = 1 THEN Tail(levels)
        ELSE [levels EXCEPT ![1] = [best EXCEPT !.queue = Tail(@)]]

\* Mutant: a maker that is done is not popped, and a trade of nothing skipped.
MatchSpinning ==
    /\ phase = "matching" /\ CanMatch
    /\ LET maker == Head(Facing[1].queue)
           q     == TradeQty(taker, maker)
       IN  IF q = 0 THEN UNCHANGED <<matches, order, book>>
           ELSE /\ matches' = Append(matches, [taker |-> taker, maker |-> maker,
                                    price |-> order[maker].price, qty |-> q])
                /\ order' = [order EXCEPT ![taker] = Fill(@, q, FALSE),
                                          ![maker] = Fill(@, q, FALSE)]
                /\ book' = [book EXCEPT ![Opposite(order[taker].side)] =
                               ConsumeWithoutPop(@, q, FALSE)]
    /\ UNCHANGED <<seqNum, phase, taker, trades>>

Match ==
    /\ phase = "matching" /\ CanMatch
    /\ LET maker == Head(Facing[1].queue)
           q     == TradeQty(taker, maker)
           done  == Remaining(order[maker]) = q
       IN  /\ matches' = Append(matches, [taker |-> taker, maker |-> maker,
                                price |-> order[maker].price, qty |-> q])
           /\ order' = [order EXCEPT ![taker] = Fill(@, q, FALSE),
                                     ![maker] = Fill(@, q, done)]
           /\ book' = [book EXCEPT ![Opposite(order[taker].side)] =
                          Consume(@, q, done)]
    /\ UNCHANGED <<seqNum, phase, taker, trades>>

(***************************************************************************)
(* After the loop: filled, or cancelled (FOK, which also drops its trades, *)
(* and IOC), or what is left goes to the book.  The trades are published.  *)
(***************************************************************************)
\* Mutant: what is left of an immediate-or-cancel order stays.
OutcomeWithoutIOC(o) ==
    IF Remaining(o) <= 0 THEN "filled"
    ELSE IF o.tif = "FOK" THEN "cancelled" ELSE o.status

Outcome(o) ==
    IF Remaining(o) <= 0 THEN "filled"
    ELSE IF o.tif \in {"FOK", "IOC"} THEN "cancelled"
    ELSE o.status

FinishMatch ==
    LET o == order[taker]
    IN  /\ phase = "matching" /\ ~CanMatch
        /\ order' = [order EXCEPT ![taker].status = Outcome(o)]
        /\ trades' = IF Outcome(o) = "cancelled" /\ o.tif = "FOK"
                     THEN trades ELSE trades \o matches
        /\ matches' = <<>>
        /\ IF IsFinal(Outcome(o))
           THEN phase' = "idle" /\ taker' = NoOrder
           ELSE phase' = "resting" /\ UNCHANGED taker
        /\ UNCHANGED <<book, seqNum>>

(***************************************************************************)
(* AddToBook: addBid and addAsk.  sort.Search yields the first index whose *)
(* level does not have priority over the price.                            *)
(***************************************************************************)
IsInsertionPoint(i, levels, side, p) ==
    /\ \A j \in 1 .. i-1 : Better(side, levels[j].price, p)
    /\ \A j \in i .. Len(levels) : ~Better(side, levels[j].price, p)

\* Mutant: the queue is a stack.
PushFront(level, id) ==
    [level EXCEPT !.queue = <<id>> \o @, !.volume = @ + Remaining(order[id])]

Push(level, id) ==
    [level EXCEPT !.queue = Append(@, id), !.volume = @ + Remaining(order[id])]

AddAt(levels, i, id) ==
    LET p == order[id].price
    IN  IF i <= Len(levels) /\ levels[i].price = p
        THEN [levels EXCEPT ![i] = Push(@, id)]
        ELSE InsertAt(levels, i,
                      Push([price |-> p, queue |-> <<>>, volume |-> 0], id))

AddToBook ==
    LET side == order[taker].side
    IN  /\ phase = "resting"
        /\ \E i \in 1 .. Len(book[side]) + 1 :
              /\ IsInsertionPoint(i, book[side], side, order[taker].price)
              /\ book' = [book EXCEPT ![side] = AddAt(@, i, taker)]
        /\ order' = [order EXCEPT ![taker].status = "open"]
        /\ seqNum' = seqNum + 1
        /\ phase' = "idle"
        /\ taker' = NoOrder
        /\ UNCHANGED <<matches, trades>>

(***************************************************************************)
(* CancelOrder.  An id that is in no queue leaves everything as it is.     *)
(***************************************************************************)
\* Order id is the k-th of the queue of the i-th level.
At(side, i, k, id) ==
    /\ i \in 1 .. Len(book[side])
    /\ k \in 1 .. Len(book[side][i].queue)
    /\ book[side][i].queue[k] = id

Resting(id) ==
    \E side \in Sides : \E i \in 1 .. Len(book[side]) :
        \E k \in 1 .. Len(book[side][i].queue) : At(side, i, k, id)

\* Mutant: the cached volume is left alone.
DropKeepingVolume(levels, i, k) ==
    IF Len(levels[i].queue) = 1 THEN RemoveAt(levels, i)
    ELSE [levels EXCEPT ![i].queue = RemoveAt(@, k)]

\* Mutant: the oldest order of the level leaves instead.
DropHead(levels, i, k) ==
    IF Len(levels[i].queue) = 1 THEN RemoveAt(levels, i)
    ELSE [levels EXCEPT ![i].queue = Tail(@),
                        ![i].volume = @ - Remaining(order[levels[i].queue[1]])]

\* The k-th order of level i leaves; the level goes with its last order.
Drop(levels, i, k) ==
    IF Len(levels[i].queue) = 1 THEN RemoveAt(levels, i)
    ELSE [levels EXCEPT ![i].queue = RemoveAt(@, k),
                        ![i].volume = @ - Remaining(order[levels[i].queue[k]])]

CancelOrder(id) ==
    /\ Idle
    /\ \E side \in Sides : \E i \in 1 .. Len(book[side]) :
          \E k \in 1 .. Len(book[side][i].queue) :
             /\ At(side, i, k, id)
             /\ book' = [book EXCEPT ![side] = Drop(@, i, k)]
    /\ order' = [order EXCEPT ![id].status = "cancelled"]
    /\ UNCHANGED <<seqNum, phase, taker, matches, trades>>

(***************************************************************************)
(* The specification.                                                      *)
(***************************************************************************)
Init ==
    /\ order = [id \in OrderIds |-> Unsubmitted]
    /\ book = [side \in Sides |-> <<>>]
    /\ seqNum = 0
    /\ phase = "idle"
    /\ taker = NoOrder
    /\ matches = <<>>
    /\ trades = <<>>

Submit(id, req) ==
    RejectFOK(id, req) \/ RejectMarket(id, req) \/ MatchOrder(id, req)

Next ==
    \/ \E id \in OrderIds, req \in Requests : Submit(id, req)
    \/ Match
    \/ FinishMatch
    \/ AddToBook
    \/ \E id \in OrderIds : CancelOrder(id)

Spec == Init /\ [][Next]_vars

\* The shard goroutine goes on with the request it has taken up.
FairSpec ==
    Spec /\ WF_vars(Match) /\ WF_vars(FinishMatch) /\ WF_vars(AddToBook)

(***************************************************************************)
(* Invariants.                                                             *)
(***************************************************************************)
TypeOK ==
    /\ order \in [OrderIds -> Order]
    /\ book \in [Sides -> Seq(PriceLevel)]
    /\ seqNum \in Nat
    /\ phase \in {"idle", "matching", "resting"}
    /\ taker \in OrderIds \cup {NoOrder}
    /\ phase # "idle" <=> taker \in OrderIds
    /\ matches \in Seq(MatchResult)
    /\ trades \in Seq(MatchResult)

\* Both sides are strictly sorted, best price first, whatever the history of
\* insertions and removals: the match loop and the FOK check only look forward
\* from index 0, and sort.Search needs the order.
LevelsSorted ==
    \A side \in Sides : \A i, j \in 1 .. Len(book[side]) :
        i < j => Better(side, book[side][i].price, book[side][j].price)

\* A queued order is open, has something left to trade and stands on its own
\* side in the level of its own price; no level is empty.  (The loop takes
\* orders.head of the best level without a check.)
QueuesSound ==
    \A side \in Sides : \A i \in 1 .. Len(book[side]) :
        /\ book[side][i].queue # <<>>
        /\ \A k \in 1 .. Len(book[side][i].queue) :
              LET o == order[book[side][i].queue[k]]
              IN  /\ o.side = side /\ o.price = book[side][i].price
                  /\ o.status = "open"
                  /\ o.filled < o.qty

\* No order is queued twice, in one level or in two.
QueuedOnce ==
    \A s1, s2 \in Sides :
    \A i1 \in 1 .. Len(book[s1]), i2 \in 1 .. Len(book[s2]) :
    \A k1 \in 1 .. Len(book[s1][i1].queue), k2 \in 1 .. Len(book[s2][i2].queue) :
        book[s1][i1].queue[k1] = book[s2][i2].queue[k2]
            => s1 = s2 /\ i1 = i2 /\ k1 = k2

\* The three together: the shape of the book that every function of
\* orderbook.go and matcher.go relies on and none of them checks.
BookWellFormed == LevelsSorted /\ QueuesSound /\ QueuedOnce

\* The best bid is below the best ask in every state a reader can see, also
\* after market and stop orders, which ignore prices, have left their rest.
Uncrossed ==
    book["buy"] # <<>> /\ book["sell"] # <<>>
        => BestPrice(book["buy"]) < BestPrice(book["sell"])

\* What each order has left.
Left == [id \in OrderIds |-> Remaining(order[id])]

\* The volume cached in a level, kept up to date by four different functions,
\* is what its orders have left: CanFillFOK decides on it alone.
VolumeExact ==
    \A side \in Sides : \A i \in 1 .. Len(book[side]) :
        LET level == book[side][i]
        IN  level.volume = SumFunctionOnSet(Left, ToSet(level.queue))

\* "open" is the status of exactly the orders in the book, and outside the
\* processing of an order no order is left between two statuses.
OpenIffResting ==
    \A id \in OrderIds :
        /\ order[id].status = "open" <=> Resting(id)
        /\ order[id].status = "created" => id = taker

\* What order id trades in the trades of a list.
Traded(results, id) ==
    LET qty == [n \in DOMAIN results |-> results[n].qty]
    IN  SumFunctionOnSet(qty, { n \in DOMAIN results :
                                  id \in {results[n].taker, results[n].maker} })

\* Every published trade, and nothing else, moved both its orders' FilledQty:
\* no fill is lost (a trade dropped by the FOK branch) and none counts twice.
FillsArePublished ==
    phase # "matching" =>
        \A id \in OrderIds : order[id].filled = Traded(trades, id)

\* The three together: what levels, orders and published trades each say of the
\* same fills agrees, although different functions write them.
BookConsistent == VolumeExact /\ OpenIffResting /\ FillsArePublished

\* No order trades more than its quantity.
NoOverfill == \A id \in OrderIds : order[id].filled <= order[id].qty

\* A fill-or-kill order is filled in full or has not traded at all, and like an
\* immediate-or-cancel order it never comes to rest.
ImmediateOrders ==
    \A id \in OrderIds \ {taker} :
        /\ order[id].tif = "FOK" => order[id].filled \in {0, order[id].qty}
        /\ order[id].tif \in {"FOK", "IOC"} =>
              order[id].status \in {"none", "filled", "cancelled", "rejected"}

OnePerPair(results) ==
    \A m, n \in 1 .. Len(results) :
        results[m].taker = results[n].taker /\ results[m].maker = results[n].maker
            => m = n

\* A taker meets a maker at most once.  Settlement names a trade by this pair
\* (settlement/service.go:41), so two trades of one pair would be one trade.
PairTradesOnce == OnePerPair(trades \o matches)

(***************************************************************************)
(* The inductive invariant behind the theorems of OrderBookProofs.         *)
(***************************************************************************)
\* While the shard works on an order, that order is not in the book.
TakerSound == phase # "idle" => order[taker].status = "created"

\* An order on its way to the book has something left and nothing to match.
RestSound == phase = "resting" => Remaining(order[taker]) > 0 /\ ~CanMatch

\* All makers of the loop so far are done with, unless the taker is.
MatchesSound ==
    /\ phase # "matching" => matches = <<>>
    /\ \A n \in 1 .. Len(matches) :
          /\ matches[n].taker = taker
          /\ \/ order[matches[n].maker].status = "filled"
             \/ Remaining(order[taker]) = 0
    /\ \A m, n \in 1 .. Len(matches) : matches[m].maker = matches[n].maker => m = n

\* Published trades are those of earlier requests, one for each pair.
TradesSound ==
    /\ \A n \in 1 .. Len(trades) :
          /\ order[trades[n].taker].status # "none"
          /\ phase = "matching" => trades[n].taker # taker
    /\ OnePerPair(trades)

\* Holds in the first state, is kept by every step and implies TypeOK,
\* BookWellFormed, Uncrossed, NoOverfill and PairTradesOnce.
IInv ==
    /\ TypeOK
    /\ BookWellFormed
    /\ Uncrossed
    /\ NoOverfill
    /\ TakerSound
    /\ RestSound
    /\ MatchesSound
    /\ TradesSound

\* The open orders that order o may trade with, if there is time for all of them.
Marketable(o) ==
    { id \in OrderIds : /\ order[id].status = "open"
                        /\ order[id].side = Opposite(o.side)
                        /\ Crosses(o, order[id].price) }

\* What CanFillFOK found is still there at each turn of the match loop.
FOKCovered ==
    phase = "matching" /\ order[taker].tif = "FOK" =>
        SumFunctionOnSet(Left, Marketable(order[taker])) >= Remaining(order[taker])

\* Only an order that may wait is on its way to the book.
RestsGTC == phase = "resting" => order[taker].tif = "GTC"

\* Every fill is in a trade, published or of the loop in progress.
FillsTraded == \A id \in OrderIds : order[id].filled = Traded(trades \o matches, id)

\* An order nobody has sent has not traded.
NewUnfilled ==
    \A id \in OrderIds : order[id].status = "none" => order[id].filled = 0

\* An order asks for what some request asked for.
AskedFor ==
    \A id \in OrderIds : order[id].status # "none" =>
        \E req \in Requests : /\ req.type = order[id].type
                              /\ req.tif = order[id].tif /\ req.qty = order[id].qty

\* Together with IInv this is inductive too; it implies BookConsistent and
\* ImmediateOrders.
FillInv ==
    /\ VolumeExact
    /\ OpenIffResting
    /\ FillsTraded
    /\ NewUnfilled
    /\ FOKCovered
    /\ RestsGTC
    /\ ImmediateOrders

(***************************************************************************)
(* Action properties.                                                      *)
(***************************************************************************)
\* Resting order a is before resting order b in price-time priority.
Ahead(a, b) ==
    \E side \in Sides : \E i, j \in 1 .. Len(book[side]) :
    \E k \in 1 .. Len(book[side][i].queue), l \in 1 .. Len(book[side][j].queue) :
        /\ At(side, i, k, a) /\ At(side, j, l, b)
        /\ \/ Better(side, book[side][i].price, book[side][j].price)
           \/ i = j /\ k < l

\* No order trades while another one on its side is ahead of it; no order in the
\* book is overtaken by another one that was there; and one that comes to rest
\* is behind all those there whose price is as good.
PriceTimePriority ==
    [][\A a, b \in OrderIds :
          /\ Ahead(a, b) => order'[b].filled = order[b].filled
          /\ Ahead(a, b) /\ Resting(a)' /\ Resting(b)' => Ahead(a, b)'
          /\ /\ Resting(a) /\ ~Resting(b)
             /\ Resting(a)' /\ Resting(b)'
             /\ order[a].side = order'[b].side
             /\ ~Better(order[a].side, order'[b].price, order[a].price)
             => Ahead(a, b)']_vars

\* A filled, cancelled or rejected order is never touched again.
FinalIsFinal ==
    [][\A id \in OrderIds :
          IsFinal(order[id].status) => order'[id] = order[id]]_vars

(***************************************************************************)
(* Liveness.                                                               *)
(***************************************************************************)
\* The match loop ends: every request that is taken up is answered.
EveryOrderAnswered == phase # "idle" ~> phase = "idle"

(***************************************************************************)
(* What comments and documentation say.                                    *)
(***************************************************************************)
\* engine.go:246: a market order is refused for want of liquidity only.
RefusedForLiquidityOnly ==
    [][\A id \in OrderIds :
          /\ order[id].status = "none" /\ order'[id].status = "rejected"
          /\ order'[id].type = "market" /\ order'[id].tif # "FOK"
          => book[Opposite(order'[id].side)] = <<>>]_vars
=============================================================================
