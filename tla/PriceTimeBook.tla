--------------------------- MODULE PriceTimeBook ---------------------------
(***************************************************************************)
(* What an order book promises, without levels, cached volumes, searches   *)
(* or locks: the resting orders of a side form one list in price-time      *)
(* priority, a taker trades with the head of the opposite list for as long *)
(* as the price suits it, and what is left of it is cancelled or takes its *)
(* place in the list of its own side.                                      *)
(*                                                                         *)
(* OrderBook implements this specification (see OrderBookRefinement).      *)
(***************************************************************************)
EXTENDS Integers, Sequences, SequencesExt

CONSTANTS OrderIds, NoOrder, Requests

VARIABLES
    order,      \* order[id]
    ladder,     \* ladder[side]: resting ids, first to trade first
    taker       \* the order that is trading, or NoOrder

vars == <<order, ladder, taker>>

Other(side) == IF side = "buy" THEN "sell" ELSE "buy"

Left(id) == order[id].qty - order[id].filled

Suits(o, p) ==
    \/ o.type # "limit"
    \/ o.side = "buy" /\ p <= o.price
    \/ o.side = "sell" /\ p >= o.price

\* Everything order o could buy or sell right now.
Available(o) ==
    SumFunctionOnSet([id \in OrderIds |-> Left(id)],
                     { id \in ToSet(ladder[Other(o.side)]) : Suits(o, order[id].price) })

Fresh(req, status) ==
    [side |-> req.side, type |-> req.type, tif |-> req.tif, price |-> req.price,
     qty |-> req.qty, filled |-> 0, status |-> status]

Init ==
    /\ order = [id \in OrderIds |->
                  [side |-> "buy", type |-> "limit", tif |-> "GTC", price |-> 0,
                   qty |-> 0, filled |-> 0, status |-> "none"]]
    /\ ladder = [side \in {"buy", "sell"} |-> <<>>]
    /\ taker = NoOrder

\* A market order is refused when the list it would trade with is empty, or
\* begins with a price of zero, which the engine takes for the same thing.
MayRefuse(o) ==
    LET list == ladder[Other(o.side)]
    IN  \/ o.tif = "FOK" /\ Available(o) < o.qty
        \/ o.type = "market" /\ (list = <<>> \/ order[list[1]].price = 0)

Submit(id, req) ==
    LET o == Fresh(req, "created")
    IN  /\ taker = NoOrder /\ order[id].status = "none"
        /\ IF MayRefuse(o)
           THEN /\ order' = [order EXCEPT ![id] = Fresh(req, "rejected")]
                /\ UNCHANGED taker
           ELSE /\ order' = [order EXCEPT ![id] = o]
                /\ taker' = id
        /\ UNCHANGED ladder

MayTrade ==
    LET list == ladder[Other(order[taker].side)]
    IN  Left(taker) > 0 /\ list # <<>> /\ Suits(order[taker], order[list[1]].price)

\* Order o after a trade of q, and after its last one when it is done.
Dealt(o, q, done) ==
    [o EXCEPT !.filled = @ + q, !.status = IF done THEN "filled" ELSE @]

Trade ==
    /\ taker # NoOrder /\ MayTrade
    /\ LET list  == ladder[Other(order[taker].side)]
           maker == list[1]
           q     == Min({Left(taker), Left(maker)})
       IN  /\ order' = [order EXCEPT ![taker] = Dealt(@, q, FALSE),
                                     ![maker] = Dealt(@, q, q = Left(maker))]
           /\ ladder' = [ladder EXCEPT ![Other(order[taker].side)] =
                            IF q = Left(maker) THEN Tail(@) ELSE @]
    /\ UNCHANGED taker

Worse(x, id) ==
    IF order[id].side = "buy" THEN order[x].price < order[id].price
    ELSE order[x].price > order[id].price

\* Place i is behind every order that is at least as good as id, before all the others.
IsPlaceOf(i, list, id) ==
    \A j \in 1 .. Len(list) : Worse(list[j], id) <=> j >= i

\* A fill-or-kill order never gets here with something left.
Settle ==
    /\ taker # NoOrder /\ ~MayTrade
    /\ LET list == ladder[order[taker].side]
           status == IF Left(taker) = 0 THEN "filled"
                     ELSE IF order[taker].tif = "IOC" THEN "cancelled" ELSE "open"
       IN  /\ order' = [order EXCEPT ![taker].status = status]
           /\ \/ status # "open" /\ UNCHANGED ladder
              \/ /\ status = "open"
                 /\ \E i \in 1 .. Len(list) + 1 :
                       /\ IsPlaceOf(i, list, taker)
                       /\ ladder' = [ladder EXCEPT ![order[taker].side] =
                                        InsertAt(list, i, taker)]
    /\ Left(taker) > 0 => order[taker].tif # "FOK"
    /\ taker' = NoOrder

Cancel(id) ==
    /\ taker = NoOrder
    /\ order[id].status = "open"
    /\ order' = [order EXCEPT ![id].status = "cancelled"]
    /\ LET side == order[id].side
       IN  \E i \in 1 .. Len(ladder[side]) :
              /\ ladder[side][i] = id
              /\ ladder' = [ladder EXCEPT ![side] = RemoveAt(@, i)]
    /\ UNCHANGED taker

Next ==
    \/ \E id \in OrderIds, req \in Requests : Submit(id, req)
    \/ Trade
    \/ Settle
    \/ \E id \in OrderIds : Cancel(id)

Spec == Init /\ [][Next]_vars
=============================================================================
