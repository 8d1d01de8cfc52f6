------------------------------ MODULE OrderLife ------------------------------
(***************************************************************************)
(* What the matching engine promises of each order, whatever else the      *)
(* shard does: it answers once, by the rules of the order's type and time  *)
(* in force; an order it leaves open trades as a maker until it is filled  *)
(* or withdrawn; a final order never changes.                              *)
(*                                                                         *)
(* OrderBook implements this (OrderBookRefinement), and OrderService is    *)
(* written on top of it.                                                   *)
(***************************************************************************)
EXTENDS Integers

CONSTANTS
    OrderIds,   \* the ids NewOrderID hands out
    Requests    \* what clients send: side, type, tif, price, qty

VARIABLE life   \* life[id]: how order id stands in the engine

Unknown ==
    [type |-> "none", tif |-> "none", qty |-> 0, filled |-> 0, status |-> "none"]

Standing(req, filled, status) ==
    [type: {req.type}, tif: {req.tif}, qty: {req.qty}, filled: filled, status: status]

\* How PlaceOrder may leave an order sent with req.
Answers(req) ==
    Standing(req, {req.qty}, {"filled"})
        \cup Standing(req, {0}, IF req.tif = "FOK" \/ req.type = "market"
                                THEN {"rejected"} ELSE {})
        \cup Standing(req, 0 .. req.qty - 1, CASE req.tif = "IOC" -> {"cancelled"}
                                               [] req.tif = "FOK" -> {}
                                               [] OTHER -> {"open"})

Answer(id, req) ==
    /\ life[id].status = "none"
    /\ \E o \in Answers(req) : life' = [life EXCEPT ![id] = o]

\* A later order takes q of what rests of order id.
TradeAsMaker(id) ==
    /\ life[id].status = "open"
    /\ \E q \in 1 .. life[id].qty - life[id].filled :
          life' = [life EXCEPT
                     ![id].filled = @ + q,
                     ![id].status = IF life[id].filled + q = life[id].qty
                                    THEN "filled" ELSE "open"]

Withdraw(id) ==
    /\ life[id].status = "open"
    /\ life' = [life EXCEPT ![id].status = "cancelled"]

(***************************************************************************)
(* The specification.                                                      *)
(***************************************************************************)
Init == life = [id \in OrderIds |-> Unknown]

Next ==
    \E id \in OrderIds :
        \/ \E req \in Requests : Answer(id, req)
        \/ TradeAsMaker(id)
        \/ Withdraw(id)

Spec == Init /\ [][Next]_life
=============================================================================
