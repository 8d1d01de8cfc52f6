------------------------ MODULE OrderBookRefinement ------------------------
(***************************************************************************)
(* OrderBook implements PriceTimeBook: reading the queues of the levels    *)
(* one after the other gives the abstract list of a side.  A request that  *)
(* is refused, one iteration of the match loop, a cancellation and the end *)
(* of a request are one abstract step each; FinishMatch of an order that   *)
(* goes to the book is a stutter, because the list grows in AddToBook.     *)
(*                                                                         *)
(* It also implements OrderLife, order by order.                           *)
(***************************************************************************)
EXTENDS OrderBook

Ladder(levels) == FlattenSeq([i \in 1 .. Len(levels) |-> levels[i].queue])

Abstract ==
    INSTANCE PriceTimeBook WITH
        ladder <- [side \in Sides |-> Ladder(book[side])]

\* The book with its sorted levels and cached volumes behaves as the plain
\* price-time priority list does, whatever orders and cancellations come.
ImplementsPriceTime == Abstract!Spec

\* What the engine has answered about order o.  An order the shard is still
\* working on counts as not answered yet.
Standing(o) ==
    IF o.status \in {"none", "created"}
    THEN [type |-> "none", tif |-> "none", qty |-> 0, filled |-> 0, status |-> "none"]
    ELSE [type |-> o.type, tif |-> o.tif, qty |-> o.qty,
          filled |-> o.filled, status |-> o.status]

Life ==
    INSTANCE OrderLife WITH life <- [id \in OrderIds |-> Standing(order[id])]

\* Order by order, the engine answers once and by the rules of the order's type
\* and time in force, and changes an open order by trades and withdrawal only:
\* all that the order service may assume of it.
ImplementsOrderLife == Life!Spec
=============================================================================
