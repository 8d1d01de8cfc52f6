--------------------------- MODULE MCOrderService ---------------------------
(***************************************************************************)
(* Users, requests and deposits for checking OrderService with TLC.        *)
(***************************************************************************)
EXTENDS OrderService, TLC

CONSTANTS p1, p2, c1, c2, alice, bob

OneOrder == {p1}
TwoOrders == {p1, p2}
OneCancel == {c1}
TwoCancels == {c1, c2}
OneUser == {alice}
TwoUsers == {alice, bob}
AllCalls == Calls
NoCalls == {}

\* Every cancellation names the first order.
CancelFirst == [c \in Cancels |-> p1]

\* One user; or the second cancellation comes from another one.
FromAlice == [c \in Calls |-> alice]
StrangerCancels == [c \in Calls |-> IF c = c2 THEN bob ELSE alice]

\* Enough for one order of each side and size, not for two of the larger ones.
SmallDeposit == [a \in Accounts |-> IF a[2] = "quote" THEN 6 ELSE 4]
LargeDeposit == [a \in Accounts |-> IF a[2] = "quote" THEN 8 ELSE 4]

Request(side, type, tif, price, qty) ==
    [side |-> side, type |-> type, tif |-> tif, price |-> price, qty |-> qty]

\* Sells and buys of two units at price 2, of every kind that rests or does not.
MixedRequests ==
    { Request("sell", "limit", f, 2, 3) : f \in {"GTC", "IOC", "FOK"} }
    \cup { Request("buy", "limit", f, 2, 2) : f \in {"GTC", "FOK"} }
    \cup { Request("buy", "stop_limit", "GTC", 2, 1),
           Request("buy", "market", "GTC", 0, 1),
           Request("sell", "stop_loss", "GTC", 0, 1) }

\* What rests, for the runs with deadlines.
RestingRequests ==
    { Request("sell", "limit", "GTC", 2, 2), Request("sell", "limit", "GTC", 2, 1),
      Request("buy", "market", "GTC", 0, 2) }

SellRequests == { Request("sell", "limit", "GTC", 2, 2) }
=============================================================================
