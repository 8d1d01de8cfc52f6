---------------------------- MODULE MCOrderBook ----------------------------
(***************************************************************************)
(* Model values and request sets for checking OrderBook with TLC.          *)
(***************************************************************************)
EXTENDS OrderBookRefinement, FiniteSets, TLC

CONSTANTS o1, o2, o3, o4

ThreeIds == {o1, o2, o3}
FourIds == {o1, o2, o3, o4}
SymmetryThree == Permutations(ThreeIds)
SymmetryFour == Permutations(FourIds)

Request(side, type, tif, price, qty) ==
    [side |-> side, type |-> type, tif |-> tif, price |-> price, qty |-> qty]

\* Good-till-cancelled limit orders at three prices, and orders of every other
\* type and time in force.
BookRequests ==
    { Request(s, "limit", "GTC", p, 1) : s \in Sides, p \in {1, 2, 3} }
    \cup { Request(s, "limit", "GTC", 2, 3) : s \in Sides }
    \cup { Request(s, "limit", f, 2, 2) : s \in Sides, f \in {"IOC", "FOK"} }
    \cup { Request(s, "market", f, 0, 2) : s \in Sides, f \in TimesInForce }
    \cup { Request(s, "stop_loss", "GTC", 0, 1) : s \in Sides }
    \cup { Request(s, "stop_limit", f, 1, 2) : s \in Sides, f \in {"GTC", "IOC"} }
=============================================================================
