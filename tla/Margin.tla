------------------------------- MODULE Margin -------------------------------
(***************************************************************************)
(* Leveraged positions and their liquidation.  Every method of the engine  *)
(* runs under its lock.  No method sets a funding rate, so that            *)
(* CalculateFunding returns before it changes a position.                  *)
(***************************************************************************)
EXTENDS Decimal

CONSTANTS
    Symbols,
    Prices,         \* decimals
    Quantities,     \* decimals
    Leverages,      \* among what callers ask for
    Ratio,          \* mmr: the maintenance margin ratio
    MaxPositions    \* bound

ASSUME MarginAssumption ==
    /\ Prices \subseteq Nat /\ Quantities \subseteq Nat /\ Leverages \subseteq Int
    /\ Ratio \in 0 .. Unit /\ MaxPositions \in Nat

VARIABLES
    positions,  \* open positions of all users
    liquidated,
    markPrice,  \* markPrice[s]; -1 for none
    checked     \* history: symbols checked since they last had a new price or position

marginVars == <<positions, liquidated, markPrice, checked>>

MarginInit ==
    /\ positions = {} /\ liquidated = {} /\ checked = {}
    /\ markPrice = [s \in Symbols |-> -1]

\* Mutant: the whole required margin may be lost.
LiquidationWithoutRatio(side, entry, quantity, leverage) ==
    LET required == Over(Times(entry, quantity), leverage * Unit)
        distance == Over(Times(entry, required), required)
    IN  IF side = "buy" THEN entry - distance ELSE entry + distance

\* The entry price a maintenance margin away; the leverage cancels out, but for
\* rounding: a required margin that rounds to 0 leaves the entry price.
LiquidationPrice(side, entry, quantity, leverage) ==
    LET required == Over(Times(entry, quantity), leverage * Unit)
        distance == Over(Times(entry, Times(required, Ratio)), required)
    IN  IF side = "buy" THEN entry - distance ELSE entry + distance

OpenPosition(symbol, side, quantity, entry, leverage) ==
    LET n == Cardinality(positions \cup liquidated)
    IN  /\ leverage \in 1 .. 125 /\ n < MaxPositions
        /\ positions' = positions \cup
              {[id |-> n, symbol |-> symbol, side |-> side, entry |-> entry,
                leverage |-> leverage,
                liquidation |-> LiquidationPrice(side, entry, quantity, leverage)]}
        /\ checked' = checked \ {symbol}
        /\ UNCHANGED <<liquidated, markPrice>>

Due(p) ==
    /\ markPrice[p.symbol] # -1
    /\ IF p.side = "buy" THEN markPrice[p.symbol] <= p.liquidation
       ELSE markPrice[p.symbol] >= p.liquidation

CheckLiquidations(symbol) ==
    LET due == {p \in positions : p.symbol = symbol /\ Due(p)}
    IN  /\ markPrice[symbol] # -1
        /\ positions' = positions \ due
        /\ liquidated' = liquidated \cup due
        /\ checked' = checked \cup {symbol}
        /\ UNCHANGED markPrice

UpdateMarkPrice(symbol, price) ==
    /\ markPrice' = [markPrice EXCEPT ![symbol] = price]
    /\ checked' = checked \ {symbol}
    /\ UNCHANGED <<positions, liquidated>>

MarginNext ==
    \E symbol \in Symbols :
        \/ CheckLiquidations(symbol)
        \/ \E price \in Prices : UpdateMarkPrice(symbol, price)
        \/ \E side \in {"buy", "sell"}, q \in Quantities, entry \in Prices, l \in Leverages :
              OpenPosition(symbol, side, q, entry, l)

MarginSpec == MarginInit /\ [][MarginNext]_marginVars

(***************************************************************************)
(* Properties.                                                             *)
(***************************************************************************)
\* How far the mark price has moved against a position.
Loss(p) == IF p.side = "buy" THEN p.entry - markPrice[p.symbol]
           ELSE markPrice[p.symbol] - p.entry

\* Of the margin, an amount of entry / leverage for each unit, the loss leaves less
\* than the maintenance margin.
BelowMaintenance(p) ==
    p.entry * Unit - p.leverage * Loss(p) * Unit < p.leverage * Ratio * p.entry

\* Where the margin is at least twice the maintenance margin; beyond it the code
\* liquidates too late (README, section 5).
Moderate(p) == 2 * p.leverage * Ratio <= Unit

\* A check takes no position but those it liquidates, and what it liquidates
\* stays liquidated; none of them is at a gain at its mark price (at neither loss
\* nor gain it may be, where rounding leaves the liquidation price at the entry
\* price); and once a symbol has been checked, none of its open positions of
\* moderate leverage is below its maintenance margin, through three products
\* and two quotients that round. That positions are liquidated long before they
\* are below it, the property allows.
PositionsKept ==
    [][/\ liquidated \subseteq liquidated'
       /\ positions \ positions' = liquidated' \ liquidated
       /\ \A p \in liquidated' \ liquidated : Loss(p) >= 0
       /\ \A p \in positions' :
             p.symbol \in checked' /\ Moderate(p) => ~BelowMaintenance(p)']_marginVars
=============================================================================
