\* What a market order is refused for.
CONSTANTS
    o1 = o1
    o2 = o2
    o3 = o3
    o4 = o4
    NoOrder = NoOrder
    OrderIds <- ThreeIds
    Requests <- BookRequests
SPECIFICATION Spec
SYMMETRY SymmetryThree
PROPERTIES
    RefusedForLiquidityOnly
\* Once every id is used and the book is empty no request is left to send.
CHECK_DEADLOCK FALSE
