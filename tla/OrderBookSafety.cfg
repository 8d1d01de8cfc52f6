\* Four orders of every type and time in force, limit orders at three prices.
CONSTANTS
    o1 = o1
    o2 = o2
    o3 = o3
    o4 = o4
    NoOrder = NoOrder
    OrderIds <- FourIds
    Requests <- BookRequests
SPECIFICATION Spec
SYMMETRY SymmetryFour
INVARIANTS
    TypeOK
    BookWellFormed
    Uncrossed
    BookConsistent
    ImmediateOrders
    PairTradesOnce
PROPERTIES
    PriceTimePriority
    FinalIsFinal
\* Once every id is used and the book is empty no request is left to send.
CHECK_DEADLOCK FALSE
