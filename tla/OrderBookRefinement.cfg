\* Three orders of every type and time in force against the abstract
\* specifications, under the fairness of the shard goroutine.
CONSTANTS
    o1 = o1
    o2 = o2
    o3 = o3
    o4 = o4
    NoOrder = NoOrder
    OrderIds <- ThreeIds
    Requests <- BookRequests
SPECIFICATION FairSpec
PROPERTIES
    ImplementsPriceTime
    ImplementsOrderLife
    EveryOrderAnswered
\* Once every id is used and the book is empty no request is left to send.
CHECK_DEADLOCK FALSE
