\* Two orders and a cancellation on one of two pairs, which come and go.
CONSTANTS
    place1 = place1
    place2 = place2
    cancel1 = cancel1
    cancel2 = cancel2
    sh1 = sh1
    sh2 = sh2
    ETH = ETH
    BTC = BTC
    NoShard = NoShard
    NoCall = NoCall
    Orders <- TwoOrders
    Cancels <- OneCancel
    Target <- CancelFirst
    Symbols <- TwoSymbols
    SymbolOf <- SameSymbol
    Shards <- TwoShards
    Capacity = 2
SPECIFICATION Spec
SYMMETRY SymmetryShards
INVARIANTS
    ShardsSound
    TrailSound
    AnswersHold
\* Once every call has returned and every shard has ended nothing is left to do.
CHECK_DEADLOCK FALSE
