\* An order and two cancellations; contexts may end or not.
CONSTANTS
    place1 = place1
    place2 = place2
    cancel1 = cancel1
    cancel2 = cancel2
    sh1 = sh1
    sh2 = sh2
    ETH = ETH
    BTC = BTC
    NoShard = NoShard
    NoCall = NoCall
    Orders <- OneOrder
    Cancels <- TwoCancels
    Target <- CancelFirst
    Symbols <- OneSymbol
    SymbolOf <- SameSymbol
    Shards <- OneShard
    Capacity = 1
SPECIFICATION FairSpec
PROPERTIES
    CallsReturn
    AnsweredWhileOpen
    ShardsEnd
\* Once every call has returned and every shard has ended nothing is left to do.
CHECK_DEADLOCK FALSE
