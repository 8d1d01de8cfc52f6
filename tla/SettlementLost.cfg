\* One settlement that both sides can pay for, and nothing else.
CONSTANTS
    alice = alice
    bob = bob
    fees = fees
    s1 = s1
    s2 = s2
    w1 = w1
    w2 = w2
    f1 = f1
    d1 = d1
    d2 = d2
    known = known
    Calls <- OneTrade
    Job <- Jobs
    Users <- Users2
    FeeAccount = fees
    Currencies <- Pair
    Base = "base"
    Quote = "quote"
    Deposits = {known}
    Opening <- Opened
    Owner <- Owners
    Amount <- Amounts
    Cap = 1000
    Deadlines <- NoCalls
SPECIFICATION Spec
INVARIANTS
    PaidTradesSettle
CHECK_DEADLOCK FALSE
