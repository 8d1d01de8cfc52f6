\* Two sells; the context of the first ends before its row is written.
CONSTANTS
    p1 = p1
    p2 = p2
    c1 = c1
    c2 = c2
    alice = alice
    bob = bob
    OrderIds <- TwoOrders
    Cancels <- OneCancel
    Target <- CancelFirst
    Users <- OneUser
    Sender <- FromAlice
    Requests <- SellRequests
    Deposited <- LargeDeposit
    Deadlines <- AllCalls
SPECIFICATION Spec
INVARIANTS
    NoOverselling
\* Once every call has returned nothing is left to do.
CHECK_DEADLOCK FALSE
