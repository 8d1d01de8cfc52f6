\* One sell that trades as a maker and is then cancelled.
CONSTANTS
    p1 = p1
    p2 = p2
    c1 = c1
    c2 = c2
    alice = alice
    bob = bob
    OrderIds <- OneOrder
    Cancels <- OneCancel
    Target <- CancelFirst
    Users <- OneUser
    Sender <- FromAlice
    Requests <- SellRequests
    Deposited <- LargeDeposit
    Deadlines <- NoCalls
SPECIFICATION Spec
INVARIANTS
    OnlyUnfilledReleased
\* Once every call has returned nothing is left to do.
CHECK_DEADLOCK FALSE
