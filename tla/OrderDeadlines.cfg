\* Two orders and two cancellations of one user; any context may end at any moment.
CONSTANTS
    p1 = p1
    p2 = p2
    c1 = c1
    c2 = c2
    alice = alice
    bob = bob
    OrderIds <- TwoOrders
    Cancels <- TwoCancels
    Target <- CancelFirst
    Users <- OneUser
    Sender <- FromAlice
    Requests <- RestingRequests
    Deposited <- LargeDeposit
    Deadlines <- AllCalls
SPECIFICATION Spec
INVARIANTS
    FinalIsTrue
PROPERTIES
    LifecycleRespected
\* Once every call has returned nothing is left to do.
CHECK_DEADLOCK FALSE
