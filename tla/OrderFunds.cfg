\* Two orders of one user, a cancellation of his and one of a stranger; no context ends.
CONSTANTS
    p1 = p1
    p2 = p2
    c1 = c1
    c2 = c2
    alice = alice
    bob = bob
    OrderIds <- TwoOrders
    Cancels <- TwoCancels
    Target <- CancelFirst
    Users <- TwoUsers
    Sender <- StrangerCancels
    Requests <- MixedRequests
    Deposited <- SmallDeposit
    Deadlines <- NoCalls
SPECIFICATION Spec
INVARIANTS
    HoldsWhatItOwes
    OrdersCovered
    EndedRefunded
    OpenIsListed
\* Once every call has returned nothing is left to do.
CHECK_DEADLOCK FALSE
