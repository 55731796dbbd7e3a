\* One attempt per peer, in opposite orders, over a connection that works.
SPECIFICATION Spec
CONSTANTS
    Peer = {alice, bob}
    CountSize = 5
    Orders <- OppositeOrders
    Sizes = {1}
    MaxAttempts = 1
    MayFail = FALSE
INVARIANTS
    HonestPeersAgree
CHECK_DEADLOCK FALSE
