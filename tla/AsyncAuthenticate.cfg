\* Three attempts per peer in any order and with seeds of any size, failures and all.
SPECIFICATION FairSpec
CONSTANTS
    Peer = {alice, bob}
    CountSize = 5
    Orders <- AnyOrders
    Sizes = {1, 2}
    MaxAttempts = 3
    MayFail = TRUE
INVARIANTS
    OneStepAtATime
    Authentic
PROPERTIES
    EveryAttemptEnds
\* The attempts are bounded, and a peer that is deserted waits forever.
CHECK_DEADLOCK FALSE
