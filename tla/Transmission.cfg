\* Pieces of two bits, three messages, failures at both ends.
SPECIFICATION FairSpec
CONSTANTS
    Base = 2
    SizeLen = 2
    MaxBuffer = 2
    Messages <- SomeMessages
    MaxOps = 3
    MayFail = TRUE
INVARIANTS
    Framing
    NothingLostInTheStream
PROPERTIES
    EveryMessageArrives
\* The operations are bounded: the workload ends.
CHECK_DEADLOCK FALSE
