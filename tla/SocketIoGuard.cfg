\* Two io threads and an app thread; callbacks may call anything, fail and throw.
SPECIFICATION FairSpec
CONSTANTS
    IoThread = {io1, io2}
    AppThread = {app}
    MaxRequests = 4
    MaxClears = 1
    AppCalls = {"send", "receive", "clear"}
    CallbackCalls <- AnyCalls
    MayFail = TRUE
    MayThrow = TRUE
INVARIANTS
    OneOperation
    NeverIdleWithRequests
    EmptyOnlyByClear
    CircularWaitNeedsInversion
PROPERTIES
    AnswersInOrder
    EveryCallReturns
    EveryRequestAnswered
\* The calls are bounded, and undefined behaviour ends an execution.
CHECK_DEADLOCK FALSE
