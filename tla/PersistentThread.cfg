\* One or two threads that call, loop, stop, assign and destroy a thread, or one
\* that executes and joins a group of two.
SPECIFICATION FairSpec
CONSTANTS
    App = {app1, app2}
    Worker = {worker1, worker2}
    m_execute_start = m_execute_start
    Freed = Freed
    Null = Null
    MaxOperations = 5
    MaxExecutions = 8
INVARIANTS
    NoCallLost
    NeverBroken
    OneLateRun
    WaitsForItselfOnlyWhenCrossed
PROPERTIES
    JoinedMeansDone
    GroupJoinedMeansOneRan
    EveryOperationReturns
\* The application stops when it has destroyed the thread, or waits forever.
CHECK_DEADLOCK FALSE
