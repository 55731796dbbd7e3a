------------------------- MODULE MCCrossThreadMutex -------------------------
(***************************************************************************)
(* CrossThreadMutex with a finite number of lock() calls per thread, after *)
(* which the workload is over and the system may stop.                     *)
(***************************************************************************)
EXTENDS CrossThreadMutex

CONSTANT MaxCalls    \* bound on the lock() calls of each thread

VARIABLE calls       \* calls[t]: lock() calls begun by t

BoundedInit == Init /\ calls = [t \in Thread |-> 0]

BoundedNext ==
    \E t \in Thread :
        \/ /\ calls[t] < MaxCalls
           /\ BeginLock(t)
           /\ calls' = [calls EXCEPT ![t] = @ + 1]
        \/ /\ BeginUnlock(t) \/ Step(t)
           /\ UNCHANGED calls

\* A thread inside lock() or unlock() keeps running when it can; std::mutex
\* gives a mutex that stays free to one that waits for it; every lock_guard
\* goes out of scope.
Fairness ==
    \A t \in Thread : WF_<<vars, calls>>(/\ BeginUnlock(t) \/ Step(t)
                                         /\ UNCHANGED calls)

BoundedSpec == BoundedInit /\ [][BoundedNext]_<<vars, calls>> /\ Fairness

\* Every lock() and unlock() returns once the other threads make finitely
\* many calls: no lost wake-up and no circular wait between the two mutexes.
EveryCallReturns == \A t \in Thread : pc[t] # "out" ~> pc[t] = "out"

=============================================================================
