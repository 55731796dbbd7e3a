--------------------------- MODULE RecursiveMutex ---------------------------
(***************************************************************************)
(* What a recursive mutex promises the threads that use it: a thread may   *)
(* acquire it when no other thread holds it, a thread that holds it may    *)
(* acquire it again, and it becomes free for the others when the holder    *)
(* has released it as often as it acquired it.  This is the contract the   *)
(* callers of cross_thread_mutex (socket_io_guard, ptr_base) rely on.      *)
(***************************************************************************)
EXTENDS Naturals

CONSTANT Thread

VARIABLE held        (* held[t]: acquisitions of t not yet released *)

RMInit == held = [t \in Thread |-> 0]

Acquire(t) ==
    /\ \A u \in Thread \ {t} : held[u] = 0
    /\ held' = [held EXCEPT ![t] = @ + 1]

Release(t) ==
    /\ held[t] > 0
    /\ held' = [held EXCEPT ![t] = @ - 1]

RMNext == \E t \in Thread : Acquire(t) \/ Release(t)

RMSpec == RMInit /\ [][RMNext]_held

=============================================================================
