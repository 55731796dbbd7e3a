----------------------- MODULE CrossThreadMutexProofs -----------------------
(***************************************************************************)
(* Proofs about CrossThreadMutex for any number of threads, any nesting    *)
(* depth and any counter width that can count it.                          *)
(*                                                                         *)
(* The safety properties are not inductive: that a thread is recognised as *)
(* the owner depends on what m_id says at every point of lock() and        *)
(* unlock(), and that unlock() gives m_mutex up at the right call depends  *)
(* on what m_lock_index counts there.  IInv says both, and who holds the   *)
(* two std::mutexes; StepInvariant shows each statement of the code        *)
(* preserves it.                                                           *)
(***************************************************************************)
EXTENDS CrossThreadMutex, TLAPS

\* A constructed mutex, which no thread has used, satisfies the invariant.
LEMMA InitInvariant == Init => IInv
BY NoThreadAssumption, DepthAssumption
   DEF Init, IInv, TypeOK, StateHeldInside, HolderKnown, OwnerIsHolder, CounterCounts,
       Places, InState, Uncounted, LockPC, UnlockPC

\* Every statement of lock() and unlock() preserves the invariant.
LEMMA StepInvariant == IInv /\ [Next]_vars => IInv'
<1> USE NoThreadAssumption, DepthAssumption
<1> SUFFICES ASSUME IInv, [Next]_vars PROVE IInv'
    OBVIOUS
<1> USE DEF IInv, Goto
<1>1. ASSUME NEW t \in Thread, BeginLock(t) PROVE IInv'
  <2>1. TypeOK'
    BY <1>1 DEF BeginLock, TypeOK, LockPC
  <2>2. StateHeldInside'
    BY <1>1 DEF BeginLock, StateHeldInside, InState
  <2>3. HolderKnown'
    BY <1>1 DEF BeginLock, HolderKnown, Uncounted
  <2>4. OwnerIsHolder'
    BY <1>1 DEF BeginLock, OwnerIsHolder
  <2>5. CounterCounts'
    BY <1>1 DEF BeginLock, CounterCounts, Uncounted
  <2>6. Places'
    BY <1>1 DEF BeginLock, Places
  <2>7. QED BY <2>1, <2>2, <2>3, <2>4, <2>5, <2>6
<1>2. ASSUME NEW t \in Thread, EnterState(t) PROVE IInv'
  <2>1. TypeOK'
    BY <1>2 DEF EnterState, TypeOK, LockPC, UnlockPC
  <2>2. StateHeldInside'
    BY <1>2 DEF EnterState, StateHeldInside, TypeOK, InState
  <2>3. HolderKnown'
    BY <1>2 DEF EnterState, HolderKnown, TypeOK, Uncounted
  <2>4. OwnerIsHolder'
    BY <1>2 DEF EnterState, OwnerIsHolder, TypeOK
  <2>5. CounterCounts'
    BY <1>2 DEF EnterState, CounterCounts, TypeOK, Uncounted
  <2>6. Places'
    BY <1>2 DEF EnterState, Places, TypeOK
  <2>7. QED BY <2>1, <2>2, <2>3, <2>4, <2>5, <2>6
\* The answer of the re-entry test is right: m_id = t only while t holds m_mutex,
\* so the counter it increments is t's own, and it stays below IndexSize.
<1>3. ASSUME NEW t \in Thread, CheckOwner(t) PROVE IInv'
  <2>1. TypeOK'
    BY <1>3 DEF CheckOwner, TypeOK, LockPC
  <2>2. StateHeldInside'
    BY <1>3 DEF CheckOwner, StateHeldInside, InState
  <2>3. HolderKnown'
    BY <1>3 DEF CheckOwner, HolderKnown, OwnerIsHolder, Uncounted
  <2>4. OwnerIsHolder'
    BY <1>3 DEF CheckOwner, OwnerIsHolder
  <2>5. CounterCounts'
    BY <1>3 DEF CheckOwner, CounterCounts, TypeOK, OwnerIsHolder, Places, Uncounted
  <2>6. Places'
    BY <1>3 DEF CheckOwner, Places, TypeOK, HolderKnown, OwnerIsHolder
  <2>7. QED BY <2>1, <2>2, <2>3, <2>4, <2>5, <2>6
<1>4. ASSUME NEW t \in Thread, LeaveState(t) PROVE IInv'
  <2>1. TypeOK'
    BY <1>4 DEF LeaveState, TypeOK, Places, LockPC
  <2>2. StateHeldInside'
    BY <1>4 DEF LeaveState, StateHeldInside, TypeOK, InState
  <2>3. HolderKnown'
    BY <1>4 DEF LeaveState, HolderKnown, TypeOK, Uncounted
  <2>4. OwnerIsHolder'
    BY <1>4 DEF LeaveState, OwnerIsHolder, TypeOK
  <2>5. CounterCounts'
    BY <1>4 DEF LeaveState, CounterCounts, TypeOK, Uncounted
  <2>6. Places'
    BY <1>4 DEF LeaveState, Places, TypeOK, LockPC, UnlockPC
  <2>7. QED BY <2>1, <2>2, <2>3, <2>4, <2>5, <2>6
<1>5. ASSUME NEW t \in Thread, AcquireMutex(t) PROVE IInv'
  <2>1. TypeOK'
    BY <1>5 DEF AcquireMutex, TypeOK, LockPC
  <2>2. StateHeldInside'
    BY <1>5 DEF AcquireMutex, StateHeldInside, InState
  <2>3. HolderKnown'
    BY <1>5 DEF AcquireMutex, HolderKnown, TypeOK, Uncounted
  <2>4. OwnerIsHolder'
    BY <1>5 DEF AcquireMutex, OwnerIsHolder, TypeOK
  <2>5. CounterCounts'
    BY <1>5 DEF AcquireMutex, CounterCounts, TypeOK, Places, Uncounted
  <2>6. Places'
    BY <1>5 DEF AcquireMutex, Places, TypeOK
  <2>7. QED BY <2>1, <2>2, <2>3, <2>4, <2>5, <2>6
\* Outside m_state_mutex, but only the holder of m_mutex is here.
<1>6. ASSUME NEW t \in Thread, SetOwner(t) PROVE IInv'
  <2>1. TypeOK'
    BY <1>6 DEF SetOwner, TypeOK, LockPC
  <2>2. StateHeldInside'
    BY <1>6 DEF SetOwner, StateHeldInside, InState
  <2>3. HolderKnown'
    BY <1>6 DEF SetOwner, HolderKnown, Uncounted
  <2>4. OwnerIsHolder'
    BY <1>6 DEF SetOwner, OwnerIsHolder, TypeOK, HolderKnown, Uncounted
  <2>5. CounterCounts'
    BY <1>6 DEF SetOwner, CounterCounts, Uncounted
  <2>6. Places'
    BY <1>6 DEF SetOwner, Places, TypeOK
  <2>7. QED BY <2>1, <2>2, <2>3, <2>4, <2>5, <2>6
\* The counter is already 0: the last unlock() left it there.
<1>7. ASSUME NEW t \in Thread, ResetIndex(t) PROVE IInv'
  <2>1. TypeOK'
    BY <1>7 DEF ResetIndex, TypeOK, Places
  <2>2. StateHeldInside'
    BY <1>7 DEF ResetIndex, StateHeldInside, InState
  <2>3. HolderKnown'
    BY <1>7 DEF ResetIndex, HolderKnown, TypeOK, Uncounted
  <2>4. OwnerIsHolder'
    BY <1>7 DEF ResetIndex, OwnerIsHolder
  <2>5. CounterCounts'
    BY <1>7 DEF ResetIndex, CounterCounts, TypeOK, HolderKnown, Places, Uncounted
  <2>6. Places'
    BY <1>7 DEF ResetIndex, Places, TypeOK, LockPC, UnlockPC
  <2>7. QED BY <2>1, <2>2, <2>3, <2>4, <2>5, <2>6
<1>8. ASSUME NEW t \in Thread, BeginUnlock(t) PROVE IInv'
  <2>1. TypeOK'
    BY <1>8 DEF BeginUnlock, TypeOK, UnlockPC
  <2>2. StateHeldInside'
    BY <1>8 DEF BeginUnlock, StateHeldInside, InState
  <2>3. HolderKnown'
    BY <1>8 DEF BeginUnlock, HolderKnown, TypeOK, Uncounted
  <2>4. OwnerIsHolder'
    BY <1>8 DEF BeginUnlock, OwnerIsHolder
  <2>5. CounterCounts'
    BY <1>8 DEF BeginUnlock, CounterCounts, TypeOK, Uncounted
  <2>6. Places'
    BY <1>8 DEF BeginUnlock, Places, TypeOK
  <2>7. QED BY <2>1, <2>2, <2>3, <2>4, <2>5, <2>6
\* Only the holder of m_mutex calls unlock(), so the counter counts its holds.
<1>9. ASSUME NEW t \in Thread, CheckIndex(t) PROVE IInv'
  <2>1. TypeOK'
    BY <1>9 DEF CheckIndex, TypeOK, UnlockPC
  <2>2. StateHeldInside'
    BY <1>9 DEF CheckIndex, StateHeldInside, TypeOK, InState
  <2>3. HolderKnown'
    BY <1>9 DEF CheckIndex, HolderKnown, TypeOK, CounterCounts, Uncounted
  <2>4. OwnerIsHolder'
    BY <1>9 DEF CheckIndex, OwnerIsHolder, TypeOK
  <2>5. CounterCounts'
    BY <1>9 DEF CheckIndex, CounterCounts, TypeOK, HolderKnown, Uncounted
  <2>6. Places'
    BY <1>9 DEF CheckIndex, Places, TypeOK, HolderKnown, CounterCounts, Uncounted
  <2>7. QED BY <2>1, <2>2, <2>3, <2>4, <2>5, <2>6
\* The id is cleared while m_mutex is still held, then m_mutex is given up.
<1>10. ASSUME NEW t \in Thread, GiveUp(t) PROVE IInv'
  <2>1. TypeOK'
    BY <1>10 DEF GiveUp, TypeOK, UnlockPC
  <2>2. StateHeldInside'
    BY <1>10 DEF GiveUp, StateHeldInside, TypeOK, InState
  <2>3. HolderKnown'
    BY <1>10 DEF GiveUp, HolderKnown, TypeOK, Places, Uncounted
  <2>4. OwnerIsHolder'
    BY <1>10 DEF GiveUp, OwnerIsHolder, TypeOK, HolderKnown, Uncounted
  <2>5. CounterCounts'
    BY <1>10 DEF GiveUp, CounterCounts, TypeOK, HolderKnown, Places, Uncounted
  <2>6. Places'
    BY <1>10 DEF GiveUp, Places, TypeOK
  <2>7. QED BY <2>1, <2>2, <2>3, <2>4, <2>5, <2>6
<1>11. ASSUME NEW t \in Thread, LeaveUnlock(t) PROVE IInv'
  <2>1. TypeOK'
    BY <1>11 DEF LeaveUnlock, TypeOK
  <2>2. StateHeldInside'
    BY <1>11 DEF LeaveUnlock, StateHeldInside, TypeOK, InState
  <2>3. HolderKnown'
    BY <1>11 DEF LeaveUnlock, HolderKnown, Uncounted
  <2>4. OwnerIsHolder'
    BY <1>11 DEF LeaveUnlock, OwnerIsHolder
  <2>5. CounterCounts'
    BY <1>11 DEF LeaveUnlock, CounterCounts, Uncounted
  <2>6. Places'
    BY <1>11 DEF LeaveUnlock, Places, TypeOK
  <2>7. QED BY <2>1, <2>2, <2>3, <2>4, <2>5, <2>6
<1>12. CASE UNCHANGED vars
  BY <1>12 DEF vars, TypeOK, StateHeldInside, HolderKnown, OwnerIsHolder, CounterCounts,
               Places
<1>13. QED
  BY <1>1, <1>2, <1>3, <1>4, <1>5, <1>6, <1>7, <1>8, <1>9, <1>10, <1>11, <1>12
  DEF Next, Step

\* The invariant holds in every state of the mutex.
THEOREM InvariantHolds == Spec => []IInv
<1>1. Init => IInv
  BY InitInvariant
<1>2. IInv /\ [Next]_vars => IInv'
  BY StepInvariant
<1>3. QED
  BY <1>1, <1>2, PTL DEF Spec

\* Every variable of the mutex keeps its type: in particular the counter
\* never wraps and never goes below zero.
THEOREM TypeCorrect == Spec => []TypeOK
<1>1. IInv => TypeOK
  BY DEF IInv
<1>2. QED
  BY <1>1, InvariantHolds, PTL

-----------------------------------------------------------------------------
\* lock() excludes: two threads never have lock_guards on the mutex at once.
THEOREM MutualExclusionHolds == Spec => []MutualExclusion
<1>1. IInv => MutualExclusion
  BY DEF IInv, HolderKnown, MutualExclusion
<1>2. QED
  BY <1>1, InvariantHolds, PTL

\* The lock() of a thread that has a lock_guard never waits for m_mutex: the
\* re-entry test in lock() is never wrong about the thread itself.
THEOREM ReentryHolds == Spec => []ReentryNeverBlocks
<1>1. IInv => ReentryNeverBlocks
  BY DepthAssumption DEF IInv, Places, ReentryNeverBlocks
<1>2. QED
  BY <1>1, InvariantHolds, PTL

\* m_mutex is given up by exactly the unlock() that matches the first lock().
THEOREM UnlockedHolds == Spec => []UnlockedAsOftenAsLocked
<1>1. IInv => UnlockedAsOftenAsLocked
  BY DEF IInv, HolderKnown, UnlockedAsOftenAsLocked, Uncounted
<1>2. QED
  BY <1>1, InvariantHolds, PTL

-----------------------------------------------------------------------------
(* Refinement: the holds the counter counts are those of a recursive mutex. *)

\* When no thread holds m_mutex, no thread has a hold.
LEMMA InitRefines == Init => RM!RMInit
BY NoThreadAssumption DEF Init, held, RM!RMInit

\* One hold fewer of the only holder is a release.
LEMMA HoldsDown ==
    ASSUME NEW t \in Thread, NEW n \in Nat,
           held = [u \in Thread |-> IF u = t THEN n + 1 ELSE 0],
           held' = [u \in Thread |-> IF u = t THEN n ELSE 0]
    PROVE  RM!Release(t)
<1>1. held[t] = n + 1
  OBVIOUS
<1>2. held' = [held EXCEPT ![t] = n]
  OBVIOUS
<1>3. QED
  BY <1>1, <1>2 DEF RM!Release

\* Each statement is an acquisition, a release or invisible.  A nested lock()
\* acquires when it counts up; the first one when it gets m_mutex, before it
\* records the owner; a nested unlock() releases when it counts down, the
\* last one when it unlocks m_mutex.
LEMMA StepRefines == IInv /\ [Next]_vars => [RM!RMNext]_held
<1> USE NoThreadAssumption, DepthAssumption
<1> SUFFICES ASSUME IInv, [Next]_vars PROVE [RM!RMNext]_held
    OBVIOUS
<1> USE DEF IInv, TypeOK, Goto, held
<1>1. ASSUME NEW t \in Thread, CheckOwner(t) PROVE RM!Acquire(t) \/ held' = held
  <2>1. CASE m_id = t
    <3>1. mutexHolder = t
      BY <2>1 DEF OwnerIsHolder
    <3>2. m_lock_index + 1 = depth[t] /\ depth[t] < MaxDepth
      BY <3>1, <1>1 DEF CounterCounts, Places, Uncounted, CheckOwner, LockPC
    <3>3. (m_lock_index + 1) % IndexSize = m_lock_index + 1
      BY <3>2
    <3>4. held' = [held EXCEPT ![t] = @ + 1]
      BY <1>1, <2>1, <3>1, <3>3 DEF CheckOwner
    <3>5. \A u \in Thread \ {t} : held[u] = 0
      BY <3>1
    <3>6. QED
      BY <3>4, <3>5 DEF RM!Acquire
  <2>2. CASE m_id # t
    BY <1>1, <2>2 DEF CheckOwner
  <2>3. QED
    BY <2>1, <2>2
<1>2. ASSUME NEW t \in Thread, AcquireMutex(t) PROVE RM!Acquire(t)
  <2>1. mutexHolder = NoThread /\ m_lock_index = 0 /\ mutexHolder' = t /\ m_lock_index' = 0
    BY <1>2 DEF AcquireMutex, CounterCounts
  <2>2. held' = [held EXCEPT ![t] = @ + 1]
    BY <2>1
  <2>3. \A u \in Thread : held[u] = 0
    BY <2>1
  <2>4. QED
    BY <2>2, <2>3 DEF RM!Acquire
<1>3. ASSUME NEW t \in Thread, ResetIndex(t) PROVE held' = held
  <2>1. mutexHolder = t /\ depth[t] = 0 /\ pc[t] \in Uncounted
    BY <1>3 DEF ResetIndex, HolderKnown, Uncounted, Places
  <2>2. m_lock_index = 0
    BY <2>1 DEF CounterCounts
  <2>3. QED
    BY <1>3, <2>2 DEF ResetIndex
<1>4. ASSUME NEW t \in Thread, CheckIndex(t) PROVE RM!Release(t) \/ held' = held
  <2>1. mutexHolder = t
    BY <1>4 DEF CheckIndex, HolderKnown, Uncounted
  <2>2. CASE m_lock_index > 0
    <3>1. held = [u \in Thread |-> IF u = t THEN m_lock_index + 1 ELSE 0]
      BY <2>1
    <3>2. held' = [u \in Thread |-> IF u = t THEN m_lock_index ELSE 0]
      BY <1>4, <2>1, <2>2 DEF CheckIndex
    <3>3. QED
      BY <3>1, <3>2, HoldsDown
  <2>3. CASE m_lock_index = 0
    BY <1>4, <2>3 DEF CheckIndex
  <2>4. QED
    BY <2>2, <2>3
<1>5. ASSUME NEW t \in Thread, GiveUp(t) PROVE RM!Release(t) \/ held' = held
  <2>1. CASE pc[t] = "unlock.clear"
    BY <1>5, <2>1 DEF GiveUp
  <2>2. CASE pc[t] = "unlock.free"
    <3>1. mutexHolder = t /\ depth[t] = 0 /\ pc[t] \in Uncounted
      BY <2>2 DEF HolderKnown, Uncounted, Places
    <3>2. m_lock_index = 0
      BY <3>1 DEF CounterCounts
    <3>3. mutexHolder' = NoThread /\ m_lock_index' = m_lock_index
      BY <1>5, <2>2 DEF GiveUp
    <3>4. held = [u \in Thread |-> IF u = t THEN 0 + 1 ELSE 0]
      BY <3>1, <3>2
    <3>5. held' = [u \in Thread |-> IF u = t THEN 0 ELSE 0]
      BY <3>3
    <3>6. QED
      BY <3>4, <3>5, HoldsDown
  <2>3. QED
    BY <1>5, <2>1, <2>2 DEF GiveUp
<1>6. ASSUME NEW t \in Thread,
             BeginLock(t) \/ EnterState(t) \/ LeaveState(t) \/ SetOwner(t)
                \/ BeginUnlock(t) \/ LeaveUnlock(t)
      PROVE  held' = held
  BY <1>6 DEF BeginLock, EnterState, LeaveState, SetOwner, BeginUnlock, LeaveUnlock
<1>7. CASE UNCHANGED vars
  BY <1>7 DEF vars
<1>8. QED
  BY <1>1, <1>2, <1>3, <1>4, <1>5, <1>6, <1>7 DEF Next, Step, RM!RMNext

\* cross_thread_mutex implements the recursive mutex its callers rely on.
THEOREM RefinementHolds == Spec => ImplementsRecursiveMutex
<1>1. Init => RM!RMInit
  BY InitRefines
<1>2. IInv /\ [Next]_vars => [RM!RMNext]_held
  BY StepRefines
<1>3. QED
  BY <1>1, <1>2, InvariantHolds, PTL DEF Spec, ImplementsRecursiveMutex, RM!RMSpec

=============================================================================
