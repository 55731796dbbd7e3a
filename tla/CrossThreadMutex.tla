-------------------------- MODULE CrossThreadMutex --------------------------
(***************************************************************************)
(* affix_base::threading::cross_thread_mutex (cross_thread_mutex.h/.cpp):  *)
(* a recursive mutex made of two std::mutexes, an owner id and a 16-bit    *)
(* re-entry counter.                                                       *)
(*                                                                         *)
(* Every statement of lock() and unlock() that touches shared state is a   *)
(* step of its own.  m_state_mutex does not cover the two assignments at   *)
(* the end of lock() (m_id, then m_lock_index), so another thread inside   *)
(* m_state_mutex may read m_id before or after them: thread ids are        *)
(* aligned words in the supported builds, a read returns the old or the    *)
(* new value, and interleaving single steps produces both.                 *)
(***************************************************************************)
EXTENDS Naturals

CONSTANTS
    Thread,      \* the threads that share the mutex
    NoThread,    \* std::thread::id(), the id of no thread
    MaxDepth,    \* how many lock_guards one thread ever holds on the mutex
    IndexSize    \* values of m_lock_index (uint16_t: 65536)

ASSUME NoThreadAssumption == NoThread \notin Thread
ASSUME DepthAssumption ==
    MaxDepth \in Nat /\ IndexSize \in Nat \ {0} /\ MaxDepth <= IndexSize

VARIABLES
    mutexHolder,    \* the thread that holds m_mutex, or NoThread
    stateHolder,    \* the thread that holds m_state_mutex, or NoThread
    m_id,
    m_lock_index,
    pc,             \* pc[t]: where t is in lock() or unlock(); "out": in neither
    depth           \* depth[t]: lock_guards of t: lock() has returned, unlock() not begun

vars == <<mutexHolder, stateHolder, m_id, m_lock_index, pc, depth>>

LockPC == {"lock", "lock.check", "lock.reenter", "lock.wait", "lock.acquire",
           "lock.set_id", "lock.set_index"}
UnlockPC == {"unlock", "unlock.check", "unlock.clear", "unlock.free", "unlock.leave"}

TypeOK ==
    /\ mutexHolder \in Thread \cup {NoThread}
    /\ stateHolder \in Thread \cup {NoThread}
    /\ m_id \in Thread \cup {NoThread}
    /\ m_lock_index \in 0 .. IndexSize - 1
    /\ pc \in [Thread -> {"out"} \cup LockPC \cup UnlockPC]
    /\ depth \in [Thread -> 0 .. MaxDepth]

Init ==
    /\ mutexHolder = NoThread
    /\ stateHolder = NoThread
    /\ m_id = NoThread
    /\ m_lock_index = 0
    /\ pc = [t \in Thread |-> "out"]
    /\ depth = [t \in Thread |-> 0]

Goto(t, from, to) ==
    /\ pc[t] = from
    /\ pc' = [pc EXCEPT ![t] = to]

-----------------------------------------------------------------------------
(* lock() *)

\* A lock_guard is constructed.
BeginLock(t) ==
    /\ depth[t] < MaxDepth
    /\ Goto(t, "out", "lock")
    /\ UNCHANGED <<mutexHolder, stateHolder, m_id, m_lock_index, depth>>

\* m_state_mutex.lock(), at the head of lock() and of unlock().
EnterState(t) ==
    /\ stateHolder = NoThread
    /\ stateHolder' = t
    /\ \/ Goto(t, "lock", "lock.check")
       \/ Goto(t, "unlock", "unlock.check")
    /\ UNCHANGED <<mutexHolder, m_id, m_lock_index, depth>>

\* Bug: the re-entry is recognised but not counted.
CheckOwnerUncounted(t) ==
    /\ Goto(t, "lock.check", IF m_id = t THEN "lock.reenter" ELSE "lock.wait")
    /\ UNCHANGED <<mutexHolder, stateHolder, m_id, m_lock_index, depth>>

\* l_mutex_already_owned, and m_lock_index++ (which wraps) for the owner.
CheckOwner(t) ==
    /\ Goto(t, "lock.check", IF m_id = t THEN "lock.reenter" ELSE "lock.wait")
    /\ m_lock_index' = IF m_id = t THEN (m_lock_index + 1) % IndexSize ELSE m_lock_index
    /\ UNCHANGED <<mutexHolder, stateHolder, m_id, depth>>

\* m_state_mutex.unlock(); the owner returns, any other thread goes on to wait.
LeaveState(t) ==
    /\ stateHolder' = NoThread
    /\ \/ /\ Goto(t, "lock.reenter", "out")
          /\ depth' = [depth EXCEPT ![t] = @ + 1]
       \/ /\ Goto(t, "lock.wait", "lock.acquire")
          /\ UNCHANGED depth
    /\ UNCHANGED <<mutexHolder, m_id, m_lock_index>>

\* m_mutex.lock()
AcquireMutex(t) ==
    /\ mutexHolder = NoThread
    /\ Goto(t, "lock.acquire", "lock.set_id")
    /\ mutexHolder' = t
    /\ UNCHANGED <<stateHolder, m_id, m_lock_index, depth>>

\* m_id = l_this_thread_id, outside m_state_mutex
SetOwner(t) ==
    /\ Goto(t, "lock.set_id", "lock.set_index")
    /\ m_id' = t
    /\ UNCHANGED <<mutexHolder, stateHolder, m_lock_index, depth>>

\* m_lock_index = 0, outside m_state_mutex, and lock() returns
ResetIndex(t) ==
    /\ Goto(t, "lock.set_index", "out")
    /\ m_lock_index' = 0
    /\ depth' = [depth EXCEPT ![t] = @ + 1]
    /\ UNCHANGED <<mutexHolder, stateHolder, m_id>>

-----------------------------------------------------------------------------
(* unlock() *)

\* A lock_guard is destroyed.
BeginUnlock(t) ==
    /\ depth[t] > 0
    /\ Goto(t, "out", "unlock")
    /\ depth' = [depth EXCEPT ![t] = @ - 1]
    /\ UNCHANGED <<mutexHolder, stateHolder, m_id, m_lock_index>>

\* Bug: the nesting is forgotten and every unlock() is the last one.
CheckIndexFlat(t) ==
    /\ Goto(t, "unlock.check", "unlock.clear")
    /\ UNCHANGED <<mutexHolder, stateHolder, m_id, m_lock_index, depth>>

\* m_lock_index > 0: a nested unlock only counts down.
CheckIndex(t) ==
    /\ \/ /\ m_lock_index > 0
          /\ m_lock_index' = m_lock_index - 1
          /\ Goto(t, "unlock.check", "unlock.leave")
       \/ /\ m_lock_index = 0
          /\ Goto(t, "unlock.check", "unlock.clear")
          /\ UNCHANGED m_lock_index
    /\ UNCHANGED <<mutexHolder, stateHolder, m_id, depth>>

\* Bug: m_mutex is unlocked first and the owner id cleared afterwards.
GiveUpSwapped(t) ==
    \/ /\ Goto(t, "unlock.clear", "unlock.free")
       /\ mutexHolder' = NoThread
       /\ UNCHANGED <<stateHolder, m_id, m_lock_index, depth>>
    \/ /\ Goto(t, "unlock.free", "unlock.leave")
       /\ m_id' = NoThread
       /\ UNCHANGED <<mutexHolder, stateHolder, m_lock_index, depth>>

\* m_id = std::thread::id(), then m_mutex.unlock()
GiveUp(t) ==
    \/ /\ Goto(t, "unlock.clear", "unlock.free")
       /\ m_id' = NoThread
       /\ UNCHANGED <<mutexHolder, stateHolder, m_lock_index, depth>>
    \/ /\ Goto(t, "unlock.free", "unlock.leave")
       /\ mutexHolder' = NoThread
       /\ UNCHANGED <<stateHolder, m_id, m_lock_index, depth>>

\* Bug: the nested path returns without m_state_mutex.unlock().
LeaveUnlockKeepingState(t) ==
    /\ Goto(t, "unlock.leave", "out")
    /\ stateHolder' = IF mutexHolder = t THEN stateHolder ELSE NoThread
    /\ UNCHANGED <<mutexHolder, m_id, m_lock_index, depth>>

\* m_state_mutex.unlock() at both ends of unlock(), which returns.
LeaveUnlock(t) ==
    /\ Goto(t, "unlock.leave", "out")
    /\ stateHolder' = NoThread
    /\ UNCHANGED <<mutexHolder, m_id, m_lock_index, depth>>

-----------------------------------------------------------------------------
(* The steps a thread takes once it is inside lock() or unlock(). *)
Step(t) ==
    \/ EnterState(t)
    \/ CheckOwner(t)
    \/ LeaveState(t)
    \/ AcquireMutex(t)
    \/ SetOwner(t)
    \/ ResetIndex(t)
    \/ CheckIndex(t)
    \/ GiveUp(t)
    \/ LeaveUnlock(t)

Next == \E t \in Thread : BeginLock(t) \/ BeginUnlock(t) \/ Step(t)

Spec == Init /\ [][Next]_vars

-----------------------------------------------------------------------------
(* Properties *)

\* Two threads never hold lock_guards at the same time, however their lock()
\* and unlock() interleave and however deeply they nest.
MutualExclusion ==
    \A t, u \in Thread : depth[t] > 0 /\ depth[u] > 0 => t = u

\* A thread that already holds a lock_guard is recognised as the owner by
\* the next lock(): it never waits for m_mutex, which it holds itself.
ReentryNeverBlocks ==
    \A t \in Thread : depth[t] > 0 => pc[t] \notin {"lock.wait", "lock.acquire"}

\* "MUTEX MUST BE UNLOCKED SAME # OF TIMES IT WAS LOCKED": outside lock() and
\* unlock() a thread holds m_mutex exactly as long as it has lock_guards left.
UnlockedAsOftenAsLocked ==
    \A t \in Thread : pc[t] = "out" => (mutexHolder = t <=> depth[t] > 0)

\* The contract: each thread's holds, counted by m_lock_index while it has
\* m_mutex, behave as those of a recursive mutex.
held == [t \in Thread |-> IF mutexHolder = t THEN m_lock_index + 1 ELSE 0]

RM == INSTANCE RecursiveMutex

\* The two std::mutexes, the id and the counter together implement it.
ImplementsRecursiveMutex == RM!RMSpec

-----------------------------------------------------------------------------
(* The inductive invariant.  Which thread holds m_mutex, what m_id says and  *)
(* what the counter counts all depend on where the holder is.               *)

InState == {"lock.check", "lock.reenter", "lock.wait",
            "unlock.check", "unlock.clear", "unlock.free", "unlock.leave"}

\* The unlock() in progress has not yet been taken off the counter, or the
\* nested lock() in progress has already been put on it.
Uncounted == {"unlock", "unlock.check", "unlock.clear", "unlock.free", "lock.reenter",
              "lock.set_id", "lock.set_index"}

StateHeldInside ==
    \A t \in Thread : stateHolder = t <=> pc[t] \in InState

HolderKnown ==
    \A t \in Thread :
        mutexHolder = t <=> depth[t] > 0 \/ pc[t] \in Uncounted

OwnerIsHolder ==
    \A t \in Thread :
        m_id = t <=> mutexHolder = t /\ pc[t] \notin {"lock.set_id", "unlock.free"}

CounterCounts ==
    /\ mutexHolder = NoThread => m_lock_index = 0
    /\ \A t \in Thread : mutexHolder = t =>
          m_lock_index + 1 = depth[t] + (IF pc[t] \in Uncounted THEN 1 ELSE 0)

Places ==
    \A t \in Thread :
        /\ pc[t] \in {"lock.wait", "lock.acquire", "lock.set_id", "lock.set_index",
                      "unlock.clear", "unlock.free"} => depth[t] = 0
        /\ pc[t] \in LockPC \cup UnlockPC => depth[t] < MaxDepth

IInv == TypeOK /\ StateHeldInside /\ HolderKnown /\ OwnerIsHolder /\ CounterCounts /\ Places

=============================================================================
