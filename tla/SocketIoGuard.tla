--------------------------- MODULE SocketIoGuard ---------------------------
(***************************************************************************)
(* affix_base::networking::socket_io_guard (socket_io_guard.h/.cpp): one   *)
(* queue of requests per direction of a TCP socket.  The request at the    *)
(* front is the one whose asynchronous operation is under way; when it     *)
(* completes, a thread of the io_context calls the request's callback      *)
(* under the queue's mutex, pops the request and starts the next one.      *)
(*                                                                         *)
(* The mutexes are cross_thread_mutexes, recursive ones: CrossThreadMutex. *)
(* A step that needs a mutex only for itself takes and releases it at      *)
(* once; it is held across steps while a callback runs, and by             *)
(* clear_queues() between its two lock_guards.  Callbacks are the user's:  *)
(* they may call the guard again, return or throw.                         *)
(***************************************************************************)
EXTENDS Naturals, Sequences

CONSTANTS
    IoThread,        \* threads that run the io_context
    AppThread,       \* other threads that call the guard
    MaxRequests,     \* bound on async_send() and async_receive() calls
    MaxClears,       \* bound on clear_queues() calls
    AppCalls,        \* what the app threads call: "send", "receive", "clear"
    CallbackCalls,   \* CallbackCalls[d]: what the callbacks of direction d call
    MayFail,         \* whether operations of the socket may fail
    MayThrow         \* whether callbacks may throw

Direction == {"send", "receive"}
Operation == Direction \cup {"clear"}
Thread == IoThread \cup AppThread
Request == 1 .. MaxRequests

ASSUME ThreadAssumption == IoThread \cap AppThread = {}
ASSUME BoundAssumption == MaxRequests \in Nat /\ MaxClears \in Nat
ASSUME CallsAssumption ==
    AppCalls \subseteq Operation /\ CallbackCalls \in [Direction -> SUBSET Operation]
ASSUME FlagAssumption == MayFail \in BOOLEAN /\ MayThrow \in BOOLEAN

VARIABLES
    deque,         \* deque[d]: m_send_deque, m_receive_deque
    held,          \* held[d][t]: holds of t on m_send_mutex, m_receive_mutex
    inflight,      \* inflight[d]: requests whose operation the socket is doing
    handler,       \* handler[t]: the completion handler io thread t is running
    call,          \* call[t]: the operation of the guard t is inside, if any
    issued,        \* requests issued so far, also the last request's name
    clears,        \* clear_queues() calls so far
    broken,        \* front() or pop_front() was called on an empty deque
    answered,      \* answered[d]: history, requests whose callback was called
    stalled,       \* stalled[d]: history, since the last clear an operation failed
                   \*   while requests waited, or a callback threw
    clearedBusy    \* clearedBusy[d]: history, the queue of d was cleared while
                   \*   an operation of d was under way

bounds == <<issued, clears>>
history == <<answered, stalled, clearedBusy>>
vars == <<deque, held, inflight, handler, call, bounds, broken, history>>

Idle == [at |-> "idle"]
NoCall == [what |-> "none"]

Handler ==
    {Idle} \cup [at : {"arrived", "callback"}, dir : Direction, req : Request, result : BOOLEAN]
Call ==
    {NoCall} \cup [what : Direction, req : Request] \cup [what : {"clear"}, lock : {1, 2}]

TypeOK ==
    /\ deque \in [Direction -> Seq(Request)]
    /\ held \in [Direction -> [Thread -> Nat]]
    /\ inflight \in [Direction -> SUBSET Request]
    /\ handler \in [IoThread -> Handler]
    /\ call \in [Thread -> Call]
    /\ issued \in 0 .. MaxRequests
    /\ clears \in 0 .. MaxClears
    /\ broken \in BOOLEAN
    /\ answered \in [Direction -> Seq(Request)]
    /\ stalled \in [Direction -> BOOLEAN]
    /\ clearedBusy \in [Direction -> BOOLEAN]

Init ==
    /\ deque = [d \in Direction |-> << >>]
    /\ held = [d \in Direction |-> [t \in Thread |-> 0]]
    /\ inflight = [d \in Direction |-> {}]
    /\ handler = [t \in IoThread |-> Idle]
    /\ call = [t \in Thread |-> NoCall]
    /\ issued = 0 /\ clears = 0 /\ broken = FALSE
    /\ answered = [d \in Direction |-> << >>]
    /\ stalled = [d \in Direction |-> FALSE]
    /\ clearedBusy = [d \in Direction |-> FALSE]

-----------------------------------------------------------------------------
(* The recursive mutex of direction d, as RecursiveMutex specifies it. *)

\* Bug: std::mutex, which its holder cannot lock again.
CanLockOnce(d, t) == \A u \in Thread : held[d][u] = 0

CanLock(d, t) == \A u \in Thread \ {t} : held[d][u] = 0
Lock(d, t) == held' = [held EXCEPT ![d][t] = @ + 1]

\* Bug: the mutex is also unlocked by hand before the lock_guard's destructor.
UnlockTwice(d, t) == held' = [held EXCEPT ![d][t] = @ - 2]

Unlock(d, t) == held' = [held EXCEPT ![d][t] = @ - 1]

\* Thread t runs the completion handler of an operation of direction d.
Handles(t, d) == handler[t] # Idle /\ handler[t].dir = d
InCallback(t) == handler[t].at = "callback"

\* An operation of d is under way, or its handler has not finished.
Busy(d) == inflight[d] # {} \/ \E t \in IoThread : Handles(t, d)

-----------------------------------------------------------------------------
(* Calls of the guard, by the app threads and by callbacks *)

MayCall(t, what) ==
    /\ call[t] = NoCall
    /\ \/ t \in AppThread /\ what \in AppCalls
       \/ t \in IoThread /\ InCallback(t) /\ what \in CallbackCalls[handler[t].dir]

BeginAsync(t, d) ==
    /\ MayCall(t, d)
    /\ issued < MaxRequests
    /\ issued' = issued + 1
    /\ call' = [call EXCEPT ![t] = [what |-> d, req |-> issued + 1]]
    /\ UNCHANGED <<deque, held, inflight, handler, clears, broken, history>>

BeginClear(t) ==
    /\ MayCall(t, "clear")
    /\ clears < MaxClears
    /\ clears' = clears + 1
    /\ call' = [call EXCEPT ![t] = [what |-> "clear", lock |-> 1]]
    /\ UNCHANGED <<deque, held, inflight, handler, issued, broken, history>>

\* Bug: every request starts its own operation.
StartsEager(queue) == {queue[Len(queue)]}

\* The operation that is started when the last request of `queue` is pushed.
Starts(queue) == IF Len(queue) = 1 THEN {queue[1]} ELSE {}

\* async_send(), async_receive()
Async(t, d) ==
    /\ call[t].what = d
    /\ CanLock(d, t)
    /\ deque' = [deque EXCEPT ![d] = Append(@, call[t].req)]
    /\ inflight' = [inflight EXCEPT ![d] = @ \cup Starts(deque'[d])]
    /\ call' = [call EXCEPT ![t] = NoCall]
    /\ UNCHANGED <<held, handler, bounds, broken, history>>

\* Bug: the receive mutex is taken first.
ClearOrderInverted == <<"receive", "send">>

\* The order of the two lock_guards of clear_queues().
ClearOrder == <<"send", "receive">>

\* clear_queues(): it waits for the second mutex holding the first; the
\* operations under way go on.
ClearQueues(t) ==
    LET first == ClearOrder[1]
        second == ClearOrder[2] IN
    \/ /\ call[t] = [what |-> "clear", lock |-> 1]
       /\ CanLock(first, t)
       /\ Lock(first, t)
       /\ call' = [call EXCEPT ![t].lock = 2]
       /\ UNCHANGED <<deque, inflight, handler, bounds, broken, history>>
    \/ /\ call[t] = [what |-> "clear", lock |-> 2]
       /\ CanLock(second, t)
       /\ Unlock(first, t)
       /\ deque' = [d \in Direction |-> << >>]
       /\ stalled' = [d \in Direction |-> FALSE]
       /\ clearedBusy' = [d \in Direction |-> clearedBusy[d] \/ Busy(d)]
       /\ call' = [call EXCEPT ![t] = NoCall]
       /\ UNCHANGED <<inflight, handler, bounds, broken, answered>>

-----------------------------------------------------------------------------
(* Completion handlers: the lambdas of send_next() and receive_next(), which *)
(* run send_callback() and receive_callback() and catch what they throw.     *)

\* The io_context hands a completed operation to one of its threads.
Complete(t, d) ==
    /\ handler[t] = Idle
    /\ \E r \in inflight[d], result \in IF MayFail THEN BOOLEAN ELSE {TRUE} :
          /\ inflight' = [inflight EXCEPT ![d] = @ \ {r}]
          /\ handler' = [handler EXCEPT ![t] =
                [at |-> "arrived", dir |-> d, req |-> r, result |-> result]]
    /\ UNCHANGED <<deque, held, call, bounds, broken, history>>

\* The lock_guard, and front().m_callback(a_result) begins.
EnterCallback(t) ==
    LET d == handler[t].dir IN
    /\ handler[t].at = "arrived"
    /\ CanLock(d, t)
    /\ \/ /\ deque[d] = << >>
          /\ broken' = TRUE
          /\ UNCHANGED <<held, handler, answered>>
       \/ /\ deque[d] # << >>
          /\ Lock(d, t)
          /\ handler' = [handler EXCEPT ![t].at = "callback"]
          /\ answered' = [answered EXCEPT ![d] = Append(@, Head(deque[d]))]
          /\ UNCHANGED broken
    /\ UNCHANGED <<deque, inflight, call, bounds, stalled, clearedBusy>>

\* Bug: the front request gets its operation only when another one waits.
PumpsLazily(rest, result) == IF Len(rest) > 1 /\ result THEN {Head(rest)} ELSE {}

\* The operation that is started when the answered request has been popped.
Pumps(rest, result) == IF rest # << >> /\ result THEN {Head(rest)} ELSE {}

\* The callback returns: pop_front(), and on with the next request unless the
\* operation failed.
CallbackReturns(t) ==
    LET d == handler[t].dir
        result == handler[t].result
        rest == Tail(deque[d]) IN
    /\ InCallback(t) /\ call[t] = NoCall
    /\ \/ /\ deque[d] = << >>
          /\ broken' = TRUE
          /\ UNCHANGED <<deque, held, inflight, handler, stalled>>
       \/ /\ deque[d] # << >>
          /\ deque' = [deque EXCEPT ![d] = rest]
          /\ inflight' = [inflight EXCEPT ![d] = @ \cup Pumps(rest, result)]
          /\ stalled' = [stalled EXCEPT ![d] = rest # << >> /\ ~result]
          /\ Unlock(d, t)
          /\ handler' = [handler EXCEPT ![t] = Idle]
          /\ UNCHANGED broken
    /\ UNCHANGED <<call, bounds, answered, clearedBusy>>

\* The callback throws: the lambda catches, the request is not popped.
CallbackThrows(t) ==
    LET d == handler[t].dir IN
    /\ MayThrow
    /\ InCallback(t) /\ call[t] = NoCall
    /\ stalled' = [stalled EXCEPT ![d] = TRUE]
    /\ Unlock(d, t)
    /\ handler' = [handler EXCEPT ![t] = Idle]
    /\ UNCHANGED <<deque, inflight, call, bounds, broken, answered, clearedBusy>>

-----------------------------------------------------------------------------
(* What thread t does once it is inside the guard. *)
Run(t) ==
    \/ \E d \in Direction : Async(t, d)
    \/ ClearQueues(t)
    \/ t \in IoThread /\ EnterCallback(t)
    \/ t \in IoThread /\ CallbackReturns(t)

\* Undefined behaviour ends what the model says of an execution.
Next ==
    /\ ~broken
    /\ \E t \in Thread :
          \/ \E d \in Direction : BeginAsync(t, d)
          \/ BeginClear(t)
          \/ \E d \in Direction : t \in IoThread /\ Complete(t, d)
          \/ t \in IoThread /\ CallbackThrows(t)
          \/ Run(t)

Spec == Init /\ [][Next]_vars

\* The socket completes what was started while an io thread is free, threads
\* inside the guard run on, and callbacks return.
Fairness ==
    /\ \A d \in Direction : WF_vars(~broken /\ \E t \in IoThread : Complete(t, d))
    /\ \A t \in Thread : WF_vars(~broken /\ Run(t))

FairSpec == Spec /\ Fairness

-----------------------------------------------------------------------------
(* Properties *)

\* The operation of d is that of its front request, and one at a time.
OperatesOnFront(d) ==
    /\ inflight[d] # {} => deque[d] # << >> /\ inflight[d] = {Head(deque[d])}
    /\ \A t \in IoThread : Handles(t, d) =>
          /\ deque[d] # << >> /\ handler[t].req = Head(deque[d])
          /\ inflight[d] = {}
          /\ \A u \in IoThread \ {t} : ~Handles(u, d)

\* A socket is given one operation per direction at a time, the one of the
\* request at the front, whose buffer and callback are alive: overlapping
\* operations would mix the bytes of two messages.  No callback, failure or
\* second io thread breaks it; only clearing a queue that is busy does.
OneOperation == \A d \in Direction : ~clearedBusy[d] => OperatesOnFront(d)

\* A queue with requests is always being worked on, so a later call may rely
\* on it: unless an operation failed or a callback threw, after which the
\* requests stay until clear_queues().
NeverIdleWithRequests ==
    \A d \in Direction :
        deque[d] # << >> /\ ~stalled[d] /\ ~clearedBusy[d] => Busy(d)

\* The only way to front() or pop_front() on an empty deque is to clear a
\* queue while its operation is under way (or in its own callback).
EmptyOnlyByClear == broken => \E d \in Direction : clearedBusy[d]

\* t waits for a queue mutex that u holds.
Wants(t) ==
    {d \in Direction :
        \/ call[t].what = d
        \/ call[t].what = "clear" /\ d = ClearOrder[call[t].lock]
        \/ t \in IoThread /\ handler[t].at = "arrived" /\ handler[t].dir = d}
Blocks(u, t) == t # u /\ \E d \in Wants(t) : held[d][u] > 0

\* Two threads wait for each other only when one of them calls for the send
\* queue out of a receive callback, against the order send, receive in which
\* clear_queues() and the callbacks of sends take the two mutexes.
CircularWaitNeedsInversion ==
    \A t, u \in Thread : Blocks(u, t) /\ Blocks(t, u) =>
        \E v \in {t, u} \cap IoThread :
            InCallback(v) /\ handler[v].dir = "receive" /\ "send" \in Wants(v)

Listed(r, seq) == \E i \in DOMAIN seq : seq[i] = r

\* The requests of d that wait for their answer: the front one no longer does
\* once its callback has been called.
Waiting(d) ==
    IF deque[d] # << >> /\ Listed(Head(deque[d]), answered[d])
    THEN Tail(deque[d]) ELSE deque[d]

SendQueue == INSTANCE RequestQueue WITH
    waiting <- Waiting("send"), answered <- answered["send"]
ReceiveQueue == INSTANCE RequestQueue WITH
    waiting <- Waiting("receive"), answered <- answered["receive"]

\* Each direction answers its requests once, in the order of the calls, until
\* it is cleared while it is busy.
AnswersInOrder ==
    /\ [][clearedBusy'["send"] \/ SendQueue!RQNext]_<<Waiting("send"), answered["send"]>>
    /\ [][clearedBusy'["receive"] \/ ReceiveQueue!RQNext]_<<
            Waiting("receive"), answered["receive"]>>

\* Two threads wait for each other: see CircularWaitNeedsInversion.
CircularWait == \E t, u \in Thread : Blocks(u, t) /\ Blocks(t, u)

\* No call of async_send(), async_receive() or clear_queues(), out of a callback or
\* not, stays inside the guard or waits for its mutexes forever, unless two threads
\* wait for each other.  (Of handlers that have arrived see EveryRequestAnswered.)
EveryCallReturns ==
    \A t \in Thread : call[t] # NoCall ~> call[t] = NoCall \/ broken \/ CircularWait

\* Every request that is queued is answered or cleared, unless an operation
\* failed in front of it, a callback threw, the queue was cleared while busy or
\* two threads wait for each other.
EveryRequestAnswered ==
    \A d \in Direction, r \in Request :
        Listed(r, deque[d]) ~>
            \/ Listed(r, answered[d]) \/ ~Listed(r, deque[d])
            \/ stalled[d] \/ clearedBusy[d] \/ broken \/ CircularWait

-----------------------------------------------------------------------------
(* The inductive invariant: what the properties above need to know about who *)
(* holds the mutexes and where the threads are.                              *)

\* t runs a callback of d; t is in clear_queues(), between its two locks.
CallsBack(t, d) == t \in IoThread /\ InCallback(t) /\ Handles(t, d)
Clears(t, d) == d = ClearOrder[1] /\ call[t] = [what |-> "clear", lock |-> 2]

\* A thread holds a mutex once for the callback it runs, and once more for
\* the first lock of a clear_queues() that waits for the second.
LocksHeld ==
    \A d \in Direction, t \in Thread :
        held[d][t] = (IF CallsBack(t, d) THEN 1 ELSE 0) + (IF Clears(t, d) THEN 1 ELSE 0)

OneHolder ==
    \A d \in Direction, t, u \in Thread : held[d][t] > 0 /\ held[d][u] > 0 => t = u

CallsInCallbacks == \A t \in IoThread : call[t] # NoCall => InCallback(t)

IInv ==
    /\ TypeOK
    /\ LocksHeld /\ OneHolder /\ CallsInCallbacks
    /\ OneOperation /\ NeverIdleWithRequests /\ EmptyOnlyByClear

=============================================================================
