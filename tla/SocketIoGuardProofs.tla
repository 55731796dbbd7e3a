------------------------ MODULE SocketIoGuardProofs ------------------------
(***************************************************************************)
(* Proofs about SocketIoGuard for any set of io threads and app threads,   *)
(* any number of requests and clears, and whatever callbacks do.           *)
(*                                                                         *)
(* OneOperation is the heart: that a handler finds its own request at the  *)
(* front makes the pop the right one and front() safe.  NeverIdle needs it *)
(* to know that a handler that ends was the only one.  The circular wait   *)
(* needs the lock counts: who holds a mutex, and for what (LocksHeld), and *)
(* that a recursive mutex has one holder (OneHolder).  IInv is their       *)
(* conjunction; it is inductive, one lemma below for each action.          *)
(***************************************************************************)
EXTENDS SocketIoGuard, TLAPS, SequenceTheorems

\* A guard that no thread has called satisfies the invariant.
LEMMA InitInvariant == Init => IInv
<1> SUFFICES ASSUME Init PROVE IInv
    OBVIOUS
<1> USE DEF Init
<1>1. TypeOK
  <2>1. Idle \in Handler /\ NoCall \in Call
    BY DEF Handler, Call
  <2>2. 0 \in 0 .. MaxRequests /\ 0 \in 0 .. MaxClears
    BY BoundAssumption
  <2>3. << >> \in Seq(Request)
    OBVIOUS
  <2>4. deque \in [Direction -> Seq(Request)] /\ answered \in [Direction -> Seq(Request)]
    BY <2>3
  <2>5. held \in [Direction -> [Thread -> Nat]]
    OBVIOUS
  <2>6. handler \in [IoThread -> Handler] /\ call \in [Thread -> Call]
    BY <2>1
  <2>7. QED
    BY <2>2, <2>4, <2>5, <2>6 DEF TypeOK
<1>2. LocksHeld
  <2>1. Idle.at # "callback"
    BY DEF Idle
  <2>2. NoCall # [what |-> "clear", lock |-> 2]
    <3>1. NoCall.what # [what |-> "clear", lock |-> 2].what
      BY DEF NoCall
    <3>2. QED BY <3>1
  <2>3. ASSUME NEW d \in Direction, NEW t \in Thread
        PROVE  held[d][t] = (IF CallsBack(t, d) THEN 1 ELSE 0) + (IF Clears(t, d) THEN 1 ELSE 0)
    <3>1. ~CallsBack(t, d)
      BY <2>1 DEF CallsBack, InCallback
    <3>2. ~Clears(t, d)
      BY <2>2 DEF Clears
    <3>3. held[d][t] = 0
      OBVIOUS
    <3>4. QED
      BY <3>1, <3>2, <3>3
  <2>4. QED
    BY <2>3 DEF LocksHeld
<1>3. OneHolder
  BY DEF OneHolder
<1>4. CallsInCallbacks
  BY DEF CallsInCallbacks, Thread
<1>5. OneOperation
  BY DEF OneOperation, OperatesOnFront, Handles
<1>6. NeverIdleWithRequests
  BY DEF NeverIdleWithRequests
<1>7. EmptyOnlyByClear
  BY DEF EmptyOnlyByClear
<1>8. QED
  BY <1>1, <1>2, <1>3, <1>4, <1>5, <1>6, <1>7 DEF IInv

-----------------------------------------------------------------------------
(* Facts about the types *)

\* A thread that is not idle runs the handler of some direction.
LEMMA HandlerType ==
    ASSUME TypeOK, NEW t \in IoThread, handler[t] # Idle
    PROVE  /\ handler[t] = [at |-> handler[t].at, dir |-> handler[t].dir,
                            req |-> handler[t].req, result |-> handler[t].result]
           /\ handler[t].at \in {"arrived", "callback"}
           /\ handler[t].dir \in Direction
           /\ handler[t].req \in Request
           /\ handler[t].result \in BOOLEAN
<1>1. handler[t] \in Handler
  BY DEF TypeOK
<1>2. handler[t] \in [at : {"arrived", "callback"}, dir : Direction, req : Request,
                      result : BOOLEAN]
  BY <1>1 DEF Handler
<1>3. QED BY <1>2

\* Handlers that have arrived or are in a callback are not idle.
LEMMA NotIdle ==
    ASSUME NEW t \in IoThread, handler[t].at \in {"arrived", "callback"}
    PROVE  handler[t] # Idle
BY DEF Idle

\* A call of async_send() or async_receive() carries its request.
LEMMA CallType ==
    ASSUME TypeOK, NEW t \in Thread, NEW d \in Direction, call[t].what = d
    PROVE  call[t].req \in Request /\ call[t] # NoCall
<1>1. call[t] \in Call
  BY DEF TypeOK
<1>2. call[t] # NoCall
  BY DEF NoCall, Direction
<1>3. call[t] \notin [what : {"clear"}, lock : {1, 2}]
  BY DEF Direction
<1>4. call[t] \in [what : Direction, req : Request]
  BY <1>1, <1>2, <1>3 DEF Call
<1>5. QED BY <1>2, <1>4

-----------------------------------------------------------------------------
(* One lemma for each action *)

\* What a step that changes only calls and counters leaves alone.
LEMMA CallStep ==
    ASSUME IInv, NEW t \in Thread, NEW c \in Call,
           call[t] = NoCall, c # [what |-> "clear", lock |-> 2],
           t \in IoThread => InCallback(t),
           call' = [call EXCEPT ![t] = c],
           issued' \in 0 .. MaxRequests, clears' \in 0 .. MaxClears,
           UNCHANGED <<deque, held, inflight, handler, broken, history>>
    PROVE  IInv'
<1> USE DEF history
<1>1. TypeOK'
  <2>1. call' \in [Thread -> Call]
    BY DEF IInv, TypeOK
  <2>2. QED
    BY <2>1 DEF IInv, TypeOK
<1>2. LocksHeld'
  <2> SUFFICES ASSUME NEW d \in Direction, NEW u \in Thread
               PROVE  held'[d][u] = (IF CallsBack(u, d)' THEN 1 ELSE 0)
                                  + (IF Clears(u, d)' THEN 1 ELSE 0)
    BY DEF LocksHeld
  <2>1. CallsBack(u, d)' <=> CallsBack(u, d)
    BY DEF CallsBack, InCallback, Handles
  <2>2. NoCall # [what |-> "clear", lock |-> 2]
    <3>1. NoCall.what # [what |-> "clear", lock |-> 2].what
      BY DEF NoCall
    <3>2. QED BY <3>1
  <2>3. Clears(u, d)' <=> Clears(u, d)
    BY <2>2 DEF Clears, IInv, TypeOK
  <2>4. QED
    BY <2>1, <2>3 DEF IInv, LocksHeld
<1>3. OneHolder'
  BY DEF IInv, OneHolder
<1>4. CallsInCallbacks'
  BY DEF IInv, TypeOK, CallsInCallbacks, InCallback, Thread
<1>5. OneOperation'
  BY DEF IInv, OneOperation, OperatesOnFront, Handles
<1>6. NeverIdleWithRequests'
  BY DEF IInv, NeverIdleWithRequests, Busy, Handles
<1>7. EmptyOnlyByClear'
  BY DEF IInv, EmptyOnlyByClear
<1>8. QED
  BY <1>1, <1>2, <1>3, <1>4, <1>5, <1>6, <1>7 DEF IInv

\* A call of async_send() or async_receive() is made.
LEMMA BeginAsyncStep ==
    ASSUME IInv, NEW t \in Thread, NEW d \in Direction, BeginAsync(t, d)
    PROVE  IInv'
<1> DEFINE c == [what |-> d, req |-> issued + 1]
<1>1. issued + 1 \in Request /\ issued + 1 \in 0 .. MaxRequests
  BY BoundAssumption DEF BeginAsync, IInv, TypeOK, Request
<1>2. c \in Call /\ c # [what |-> "clear", lock |-> 2]
  <2>1. c \in Call
    BY <1>1 DEF Call
  <2>2. c.what # [what |-> "clear", lock |-> 2].what
    BY DEF Direction
  <2>3. QED BY <2>1, <2>2
<1>3. call[t] = NoCall /\ (t \in IoThread => InCallback(t))
  BY ThreadAssumption DEF BeginAsync, MayCall
<1>4. clears' \in 0 .. MaxClears
  BY DEF BeginAsync, IInv, TypeOK
<1>5. QED
  BY <1>1, <1>2, <1>3, <1>4, CallStep DEF BeginAsync, history

\* A call of clear_queues() is made.
LEMMA BeginClearStep ==
    ASSUME IInv, NEW t \in Thread, BeginClear(t)
    PROVE  IInv'
<1> DEFINE c == [what |-> "clear", lock |-> 1]
<1>1. clears' \in 0 .. MaxClears /\ issued' \in 0 .. MaxRequests
  BY BoundAssumption DEF BeginClear, IInv, TypeOK
<1>2. c \in Call /\ c # [what |-> "clear", lock |-> 2]
  <2>1. c \in Call
    BY DEF Call
  <2>2. c.lock # [what |-> "clear", lock |-> 2].lock
    OBVIOUS
  <2>3. QED BY <2>1, <2>2
<1>3. call[t] = NoCall /\ (t \in IoThread => InCallback(t))
  BY ThreadAssumption DEF BeginClear, MayCall
<1>4. QED
  BY <1>1, <1>2, <1>3, CallStep DEF BeginClear, history

\* A direction that a step does not touch keeps what it satisfies.
LEMMA SameDirection ==
    ASSUME NEW d \in Direction,
           deque'[d] = deque[d], inflight'[d] = inflight[d],
           \A u \in IoThread : /\ Handles(u, d)' <=> Handles(u, d)
                               /\ Handles(u, d) => handler'[u].req = handler[u].req
    PROVE  (OperatesOnFront(d)' <=> OperatesOnFront(d)) /\ (Busy(d)' <=> Busy(d))
<1>1. OperatesOnFront(d)' <=> OperatesOnFront(d)
  BY DEF OperatesOnFront
<1>2. Busy(d)' <=> Busy(d)
  BY DEF Busy
<1>3. QED BY <1>1, <1>2

\* A request is pushed, and started when it is alone.
LEMMA AsyncStep ==
    ASSUME IInv, NEW t \in Thread, NEW d \in Direction, Async(t, d)
    PROVE  IInv'
<1> DEFINE queue == Append(deque[d], call[t].req)
<1>1. /\ call[t].req \in Request /\ call[t] # NoCall
      /\ deque[d] \in Seq(Request) /\ queue \in Seq(Request)
      /\ Len(queue) = Len(deque[d]) + 1 /\ queue # << >>
      /\ deque[d] # << >> => Head(queue) = Head(deque[d]) /\ Starts(queue) = {}
      /\ deque[d] = << >> => Head(queue) = call[t].req /\ Starts(queue) = {call[t].req}
  <2>1. call[t].req \in Request /\ call[t] # NoCall
    BY CallType DEF Async, IInv
  <2>2. deque[d] \in Seq(Request)
    BY DEF IInv, TypeOK
  <2>3. queue \in Seq(Request) /\ Len(queue) = Len(deque[d]) + 1 /\ queue # << >>
    BY <2>1, <2>2
  <2>4. ASSUME deque[d] # << >>
        PROVE  Head(queue) = Head(deque[d]) /\ Starts(queue) = {}
    <3>1. Len(deque[d]) \in Nat /\ Len(deque[d]) > 0
      BY <2>2, <2>4
    <3>2. Len(queue) # 1
      BY <2>3, <3>1
    <3>3. Starts(queue) = {}
      BY <3>2 DEF Starts
    <3>4. Head(queue) = Head(deque[d])
      BY <2>1, <2>2, <3>1
    <3>5. QED BY <3>3, <3>4
  <2>5. ASSUME deque[d] = << >>
        PROVE  Head(queue) = call[t].req /\ Starts(queue) = {call[t].req}
    <3>1. queue = <<call[t].req>>
      BY <2>1, <2>5
    <3>2. QED
      BY <3>1 DEF Starts
  <2>6. QED
    BY <2>1, <2>2, <2>3, <2>4, <2>5
<1>2. /\ deque' = [deque EXCEPT ![d] = queue]
      /\ inflight' = [inflight EXCEPT ![d] = @ \cup Starts(queue)]
  BY DEF Async, IInv, TypeOK
<1>3. TypeOK'
  <2>1. deque' \in [Direction -> Seq(Request)] /\ inflight' \in [Direction -> SUBSET Request]
    BY <1>1, <1>2 DEF IInv, TypeOK
  <2>2. call' \in [Thread -> Call]
    BY DEF Async, IInv, TypeOK, Call
  <2>3. QED
    BY <2>1, <2>2 DEF Async, IInv, TypeOK, bounds, history
<1>4. LocksHeld'
  <2> SUFFICES ASSUME NEW e \in Direction, NEW u \in Thread
               PROVE  held'[e][u] = (IF CallsBack(u, e)' THEN 1 ELSE 0)
                                  + (IF Clears(u, e)' THEN 1 ELSE 0)
    BY DEF LocksHeld
  <2>1. CallsBack(u, e)' <=> CallsBack(u, e)
    BY DEF Async, CallsBack, InCallback, Handles
  <2>2. Clears(u, e)' <=> Clears(u, e)
    <3>1. NoCall.what # "clear" /\ d # "clear"
      BY DEF NoCall, Direction
    <3>2. QED
      BY <3>1 DEF Async, Clears, IInv, TypeOK
  <2>3. QED
    BY <2>1, <2>2 DEF Async, IInv, LocksHeld
<1>5. OneHolder'
  BY DEF Async, IInv, OneHolder
<1>6. CallsInCallbacks'
  BY DEF Async, IInv, TypeOK, CallsInCallbacks, InCallback, Thread
<1>7. ASSUME NEW e \in Direction \ {d}
      PROVE  (OperatesOnFront(e)' <=> OperatesOnFront(e)) /\ (Busy(e)' <=> Busy(e))
  BY <1>2, SameDirection DEF Async, IInv, TypeOK, Handles
<1>8. OneOperation'
  <2> SUFFICES ASSUME NEW e \in Direction, ~clearedBusy'[e]
               PROVE  OperatesOnFront(e)'
    BY DEF OneOperation
  <2>1. OperatesOnFront(e)
    BY DEF Async, history, IInv, OneOperation
  <2>2. CASE e # d
    BY <1>7, <2>1, <2>2
  <2>3. CASE e = d
    BY <1>1, <1>2, <2>1, <2>3 DEF OperatesOnFront, Handles, Async, IInv, TypeOK
  <2>4. QED BY <2>2, <2>3
<1>9. NeverIdleWithRequests'
  <2> SUFFICES ASSUME NEW e \in Direction, deque'[e] # << >>, ~stalled'[e], ~clearedBusy'[e]
               PROVE  Busy(e)'
    BY DEF NeverIdleWithRequests
  <2>1. deque[e] # << >> => Busy(e)
    BY DEF Async, history, IInv, NeverIdleWithRequests
  <2>2. CASE e # d
    BY <1>2, <1>7, <2>1, <2>2 DEF IInv, TypeOK
  <2>3. CASE e = d
    <3>1. deque[d] # << >> => Busy(d)
      BY <2>1, <2>3
    <3>2. \A u \in IoThread : Handles(u, d)' <=> Handles(u, d)
      BY DEF Async, Handles
    <3>3. inflight'[d] = inflight[d] \cup Starts(queue)
      BY <1>2 DEF IInv, TypeOK
    <3>4. CASE deque[d] = << >>
      BY <1>1, <2>3, <3>3, <3>4 DEF Busy
    <3>5. CASE deque[d] # << >>
      BY <2>3, <3>1, <3>2, <3>3, <3>5 DEF Busy
    <3>6. QED BY <3>4, <3>5
  <2>4. QED BY <2>2, <2>3
<1>10. EmptyOnlyByClear'
  BY DEF Async, history, IInv, EmptyOnlyByClear
<1>11. QED
  BY <1>3, <1>4, <1>5, <1>6, <1>8, <1>9, <1>10 DEF IInv

\* clear_queues() gets its first lock.
LEMMA FirstLockStep ==
    ASSUME IInv, NEW t \in Thread,
           call[t] = [what |-> "clear", lock |-> 1],
           CanLock(ClearOrder[1], t), Lock(ClearOrder[1], t),
           call' = [call EXCEPT ![t].lock = 2],
           UNCHANGED <<deque, inflight, handler, bounds, broken, history>>
    PROVE  IInv'
<1> DEFINE first == ClearOrder[1]
<1> USE DEF bounds, history
<1>1. first \in Direction
  BY DEF ClearOrder, Direction
<1>2. call' = [call EXCEPT ![t] = [what |-> "clear", lock |-> 2]]
  <2>1. call' = [call EXCEPT ![t] = [call[t] EXCEPT !.lock = 2]]
    OBVIOUS
  <2>2. [call[t] EXCEPT !.lock = 2] = [what |-> "clear", lock |-> 2]
    OBVIOUS
  <2>3. QED BY <2>1, <2>2
<1>3. /\ held[first] \in [Thread -> Nat]
      /\ held' = [held EXCEPT ![first] = [@ EXCEPT ![t] = held[first][t] + 1]]
  BY <1>1 DEF Lock, IInv, TypeOK
<1>4. TypeOK'
  <2>1. call' \in [Thread -> Call]
    BY <1>2 DEF IInv, TypeOK, Call
  <2>2. held' \in [Direction -> [Thread -> Nat]]
    BY <1>1, <1>3 DEF IInv, TypeOK
  <2>3. QED
    BY <2>1, <2>2 DEF IInv, TypeOK
<1>5. LocksHeld'
  <2> SUFFICES ASSUME NEW e \in Direction, NEW u \in Thread
               PROVE  held'[e][u] = (IF CallsBack(u, e)' THEN 1 ELSE 0)
                                  + (IF Clears(u, e)' THEN 1 ELSE 0)
    BY DEF LocksHeld
  <2>1. CallsBack(u, e)' <=> CallsBack(u, e)
    BY DEF CallsBack, InCallback, Handles
  <2>2. held[e][u] = (IF CallsBack(u, e) THEN 1 ELSE 0) + (IF Clears(u, e) THEN 1 ELSE 0)
    BY DEF IInv, LocksHeld
  <2>3. CASE u = t /\ e = first
    <3>1. Clears(u, e)' /\ ~Clears(u, e)
      BY <1>2, <2>3 DEF Clears, IInv, TypeOK
    <3>2. held'[e][u] = held[e][u] + 1
      BY <1>1, <1>3, <2>3 DEF IInv, TypeOK
    <3>3. QED BY <2>1, <2>2, <3>1, <3>2
  <2>4. CASE ~(u = t /\ e = first)
    <3>1. Clears(u, e)' <=> Clears(u, e)
      BY <1>2, <2>4 DEF Clears, IInv, TypeOK
    <3>2. held'[e][u] = held[e][u]
      BY <1>1, <1>3, <2>4 DEF IInv, TypeOK
    <3>3. QED BY <2>1, <2>2, <3>1, <3>2
  <2>5. QED BY <2>3, <2>4
<1>6. OneHolder'
  BY <1>1, <1>3 DEF CanLock, IInv, TypeOK, OneHolder
<1>7. CallsInCallbacks'
  <2>1. call[t] # NoCall
    BY DEF NoCall
  <2>2. QED
    BY <1>2, <2>1 DEF IInv, TypeOK, CallsInCallbacks, InCallback, Thread
<1>8. OneOperation'
  BY DEF IInv, OneOperation, OperatesOnFront, Handles
<1>9. NeverIdleWithRequests'
  BY DEF IInv, NeverIdleWithRequests, Busy, Handles
<1>10. EmptyOnlyByClear'
  BY DEF IInv, EmptyOnlyByClear
<1>11. QED
  BY <1>4, <1>5, <1>6, <1>7, <1>8, <1>9, <1>10 DEF IInv

\* clear_queues() gets its second lock, empties the queues and returns.
LEMMA ClearStep ==
    ASSUME IInv, NEW t \in Thread,
           call[t] = [what |-> "clear", lock |-> 2],
           Unlock(ClearOrder[1], t),
           deque' = [d \in Direction |-> << >>],
           stalled' = [d \in Direction |-> FALSE],
           clearedBusy' = [d \in Direction |-> clearedBusy[d] \/ Busy(d)],
           call' = [call EXCEPT ![t] = NoCall],
           UNCHANGED <<inflight, handler, bounds, broken, answered>>
    PROVE  IInv'
<1> DEFINE first == ClearOrder[1]
<1> USE DEF bounds
<1>1. first \in Direction
  BY DEF ClearOrder, Direction
<1>2. held[first][t] > 0
  <2>1. Clears(t, first)
    BY DEF Clears
  <2>2. held[first][t] = (IF CallsBack(t, first) THEN 1 ELSE 0) + 1
    BY <1>1, <2>1 DEF IInv, LocksHeld
  <2>3. QED BY <2>2
<1>3. /\ held[first] \in [Thread -> Nat]
      /\ held' = [held EXCEPT ![first] = [@ EXCEPT ![t] = held[first][t] - 1]]
  BY <1>1 DEF Unlock, IInv, TypeOK
<1>4. TypeOK'
  <2>1. call' \in [Thread -> Call]
    BY DEF IInv, TypeOK, Call
  <2>2. held' \in [Direction -> [Thread -> Nat]]
    BY <1>1, <1>2, <1>3 DEF IInv, TypeOK
  <2>3. deque' \in [Direction -> Seq(Request)]
    OBVIOUS
  <2>4. stalled' \in [Direction -> BOOLEAN] /\ clearedBusy' \in [Direction -> BOOLEAN]
    BY DEF IInv, TypeOK
  <2>5. QED
    BY <2>1, <2>2, <2>3, <2>4 DEF IInv, TypeOK
<1>5. LocksHeld'
  <2> SUFFICES ASSUME NEW e \in Direction, NEW u \in Thread
               PROVE  held'[e][u] = (IF CallsBack(u, e)' THEN 1 ELSE 0)
                                  + (IF Clears(u, e)' THEN 1 ELSE 0)
    BY DEF LocksHeld
  <2>1. CallsBack(u, e)' <=> CallsBack(u, e)
    BY DEF CallsBack, InCallback, Handles
  <2>2. held[e][u] = (IF CallsBack(u, e) THEN 1 ELSE 0) + (IF Clears(u, e) THEN 1 ELSE 0)
    BY DEF IInv, LocksHeld
  <2>3. NoCall # [what |-> "clear", lock |-> 2]
    <3>1. NoCall.what # [what |-> "clear", lock |-> 2].what
      BY DEF NoCall
    <3>2. QED BY <3>1
  <2>4. CASE u = t /\ e = first
    <3>1. Clears(u, e) /\ ~Clears(u, e)'
      BY <2>3, <2>4 DEF Clears, IInv, TypeOK
    <3>2. held'[e][u] = held[e][u] - 1
      BY <1>1, <1>3, <2>4 DEF IInv, TypeOK
    <3>3. QED BY <2>1, <2>2, <3>1, <3>2
  <2>5. CASE ~(u = t /\ e = first)
    <3>1. Clears(u, e)' <=> Clears(u, e)
      BY <2>3, <2>5 DEF Clears, IInv, TypeOK
    <3>2. held'[e][u] = held[e][u]
      BY <1>1, <1>3, <2>5 DEF IInv, TypeOK
    <3>3. QED BY <2>1, <2>2, <3>1, <3>2
  <2>6. QED BY <2>4, <2>5
<1>6. OneHolder'
  BY <1>1, <1>2, <1>3 DEF IInv, TypeOK, OneHolder
<1>7. CallsInCallbacks'
  BY DEF IInv, TypeOK, CallsInCallbacks, InCallback, Thread
<1>8. OneOperation'
  <2> SUFFICES ASSUME NEW e \in Direction, ~clearedBusy'[e]
               PROVE  OperatesOnFront(e)'
    BY DEF OneOperation
  <2>1. ~Busy(e)
    OBVIOUS
  <2>2. QED
    BY <2>1 DEF Busy, OperatesOnFront, Handles
<1>9. NeverIdleWithRequests'
  BY DEF NeverIdleWithRequests
<1>10. EmptyOnlyByClear'
  BY DEF IInv, EmptyOnlyByClear
<1>11. QED
  BY <1>4, <1>5, <1>6, <1>7, <1>8, <1>9, <1>10 DEF IInv

\* The io_context takes a completed operation to a free thread.
LEMMA CompleteStep ==
    ASSUME IInv, NEW t \in IoThread, NEW d \in Direction, Complete(t, d)
    PROVE  IInv'
<1>1. PICK r \in inflight[d], result \in BOOLEAN :
         /\ inflight' = [inflight EXCEPT ![d] = @ \ {r}]
         /\ handler' = [handler EXCEPT ![t] =
               [at |-> "arrived", dir |-> d, req |-> r, result |-> result]]
  BY FlagAssumption DEF Complete
<1> DEFINE h == [at |-> "arrived", dir |-> d, req |-> r, result |-> result]
<1>2. /\ handler[t] = Idle /\ r \in Request
      /\ UNCHANGED <<deque, held, call, issued, clears, broken, answered, stalled, clearedBusy>>
  BY DEF Complete, bounds, history, IInv, TypeOK
<1>3. h \in Handler /\ h # Idle /\ h.at # "callback" /\ Idle.at # "callback"
  BY <1>2 DEF Handler, Idle
<1>4. TypeOK'
  <2>1. handler' \in [IoThread -> Handler]
    BY <1>1, <1>3 DEF IInv, TypeOK
  <2>2. inflight' \in [Direction -> SUBSET Request]
    BY <1>1 DEF IInv, TypeOK
  <2>3. QED
    BY <1>2, <2>1, <2>2 DEF IInv, TypeOK
<1>5. /\ \A u \in IoThread : InCallback(u)' <=> InCallback(u)
      /\ \A u \in IoThread, e \in Direction :
            Handles(u, e)' <=> IF u = t THEN e = d ELSE Handles(u, e)
      /\ \A u \in IoThread, e \in Direction \ {d} : Handles(u, e)' <=> Handles(u, e)
  <2>1. \A u \in IoThread : handler'[u] = IF u = t THEN h ELSE handler[u]
    BY <1>1 DEF IInv, TypeOK
  <2>2. \A u \in IoThread : InCallback(u)' <=> InCallback(u)
    BY <1>2, <1>3, <2>1 DEF InCallback
  <2>3. \A u \in IoThread, e \in Direction :
            Handles(u, e)' <=> IF u = t THEN e = d ELSE Handles(u, e)
    BY <1>3, <2>1 DEF Handles
  <2>4. \A e \in Direction : ~Handles(t, e)
    BY <1>2 DEF Handles
  <2>5. QED BY <2>2, <2>3, <2>4
<1>6. LocksHeld'
  <2>1. ASSUME NEW e \in Direction, NEW u \in Thread
        PROVE  /\ CallsBack(u, e)' <=> CallsBack(u, e)
               /\ Clears(u, e)' <=> Clears(u, e)
    <3>1. CASE u = t
      BY <1>2, <1>3, <1>5, <3>1 DEF CallsBack, InCallback, Clears
    <3>2. CASE u # t
      BY <1>2, <1>5, <3>2 DEF CallsBack, Clears
    <3>3. QED BY <3>1, <3>2
  <2>2. QED
    BY <1>2, <2>1 DEF IInv, LocksHeld
<1>7. OneHolder'
  BY <1>2 DEF IInv, OneHolder
<1>8. CallsInCallbacks'
  BY <1>2, <1>5 DEF IInv, CallsInCallbacks
<1>9. ASSUME NEW e \in Direction \ {d}
      PROVE  (OperatesOnFront(e)' <=> OperatesOnFront(e)) /\ (Busy(e)' <=> Busy(e))
  <2>1. deque'[e] = deque[e] /\ inflight'[e] = inflight[e]
    BY <1>1, <1>2 DEF IInv, TypeOK
  <2>2. \A u \in IoThread : Handles(u, e) => handler'[u].req = handler[u].req
    BY <1>1, <1>2 DEF IInv, TypeOK, Handles
  <2>3. QED
    BY <1>5, <2>1, <2>2, SameDirection
<1>10. Busy(d)'
  BY <1>5 DEF Busy
<1>11. OneOperation'
  <2> SUFFICES ASSUME NEW e \in Direction, ~clearedBusy'[e]
               PROVE  OperatesOnFront(e)'
    BY DEF OneOperation
  <2>1. OperatesOnFront(e)
    BY <1>2 DEF IInv, OneOperation
  <2>2. CASE e # d
    BY <1>9, <2>1, <2>2
  <2>3. CASE e = d
    <3>1. /\ deque[d] # << >> /\ inflight[d] = {Head(deque[d])}
          /\ \A u \in IoThread : ~Handles(u, d)
      BY <2>1, <2>3 DEF OperatesOnFront
    <3>2. r = Head(deque[d]) /\ inflight'[d] = {} /\ handler'[t].req = r
      BY <1>1, <3>1 DEF IInv, TypeOK
    <3>3. \A u \in IoThread : Handles(u, d)' => u = t
      BY <1>5, <3>1
    <3>4. QED
      BY <1>2, <2>3, <3>1, <3>2, <3>3 DEF OperatesOnFront
  <2>4. QED BY <2>2, <2>3
<1>12. NeverIdleWithRequests'
  BY <1>2, <1>9, <1>10 DEF IInv, NeverIdleWithRequests
<1>13. EmptyOnlyByClear'
  BY <1>2 DEF IInv, EmptyOnlyByClear
<1>14. QED
  BY <1>4, <1>6, <1>7, <1>8, <1>11, <1>12, <1>13 DEF IInv

\* A callback begins under the queue's mutex, or finds the queue empty.
LEMMA EnterStep ==
    ASSUME IInv, NEW t \in IoThread, EnterCallback(t)
    PROVE  IInv'
<1> DEFINE d == handler[t].dir
<1>1. /\ handler[t].at = "arrived" /\ handler[t] # Idle
      /\ d \in Direction /\ CanLock(d, t) /\ t \in Thread
      /\ UNCHANGED <<deque, inflight, call, issued, clears, stalled, clearedBusy>>
  BY HandlerType, NotIdle DEF EnterCallback, IInv, bounds, Thread
<1>2. CASE deque[d] = << >>
  <2>1. broken' = TRUE /\ UNCHANGED <<held, handler, answered>>
    BY <1>2 DEF EnterCallback
  <2>2. clearedBusy[d]
    BY <1>1, <1>2 DEF IInv, OneOperation, OperatesOnFront, Handles
  <2>3. TypeOK'
    BY <1>1, <2>1 DEF IInv, TypeOK
  <2>4. LocksHeld' /\ OneHolder' /\ CallsInCallbacks'
    BY <1>1, <2>1 DEF IInv, LocksHeld, OneHolder, CallsInCallbacks, CallsBack, Clears,
                      InCallback, Handles
  <2>5. OneOperation' /\ NeverIdleWithRequests'
    BY <1>1, <2>1 DEF IInv, OneOperation, NeverIdleWithRequests, OperatesOnFront, Busy,
                      Handles
  <2>6. EmptyOnlyByClear'
    BY <1>1, <2>2 DEF EmptyOnlyByClear
  <2>7. QED
    BY <2>3, <2>4, <2>5, <2>6 DEF IInv
<1>3. CASE deque[d] # << >>
  <2>1. /\ Lock(d, t) /\ UNCHANGED broken
        /\ handler' = [handler EXCEPT ![t].at = "callback"]
        /\ answered' = [answered EXCEPT ![d] = Append(@, Head(deque[d]))]
    BY <1>3 DEF EnterCallback
  <2> DEFINE h == [at |-> "callback", dir |-> d, req |-> handler[t].req,
                   result |-> handler[t].result]
  <2>2. /\ handler' = [handler EXCEPT ![t] = h]
        /\ h \in Handler /\ h # Idle
    <3>1. handler[t] = [at |-> handler[t].at, dir |-> d, req |-> handler[t].req,
                        result |-> handler[t].result]
      BY <1>1, HandlerType DEF IInv
    <3>2. [handler[t] EXCEPT !.at = "callback"] = h
      BY <3>1
    <3>3. handler' = [handler EXCEPT ![t] = h]
      BY <2>1, <3>2
    <3>4. h \in Handler /\ h # Idle
      BY <1>1, HandlerType DEF Handler, Idle, IInv
    <3>5. QED BY <3>3, <3>4
  <2>3. /\ held[d] \in [Thread -> Nat]
        /\ held' = [held EXCEPT ![d] = [@ EXCEPT ![t] = held[d][t] + 1]]
    BY <1>1, <2>1 DEF Lock, IInv, TypeOK
  <2>4. TypeOK'
    <3>1. answered' \in [Direction -> Seq(Request)]
      BY <1>1, <1>3, <2>1 DEF IInv, TypeOK
    <3>2. held' \in [Direction -> [Thread -> Nat]]
      BY <1>1, <2>3 DEF IInv, TypeOK
    <3>3. handler' \in [IoThread -> Handler]
      BY <2>2 DEF IInv, TypeOK
    <3>4. QED
      BY <1>1, <2>1, <3>1, <3>2, <3>3 DEF IInv, TypeOK
  <2>5. \A u \in IoThread : handler'[u] = IF u = t THEN h ELSE handler[u]
    BY <2>2 DEF IInv, TypeOK
  <2>6. \A u \in IoThread, e \in Direction :
           /\ Handles(u, e)' <=> Handles(u, e)
           /\ Handles(u, e) => handler'[u].req = handler[u].req
    BY <1>1, <2>2, <2>5 DEF Handles
  <2>7. ASSUME NEW e \in Direction
        PROVE  (OperatesOnFront(e)' <=> OperatesOnFront(e)) /\ (Busy(e)' <=> Busy(e))
    BY <1>1, <2>6, SameDirection
  <2>8. LocksHeld'
    <3> SUFFICES ASSUME NEW e \in Direction, NEW u \in Thread
                 PROVE  held'[e][u] = (IF CallsBack(u, e)' THEN 1 ELSE 0)
                                    + (IF Clears(u, e)' THEN 1 ELSE 0)
      BY DEF LocksHeld
    <3>1. Clears(u, e)' <=> Clears(u, e)
      BY <1>1 DEF Clears
    <3>2. held[e][u] = (IF CallsBack(u, e) THEN 1 ELSE 0) + (IF Clears(u, e) THEN 1 ELSE 0)
      BY DEF IInv, LocksHeld
    <3>3. CASE u = t /\ e = d
      <4>1. CallsBack(u, e)' /\ ~CallsBack(u, e)
        BY <1>1, <2>2, <2>5, <3>3 DEF CallsBack, InCallback, Handles
      <4>2. held'[e][u] = held[e][u] + 1
        BY <1>1, <2>3, <3>3 DEF IInv, TypeOK
      <4>3. QED BY <3>1, <3>2, <4>1, <4>2
    <3>4. CASE ~(u = t /\ e = d)
      <4>1. CallsBack(u, e)' <=> CallsBack(u, e)
        BY <1>1, <2>5, <3>4 DEF CallsBack, InCallback, Handles
      <4>2. held'[e][u] = held[e][u]
        BY <1>1, <2>3, <3>4 DEF IInv, TypeOK
      <4>3. QED BY <3>1, <3>2, <4>1, <4>2
    <3>5. QED BY <3>3, <3>4
  <2>9. OneHolder'
    BY <1>1, <2>3 DEF CanLock, IInv, TypeOK, OneHolder
  <2>10. CallsInCallbacks'
    BY <1>1, <2>5 DEF IInv, CallsInCallbacks, InCallback
  <2>11. OneOperation'
    BY <1>1, <2>7 DEF IInv, OneOperation
  <2>12. NeverIdleWithRequests'
    BY <1>1, <2>7 DEF IInv, NeverIdleWithRequests
  <2>13. EmptyOnlyByClear'
    BY <1>1, <2>1 DEF IInv, EmptyOnlyByClear
  <2>14. QED
    BY <2>4, <2>8, <2>9, <2>10, <2>11, <2>12, <2>13 DEF IInv
<1>4. QED BY <1>2, <1>3

\* A callback has ended, by returning or by throwing: what the locks and the
\* calls have to do with it.
LEMMA LeaveStep ==
    ASSUME IInv, NEW t \in IoThread, NEW d \in Direction,
           InCallback(t), handler[t].dir = d, call[t] = NoCall, Unlock(d, t),
           handler' = [handler EXCEPT ![t] = Idle], UNCHANGED call
    PROVE  /\ held' \in [Direction -> [Thread -> Nat]]
           /\ handler' \in [IoThread -> Handler]
           /\ LocksHeld' /\ OneHolder' /\ CallsInCallbacks'
           /\ \A u \in IoThread, e \in Direction :
                 Handles(u, e)' <=> u # t /\ Handles(u, e)
           /\ \A u \in IoThread : u # t => handler'[u] = handler[u]
<1>1. t \in Thread /\ Handles(t, d) /\ CallsBack(t, d) /\ Idle.at # "callback"
  BY NotIdle DEF Thread, CallsBack, Handles, InCallback, Idle
<1>2. \A u \in IoThread : handler'[u] = IF u = t THEN Idle ELSE handler[u]
  BY DEF IInv, TypeOK
<1>3. /\ held[d] \in [Thread -> Nat]
      /\ held' = [held EXCEPT ![d] = [@ EXCEPT ![t] = held[d][t] - 1]]
  BY DEF Unlock, IInv, TypeOK
<1>4. ~Clears(t, d)
  <2>1. NoCall.what # [what |-> "clear", lock |-> 2].what
    BY DEF NoCall
  <2>2. QED
    BY <2>1 DEF Clears
<1>5. held[d][t] = 1
  <2>1. held[d][t] = (IF CallsBack(t, d) THEN 1 ELSE 0) + (IF Clears(t, d) THEN 1 ELSE 0)
    BY <1>1 DEF IInv, LocksHeld
  <2>2. QED BY <1>1, <1>4, <2>1
<1>6. held' \in [Direction -> [Thread -> Nat]]
  BY <1>1, <1>3, <1>5 DEF IInv, TypeOK
<1>7. handler' \in [IoThread -> Handler]
  BY DEF IInv, TypeOK, Handler
<1>8. LocksHeld'
  <2> SUFFICES ASSUME NEW e \in Direction, NEW u \in Thread
               PROVE  held'[e][u] = (IF CallsBack(u, e)' THEN 1 ELSE 0)
                                  + (IF Clears(u, e)' THEN 1 ELSE 0)
    BY DEF LocksHeld
  <2>1. Clears(u, e)' <=> Clears(u, e)
    BY DEF Clears
  <2>2. held[e][u] = (IF CallsBack(u, e) THEN 1 ELSE 0) + (IF Clears(u, e) THEN 1 ELSE 0)
    BY DEF IInv, LocksHeld
  <2>3. CASE u = t /\ e = d
    <3>1. ~CallsBack(u, e)'
      BY <1>1, <1>2, <2>3 DEF CallsBack, InCallback
    <3>2. held'[e][u] = 0
      BY <1>1, <1>3, <1>5, <2>3 DEF IInv, TypeOK
    <3>3. QED BY <1>4, <2>1, <2>3, <3>1, <3>2
  <2>4. CASE ~(u = t /\ e = d)
    <3>1. CallsBack(u, e)' <=> CallsBack(u, e)
      BY <1>1, <1>2, <2>4 DEF CallsBack, InCallback, Handles
    <3>2. held'[e][u] = held[e][u]
      BY <1>1, <1>3, <2>4 DEF IInv, TypeOK
    <3>3. QED BY <2>1, <2>2, <3>1, <3>2
  <2>5. QED BY <2>3, <2>4
<1>9. OneHolder'
  BY <1>1, <1>3, <1>5 DEF IInv, TypeOK, OneHolder
<1>10. CallsInCallbacks'
  BY <1>2 DEF IInv, CallsInCallbacks, InCallback
<1>11. \A u \in IoThread, e \in Direction : Handles(u, e)' <=> u # t /\ Handles(u, e)
  BY <1>2 DEF Handles
<1>12. QED
  BY <1>2, <1>6, <1>7, <1>8, <1>9, <1>10, <1>11

\* The answered request is popped and the next one started; or the callback
\* has emptied the queue.
LEMMA ReturnStep ==
    ASSUME IInv, NEW t \in IoThread, CallbackReturns(t)
    PROVE  IInv'
<1> DEFINE d == handler[t].dir
           result == handler[t].result
           rest == Tail(deque[d])
<1>1. /\ InCallback(t) /\ call[t] = NoCall /\ handler[t] # Idle
      /\ d \in Direction /\ result \in BOOLEAN /\ Handles(t, d)
      /\ UNCHANGED <<call, issued, clears, answered, clearedBusy>>
  BY HandlerType, NotIdle DEF CallbackReturns, InCallback, Handles, IInv, bounds
<1>2. CASE deque[d] = << >>
  <2>1. broken' = TRUE /\ UNCHANGED <<deque, held, inflight, handler, stalled>>
    BY <1>2 DEF CallbackReturns
  <2>2. clearedBusy[d]
    BY <1>1, <1>2 DEF IInv, OneOperation, OperatesOnFront
  <2>3. TypeOK'
    BY <1>1, <2>1 DEF IInv, TypeOK
  <2>4. LocksHeld' /\ OneHolder' /\ CallsInCallbacks'
    BY <1>1, <2>1 DEF IInv, LocksHeld, OneHolder, CallsInCallbacks, CallsBack, Clears,
                      InCallback, Handles
  <2>5. OneOperation' /\ NeverIdleWithRequests'
    BY <1>1, <2>1 DEF IInv, OneOperation, NeverIdleWithRequests, OperatesOnFront, Busy,
                      Handles
  <2>6. EmptyOnlyByClear'
    BY <1>1, <2>2 DEF EmptyOnlyByClear
  <2>7. QED
    BY <2>3, <2>4, <2>5, <2>6 DEF IInv
<1>3. CASE deque[d] # << >>
  <2>1. /\ deque' = [deque EXCEPT ![d] = rest]
        /\ inflight' = [inflight EXCEPT ![d] = @ \cup Pumps(rest, result)]
        /\ stalled' = [stalled EXCEPT ![d] = rest # << >> /\ ~result]
        /\ Unlock(d, t)
        /\ handler' = [handler EXCEPT ![t] = Idle]
        /\ UNCHANGED broken
    BY <1>3 DEF CallbackReturns
  <2>2. /\ held' \in [Direction -> [Thread -> Nat]]
        /\ handler' \in [IoThread -> Handler]
        /\ LocksHeld' /\ OneHolder' /\ CallsInCallbacks'
        /\ \A u \in IoThread, e \in Direction : Handles(u, e)' <=> u # t /\ Handles(u, e)
        /\ \A u \in IoThread : u # t => handler'[u] = handler[u]
    BY <1>1, <2>1, LeaveStep
  <2>3. /\ rest \in Seq(Request) /\ Pumps(rest, result) \subseteq Request
        /\ Pumps(rest, result) # {} => rest # << >> /\ Pumps(rest, result) = {Head(rest)}
        /\ rest # << >> /\ result => Pumps(rest, result) # {}
    <3>1. rest \in Seq(Request)
      BY <1>1, <1>3 DEF IInv, TypeOK
    <3>2. rest # << >> => Head(rest) \in Request
      BY <3>1
    <3>3. QED
      BY <3>1, <3>2 DEF Pumps
  <2>4. TypeOK'
    BY <1>1, <2>1, <2>2, <2>3 DEF IInv, TypeOK
  <2>5. ASSUME NEW e \in Direction \ {d}
        PROVE  /\ OperatesOnFront(e)' <=> OperatesOnFront(e)
               /\ Busy(e)' <=> Busy(e)
               /\ deque'[e] = deque[e] /\ stalled'[e] = stalled[e]
    <3>1. /\ deque'[e] = deque[e] /\ inflight'[e] = inflight[e]
          /\ stalled'[e] = stalled[e]
      BY <2>1 DEF IInv, TypeOK
    <3>2. ~Handles(t, e)
      BY <1>1 DEF Handles
    <3>3. QED
      BY <2>2, <3>1, <3>2, SameDirection
  <2>6. OneOperation'
    <3> SUFFICES ASSUME NEW e \in Direction, ~clearedBusy'[e]
                 PROVE  OperatesOnFront(e)'
      BY DEF OneOperation
    <3>1. OperatesOnFront(e)
      BY <1>1 DEF IInv, OneOperation
    <3>2. CASE e # d
      BY <2>5, <3>1, <3>2
    <3>3. CASE e = d
      <4>1. inflight[d] = {} /\ \A u \in IoThread \ {t} : ~Handles(u, d)
        BY <1>1, <3>1, <3>3 DEF OperatesOnFront
      <4>2. \A u \in IoThread : ~Handles(u, e)'
        BY <2>2, <3>3, <4>1
      <4>3. deque'[d] = rest /\ inflight'[d] = Pumps(rest, result)
        BY <1>1, <2>1, <4>1 DEF IInv, TypeOK
      <4>4. QED
        BY <2>3, <3>3, <4>2, <4>3 DEF OperatesOnFront
    <3>4. QED BY <3>2, <3>3
  <2>7. NeverIdleWithRequests'
    <3> SUFFICES ASSUME NEW e \in Direction, deque'[e] # << >>, ~stalled'[e],
                        ~clearedBusy'[e]
                 PROVE  Busy(e)'
      BY DEF NeverIdleWithRequests
    <3>1. CASE e # d
      BY <1>1, <2>5, <3>1 DEF IInv, NeverIdleWithRequests
    <3>2. CASE e = d
      <4>1. deque'[d] = rest /\ inflight'[d] = inflight[d] \cup Pumps(rest, result)
        BY <1>1, <2>1 DEF IInv, TypeOK
      <4>2. stalled'[d] = (rest # << >> /\ ~result)
        BY <1>1, <2>1 DEF IInv, TypeOK
      <4>3. result
        BY <3>2, <4>1, <4>2
      <4>4. QED
        BY <2>3, <3>2, <4>1, <4>3 DEF Busy
    <3>3. QED BY <3>1, <3>2
  <2>8. EmptyOnlyByClear'
    BY <1>1, <2>1 DEF IInv, EmptyOnlyByClear
  <2>9. QED
    BY <2>2, <2>4, <2>6, <2>7, <2>8 DEF IInv
<1>4. QED BY <1>2, <1>3

\* A callback throws: its request stays at the front, with nobody working on it.
LEMMA ThrowStep ==
    ASSUME IInv, NEW t \in IoThread, CallbackThrows(t)
    PROVE  IInv'
<1> DEFINE d == handler[t].dir
<1>1. /\ InCallback(t) /\ call[t] = NoCall /\ handler[t] # Idle
      /\ d \in Direction /\ Handles(t, d)
      /\ stalled' = [stalled EXCEPT ![d] = TRUE]
      /\ UNCHANGED <<deque, inflight, call, issued, clears, broken, answered, clearedBusy>>
  BY HandlerType, NotIdle DEF CallbackThrows, InCallback, Handles, IInv, bounds
<1>2. /\ held' \in [Direction -> [Thread -> Nat]]
      /\ handler' \in [IoThread -> Handler]
      /\ LocksHeld' /\ OneHolder' /\ CallsInCallbacks'
      /\ \A u \in IoThread, e \in Direction : Handles(u, e)' <=> u # t /\ Handles(u, e)
      /\ \A u \in IoThread : u # t => handler'[u] = handler[u]
  BY <1>1, LeaveStep DEF CallbackThrows
<1>3. TypeOK'
  BY <1>1, <1>2 DEF IInv, TypeOK
<1>4. ASSUME NEW e \in Direction \ {d}
      PROVE  /\ OperatesOnFront(e)' <=> OperatesOnFront(e)
             /\ Busy(e)' <=> Busy(e)
             /\ stalled'[e] = stalled[e]
  <2>1. stalled'[e] = stalled[e]
    BY <1>1 DEF IInv, TypeOK
  <2>2. ~Handles(t, e)
    BY <1>1 DEF Handles
  <2>3. QED
    BY <1>1, <1>2, <2>1, <2>2, SameDirection
<1>5. OneOperation'
  <2> SUFFICES ASSUME NEW e \in Direction, ~clearedBusy'[e]
               PROVE  OperatesOnFront(e)'
    BY DEF OneOperation
  <2>1. OperatesOnFront(e)
    BY <1>1 DEF IInv, OneOperation
  <2>2. CASE e # d
    BY <1>4, <2>1, <2>2
  <2>3. CASE e = d
    <3>1. inflight[d] = {} /\ \A u \in IoThread \ {t} : ~Handles(u, d)
      BY <1>1, <2>1, <2>3 DEF OperatesOnFront
    <3>2. QED
      BY <1>1, <1>2, <2>3, <3>1 DEF OperatesOnFront
  <2>4. QED BY <2>2, <2>3
<1>6. NeverIdleWithRequests'
  <2>1. stalled'[d]
    BY <1>1 DEF IInv, TypeOK
  <2>2. QED
    BY <1>1, <1>4, <2>1 DEF IInv, NeverIdleWithRequests
<1>7. EmptyOnlyByClear'
  BY <1>1 DEF IInv, EmptyOnlyByClear
<1>8. QED
  BY <1>2, <1>3, <1>5, <1>6, <1>7 DEF IInv

-----------------------------------------------------------------------------
(* The invariant and the properties *)

\* Every call, completion and end of a callback preserves the invariant.
LEMMA StepInvariant == IInv /\ [Next]_vars => IInv'
<1> SUFFICES ASSUME IInv, [Next]_vars PROVE IInv'
    OBVIOUS
<1>1. CASE Next
  <2>1. PICK t \in Thread :
           \/ \E d \in Direction : BeginAsync(t, d)
           \/ BeginClear(t)
           \/ \E d \in Direction : t \in IoThread /\ Complete(t, d)
           \/ t \in IoThread /\ CallbackThrows(t)
           \/ Run(t)
    BY <1>1 DEF Next
  <2>2. CASE \E d \in Direction : BeginAsync(t, d)
    BY <2>2, BeginAsyncStep
  <2>3. CASE BeginClear(t)
    BY <2>3, BeginClearStep
  <2>4. CASE \E d \in Direction : t \in IoThread /\ Complete(t, d)
    BY <2>4, CompleteStep
  <2>5. CASE t \in IoThread /\ CallbackThrows(t)
    BY <2>5, ThrowStep
  <2>6. CASE Run(t)
    <3>1. CASE \E d \in Direction : Async(t, d)
      BY <3>1, AsyncStep
    <3>2. CASE ClearQueues(t)
      BY <3>2, FirstLockStep, ClearStep DEF ClearQueues
    <3>3. CASE t \in IoThread /\ EnterCallback(t)
      BY <3>3, EnterStep
    <3>4. CASE t \in IoThread /\ CallbackReturns(t)
      BY <3>4, ReturnStep
    <3>5. QED
      BY <2>6, <3>1, <3>2, <3>3, <3>4 DEF Run
  <2>7. QED
    BY <2>1, <2>2, <2>3, <2>4, <2>5, <2>6
<1>2. CASE UNCHANGED vars
  <2> USE <1>2 DEF vars, bounds, history
  <2>1. TypeOK'
    BY DEF IInv, TypeOK
  <2>2. LocksHeld' /\ OneHolder' /\ CallsInCallbacks'
    BY DEF IInv, LocksHeld, OneHolder, CallsInCallbacks, CallsBack, Clears, InCallback,
           Handles
  <2>3. OneOperation' /\ NeverIdleWithRequests'
    BY DEF IInv, OneOperation, NeverIdleWithRequests, OperatesOnFront, Busy, Handles
  <2>4. EmptyOnlyByClear'
    BY DEF IInv, EmptyOnlyByClear
  <2>5. QED
    BY <2>1, <2>2, <2>3, <2>4 DEF IInv
<1>3. QED BY <1>1, <1>2

\* The invariant holds whatever the callbacks do and however many threads run
\* the io_context.
THEOREM InvariantHolds == Spec => []IInv
<1>1. Init => IInv
  BY InitInvariant
<1>2. IInv /\ [Next]_vars => IInv'
  BY StepInvariant
<1>3. QED
  BY <1>1, <1>2, PTL DEF Spec

\* Each direction of the socket has one operation at a time, that of its front
\* request, until its queue is cleared while it is busy.
THEOREM OneOperationHolds == Spec => []OneOperation
<1>1. IInv => OneOperation
  BY DEF IInv
<1>2. QED
  BY <1>1, InvariantHolds, PTL

\* A queue with requests is worked on unless an operation failed or a callback
\* threw.
THEOREM NeverIdleHolds == Spec => []NeverIdleWithRequests
<1>1. IInv => NeverIdleWithRequests
  BY DEF IInv
<1>2. QED
  BY <1>1, InvariantHolds, PTL

\* Only clear_queues() on a busy queue leads to front() of an empty deque.
THEOREM EmptyOnlyByClearHolds == Spec => []EmptyOnlyByClear
<1>1. IInv => EmptyOnlyByClear
  BY DEF IInv
<1>2. QED
  BY <1>1, InvariantHolds, PTL

\* Who holds a mutex: the thread of a callback, or a clear_queues() that holds
\* its first lock.
LEMMA HolderOf ==
    ASSUME IInv, NEW t \in Thread, NEW d \in Direction, held[d][t] > 0
    PROVE  CallsBack(t, d) \/ Clears(t, d)
<1>1. held[d][t] = (IF CallsBack(t, d) THEN 1 ELSE 0) + (IF Clears(t, d) THEN 1 ELSE 0)
  BY DEF IInv, LocksHeld
<1>2. QED BY <1>1

\* A thread that holds one mutex and wants another is inside a call: that of
\* its callback, or its clear_queues().
LEMMA HoldAndWait ==
    ASSUME IInv, NEW t \in Thread, NEW d \in Direction, NEW e \in Direction,
           held[d][t] > 0, e \in Wants(t)
    PROVE  \/ d = "send"
           \/ t \in IoThread /\ InCallback(t) /\ handler[t].dir = "receive"
<1>1. CASE CallsBack(t, d)
  BY <1>1 DEF CallsBack, Handles, Direction
<1>2. CASE Clears(t, d)
  BY <1>2 DEF Clears, ClearOrder
<1>3. QED BY <1>1, <1>2, HolderOf

\* Threads wait for each other only when one of them wants the send queue out
\* of a receive callback: everybody else takes the mutexes in one order, and a
\* recursive mutex has one holder.
THEOREM CircularWaitHolds == Spec => []CircularWaitNeedsInversion
<1>1. ASSUME IInv PROVE CircularWaitNeedsInversion
  <2> SUFFICES ASSUME NEW t \in Thread, NEW u \in Thread, Blocks(u, t), Blocks(t, u)
               PROVE  \E v \in {t, u} \cap IoThread :
                         InCallback(v) /\ handler[v].dir = "receive" /\ "send" \in Wants(v)
    BY DEF CircularWaitNeedsInversion
  <2>1. PICK d \in Direction : d \in Wants(t) /\ held[d][u] > 0
    BY DEF Blocks, Wants
  <2>2. PICK e \in Direction : e \in Wants(u) /\ held[e][t] > 0
    BY DEF Blocks, Wants
  <2>3. t # u
    BY DEF Blocks
  <2>4. d # e
    BY <1>1, <2>1, <2>2, <2>3 DEF IInv, OneHolder
  <2>5. CASE d = "send" /\ e = "receive"
    BY <1>1, <2>1, <2>2, <2>5, HoldAndWait
  <2>6. CASE d = "receive" /\ e = "send"
    BY <1>1, <2>1, <2>2, <2>6, HoldAndWait
  <2>7. QED
    BY <2>4, <2>5, <2>6 DEF Direction
<1>2. QED
  BY <1>1, InvariantHolds, PTL

-----------------------------------------------------------------------------
(* SocketIoGuard implements RequestQueue in each direction: requests are     *)
(* answered once and in the order of the calls.                              *)
(*                                                                           *)
(* To the invariant above this adds that a request has a name of its own     *)
(* wherever it is (NamesOnce) and which requests of a queue have had their   *)
(* answer: the front one at the most, and that one exactly while its         *)
(* callback runs or after it threw (AnsweredInFront).                        *)

\* t is inside async_send() or async_receive(), before its request is queued.
Issues(t) == call[t].what \in Direction

\* The request a thread is about to queue is nowhere else yet; a queue holds
\* each request once.
NamesOnce ==
    /\ \A t \in Thread : Issues(t) =>
          /\ call[t].req <= issued
          /\ \A u \in Thread \ {t} : Issues(u) => call[u].req # call[t].req
          /\ \A d \in Direction : ~ Listed(call[t].req, deque[d])
                                  /\ ~ Listed(call[t].req, answered[d])
    /\ \A d \in Direction :
          /\ \A i \in DOMAIN deque[d] : deque[d][i] <= issued
          /\ \A i \in DOMAIN answered[d] : answered[d][i] <= issued
          /\ \A i, j \in DOMAIN deque[d] : deque[d][i] = deque[d][j] => i = j

\* Of the queue of d only the front request may have been answered.
FrontOnly(d) == \A i \in DOMAIN deque[d] : Listed(deque[d][i], answered[d]) => i = 1

\* Its operation is not under way any more then, and its callback has begun.
AnsweredInFront(d) ==
    /\ FrontOnly(d)
    /\ inflight[d] # {} => ~ Listed(deque[d][1], answered[d])
    /\ \A t \in IoThread : Handles(t, d) =>
          (InCallback(t) <=> Listed(deque[d][1], answered[d]))

OInv == NamesOnce /\ \A d \in Direction : ~ clearedBusy[d] => AnsweredInFront(d)

\* A step of direction d's queue, as RequestQueue has it, or none.
QueueStep(d) ==
    \/ /\ \E r \in Request :
             /\ ~ Listed(r, Waiting(d)) /\ ~ Listed(r, answered[d])
             /\ Waiting(d)' = Append(Waiting(d), r)
       /\ answered'[d] = answered[d]
    \/ /\ Waiting(d) # << >>
       /\ answered'[d] = Append(answered[d], Head(Waiting(d)))
       /\ Waiting(d)' = Tail(Waiting(d))
    \/ Waiting(d)' = << >> /\ answered'[d] = answered[d]
    \/ Waiting(d)' = Waiting(d) /\ answered'[d] = answered[d]

InOrder == \A d \in Direction : ~ clearedBusy'[d] => QueueStep(d)

-----------------------------------------------------------------------------
(* Facts about sequences of requests *)

\* What is in a queue one request longer, and in its tail.
LEMMA ListedInLonger ==
    ASSUME NEW S, NEW s \in Seq(S), NEW r \in S, NEW x
    PROVE  Listed(x, Append(s, r)) <=> Listed(x, s) \/ x = r
<1>1. /\ DOMAIN Append(s, r) = 1 .. Len(s) + 1 /\ DOMAIN s = 1 .. Len(s)
      /\ Len(s) \in Nat
      /\ \A i \in 1 .. Len(s) : Append(s, r)[i] = s[i]
      /\ Append(s, r)[Len(s) + 1] = r
  OBVIOUS
<1>2. \A i \in 1 .. Len(s) + 1 : i \in 1 .. Len(s) \/ i = Len(s) + 1
  BY <1>1
<1>3. Len(s) + 1 \in 1 .. Len(s) + 1 /\ 1 .. Len(s) \subseteq 1 .. Len(s) + 1
  BY <1>1
<1>4. QED
  BY <1>1, <1>2, <1>3, Zenon DEF Listed

\* The indices of the tail of a queue.
LEMMA TailIndex ==
    ASSUME NEW S, NEW s \in Seq(S), s # << >>, NEW i \in DOMAIN Tail(s)
    PROVE  i \in Nat /\ i > 0 /\ i + 1 \in DOMAIN s /\ Tail(s)[i] = s[i + 1]
<1>1. DOMAIN s = 1 .. Len(s) /\ Len(s) \in Nat /\ Len(s) > 0
  OBVIOUS
<1>2. DOMAIN Tail(s) = 1 .. Len(s) - 1
  BY <1>1
<1>3. QED
  BY <1>1, <1>2

\* The types the proofs below need.
LEMMA QueueTypes ==
    ASSUME IInv, NEW d \in Direction
    PROVE  /\ deque[d] \in Seq(Request) /\ answered[d] \in Seq(Request)
           /\ deque[d] # << >> => /\ 1 \in DOMAIN deque[d]
                                  /\ Head(deque[d]) = deque[d][1]
                                  /\ deque[d][1] \in Request
           /\ issued \in Nat
<1>1. deque[d] \in Seq(Request) /\ answered[d] \in Seq(Request)
  BY DEF IInv, TypeOK
<1>2. issued \in Nat
  BY BoundAssumption DEF IInv, TypeOK
<1>3. QED
  BY <1>1, <1>2

\* A direction whose queue and answers a step leaves alone.
LEMMA SameOrder ==
    ASSUME NEW d \in Direction, deque'[d] = deque[d], answered'[d] = answered[d]
    PROVE  /\ QueueStep(d)
           /\ FrontOnly(d)' <=> FrontOnly(d)
           /\ Listed(deque'[d][1], answered'[d]) <=> Listed(deque[d][1], answered[d])
<1>1. Waiting(d)' = Waiting(d)
  BY DEF Waiting
<1>2. QED
  BY <1>1 DEF QueueStep, FrontOnly

-----------------------------------------------------------------------------
(* One lemma for each action *)

\* A call of async_send() or async_receive() is made: its request gets a name
\* that is new.
LEMMA BeginAsyncOrder ==
    ASSUME IInv, OInv, NEW t \in Thread, NEW d \in Direction, BeginAsync(t, d)
    PROVE  OInv' /\ InOrder
<1> USE DEF bounds, history
<1>1. /\ UNCHANGED <<deque, inflight, handler, answered, clearedBusy>>
      /\ issued' = issued + 1 /\ issued \in Nat
      /\ call' = [call EXCEPT ![t] = [what |-> d, req |-> issued + 1]]
  BY QueueTypes DEF BeginAsync
<1>2. \A e \in Direction : QueueStep(e) /\ (AnsweredInFront(e)' <=> AnsweredInFront(e))
  BY <1>1, SameOrder DEF AnsweredInFront, Handles, InCallback
<1>3. /\ call'[t].req = issued + 1
      /\ \A u \in Thread \ {t} : call'[u] = call[u]
  BY <1>1 DEF IInv, TypeOK
<1>4. ASSUME NEW u \in Thread \ {t}, Issues(u)
      PROVE  call[u].req \in Nat /\ call[u].req <= issued
  BY <1>4, CallType DEF Issues, OInv, NamesOnce, IInv, Request
<1>5. ASSUME NEW e \in Direction
      PROVE  /\ ~ Listed(issued + 1, deque[e]) /\ ~ Listed(issued + 1, answered[e])
             /\ \A i \in DOMAIN deque[e] : deque[e][i] <= issued + 1
             /\ \A i \in DOMAIN answered[e] : answered[e][i] <= issued + 1
  <2>1. /\ \A i \in DOMAIN deque[e] : deque[e][i] \in Nat /\ deque[e][i] <= issued
        /\ \A i \in DOMAIN answered[e] : answered[e][i] \in Nat /\ answered[e][i] <= issued
    <3>1. /\ \A i \in DOMAIN deque[e] : deque[e][i] \in Request
          /\ \A i \in DOMAIN answered[e] : answered[e][i] \in Request
      BY QueueTypes, ElementOfSeq
    <3>2. /\ \A i \in DOMAIN deque[e] : deque[e][i] <= issued
          /\ \A i \in DOMAIN answered[e] : answered[e][i] <= issued
      BY DEF OInv, NamesOnce
    <3>3. \A r \in Request : r \in Nat
      BY DEF Request
    <3>4. QED
      BY <3>1, <3>2, <3>3
  <2>2. QED
    BY <1>1, <2>1 DEF Listed
<1>6. NamesOnce'
  <2>1. ASSUME NEW u \in Thread, Issues(u)'
        PROVE  /\ call'[u].req <= issued'
               /\ \A v \in Thread \ {u} : Issues(v)' => call'[v].req # call'[u].req
               /\ \A e \in Direction : ~ Listed(call'[u].req, deque'[e])
                                       /\ ~ Listed(call'[u].req, answered'[e])
    <3>1. CASE u = t
      <4>1. ASSUME NEW v \in Thread \ {t}, Issues(v)'
            PROVE  call'[v].req # issued + 1
        BY <1>1, <1>3, <1>4, <4>1 DEF Issues
      <4>2. QED
        BY <1>1, <1>3, <1>5, <3>1, <4>1
    <3>2. CASE u # t
      <4>1. Issues(u) /\ call'[u] = call[u]
        BY <1>3, <2>1, <3>2 DEF Issues
      <4>2. call[u].req \in Nat /\ call[u].req <= issued
        BY <1>4, <3>2, <4>1
      <4>3. ASSUME NEW v \in Thread \ {u}, Issues(v)'
            PROVE  call'[v].req # call[u].req
        <5>1. CASE v = t
          BY <1>1, <1>3, <4>2, <5>1
        <5>2. CASE v # t
          BY <1>3, <4>1, <4>3, <5>2 DEF Issues, OInv, NamesOnce
        <5>3. QED BY <5>1, <5>2
      <4>4. QED
        BY <1>1, <4>1, <4>2, <4>3 DEF OInv, NamesOnce
    <3>3. QED BY <3>1, <3>2
  <2>2. QED
    BY <1>1, <1>5, <2>1 DEF NamesOnce, OInv
<1>7. QED
  BY <1>1, <1>2, <1>6 DEF OInv, InOrder

\* A step that changes neither queues nor answers and lets no thread issue a
\* request keeps the names apart.
LEMMA SameNames ==
    ASSUME NamesOnce, UNCHANGED <<deque, answered, issued>>,
           \A u \in Thread : Issues(u)' => Issues(u) /\ call'[u].req = call[u].req
    PROVE  NamesOnce'
<1>1. \A u, v \in Thread :
         Issues(u)' /\ Issues(v)' => /\ Issues(u) /\ call'[u].req = call[u].req
                                     /\ Issues(v) /\ call'[v].req = call[v].req
  OBVIOUS
<1>2. QED
  BY <1>1 DEF NamesOnce

\* A call of clear_queues() is made, or it gets its first lock.
LEMMA CallOrder ==
    ASSUME OInv, NEW t \in Thread,
           UNCHANGED <<deque, inflight, handler, answered, clearedBusy, issued>>,
           call'[t].what = "clear", \A u \in Thread \ {t} : call'[u] = call[u]
    PROVE  OInv' /\ InOrder
<1>1. \A e \in Direction : QueueStep(e) /\ (AnsweredInFront(e)' <=> AnsweredInFront(e))
  BY SameOrder DEF AnsweredInFront, Handles, InCallback
<1>2. \A u \in Thread : Issues(u)' => Issues(u) /\ call'[u].req = call[u].req
  BY DEF Issues, Direction
<1>3. NamesOnce'
  BY <1>2, SameNames DEF OInv
<1>4. QED
  BY <1>1, <1>3 DEF OInv, InOrder

\* A request is pushed: it waits behind those that wait already.
LEMMA AsyncOrder ==
    ASSUME IInv, OInv, NEW t \in Thread, NEW d \in Direction, Async(t, d)
    PROVE  OInv' /\ InOrder
<1> USE DEF bounds, history
<1> DEFINE r == call[t].req
           s == deque[d]
           a == answered[d]
<1>1. /\ r \in Request /\ s \in Seq(Request) /\ a \in Seq(Request)
      /\ s # << >> => s[1] \in Request /\ Head(s) = s[1]
      /\ UNCHANGED <<handler, answered, issued, clearedBusy>>
      /\ deque' = [deque EXCEPT ![d] = Append(s, r)]
      /\ inflight'[d] = inflight[d] \cup Starts(Append(s, r))
      /\ \A e \in Direction \ {d} : inflight'[e] = inflight[e]
      /\ call' = [call EXCEPT ![t] = NoCall]
  BY CallType, QueueTypes DEF Async, IInv, TypeOK
<1>2. Issues(t) /\ ~ Listed(r, s) /\ ~ Listed(r, a) /\ r <= issued
  BY DEF Async, Issues, OInv, NamesOnce
<1>3. deque'[d] = Append(s, r) /\ answered'[d] = a
  BY <1>1 DEF IInv, TypeOK
<1>4. ASSUME NEW e \in Direction \ {d}
      PROVE  QueueStep(e) /\ (AnsweredInFront(e)' <=> AnsweredInFront(e))
  <2>1. deque'[e] = deque[e] /\ answered'[e] = answered[e] /\ inflight'[e] = inflight[e]
    BY <1>1 DEF IInv, TypeOK
  <2>2. QED
    BY <1>1, <2>1, SameOrder DEF AnsweredInFront, Handles, InCallback
<1>5. /\ s = << >> => Append(s, r)[1] = r /\ Head(Append(s, r)) = r /\ Tail(Append(s, r)) = << >>
      /\ s # << >> => /\ Append(s, r)[1] = s[1] /\ Head(Append(s, r)) = s[1]
                      /\ Tail(Append(s, r)) = Append(Tail(s), r)
                      /\ Starts(Append(s, r)) = {}
      /\ Append(s, r) # << >>
  <2>1. ASSUME s = << >>
        PROVE  Append(s, r)[1] = r /\ Head(Append(s, r)) = r /\ Tail(Append(s, r)) = << >>
    <3>1. Append(s, r) = <<r>>
      BY <1>1, <2>1
    <3>2. QED BY <3>1
  <2>2. ASSUME s # << >>
        PROVE  /\ Append(s, r)[1] = s[1] /\ Head(Append(s, r)) = s[1]
               /\ Tail(Append(s, r)) = Append(Tail(s), r)
               /\ Starts(Append(s, r)) = {}
    <3>1. Len(s) \in Nat /\ Len(s) > 0 /\ Len(Append(s, r)) # 1
      BY <1>1, <2>2
    <3>2. Tail(Append(s, r)) = Append(Tail(s), r)
      BY <1>1, <3>1
    <3>3. QED
      BY <1>1, <3>1, <3>2 DEF Starts
  <2>3. QED
    BY <1>1, <2>1, <2>2
<1>6. QueueStep(d)
  <2>1. Waiting(d)' = Append(Waiting(d), r)
    <3>1. CASE s = << >>
      BY <1>1, <1>2, <1>3, <1>5, <3>1 DEF Waiting
    <3>2. CASE s # << >>
      BY <1>1, <1>3, <1>5, <3>2 DEF Waiting
    <3>3. QED BY <3>1, <3>2
  <2>2. ~ Listed(r, Waiting(d))
    <3>1. CASE Waiting(d) = s
      BY <1>2, <3>1
    <3>2. CASE s # << >> /\ Waiting(d) = Tail(s)
      BY <1>1, <1>2, <3>2, TailIndex DEF Listed
    <3>3. QED BY <3>1, <3>2 DEF Waiting
  <2>3. QED
    BY <1>1, <1>2, <1>3, <2>1, <2>2 DEF QueueStep
<1>7. ASSUME ~ clearedBusy[d] PROVE AnsweredInFront(d)'
  <2>1. AnsweredInFront(d) /\ OperatesOnFront(d)
    BY <1>7 DEF OInv, IInv, OneOperation
  <2>2. FrontOnly(d)'
    <3> SUFFICES ASSUME NEW i \in DOMAIN Append(s, r), Listed(Append(s, r)[i], a)
                 PROVE  i = 1
      BY <1>3 DEF FrontOnly
    <3>1. \/ i \in DOMAIN s /\ Append(s, r)[i] = s[i]
          \/ Append(s, r)[i] = r
      BY <1>1
    <3>2. QED
      BY <1>2, <2>1, <3>1 DEF AnsweredInFront, FrontOnly
  <2>3. CASE s = << >>
    <3>1. \A u \in IoThread : ~ Handles(u, d)
      BY <2>1, <2>3 DEF OperatesOnFront
    <3>2. QED
      BY <1>1, <1>2, <1>3, <1>5, <2>2, <2>3, <3>1 DEF AnsweredInFront, Handles
  <2>4. CASE s # << >>
    <3>1. inflight'[d] = inflight[d] /\ deque'[d][1] = s[1]
      BY <1>1, <1>3, <1>5, <2>4
    <3>2. QED
      BY <1>1, <1>3, <2>1, <2>2, <3>1 DEF AnsweredInFront, Handles, InCallback
  <2>5. QED BY <2>3, <2>4
<1>8. NamesOnce'
  <2>1. ASSUME NEW u \in Thread, Issues(u)'
        PROVE  u # t /\ Issues(u) /\ call'[u] = call[u] /\ call[u].req # r
    <3>1. u # t
      BY <1>1, <2>1 DEF Issues, NoCall, Direction, IInv, TypeOK
    <3>2. Issues(u) /\ call'[u] = call[u]
      BY <1>1, <2>1, <3>1 DEF Issues, IInv, TypeOK
    <3>3. QED
      BY <1>2, <3>1, <3>2 DEF OInv, NamesOnce
  <2>2. ASSUME NEW e \in Direction, NEW x
        PROVE  Listed(x, deque'[e]) => Listed(x, deque[e]) \/ x = r
    <3>1. CASE e = d
      BY <1>1, <1>3, <3>1, ListedInLonger
    <3>2. CASE e # d
      BY <1>1, <3>2 DEF IInv, TypeOK
    <3>3. QED BY <3>1, <3>2
  <2>3. ASSUME NEW u \in Thread, Issues(u)'
        PROVE  /\ call'[u].req <= issued'
               /\ \A v \in Thread \ {u} : Issues(v)' => call'[v].req # call'[u].req
               /\ \A e \in Direction : ~ Listed(call'[u].req, deque'[e])
                                       /\ ~ Listed(call'[u].req, answered'[e])
    <3>1. u # t /\ Issues(u) /\ call'[u] = call[u] /\ call[u].req # r
      BY <2>1, <2>3
    <3>2. ASSUME NEW v \in Thread \ {u}, Issues(v)'
          PROVE  call'[v].req # call'[u].req
      BY <2>1, <3>1, <3>2 DEF OInv, NamesOnce
    <3>3. QED
      BY <1>1, <2>2, <3>1, <3>2 DEF OInv, NamesOnce
  <2>4. ASSUME NEW e \in Direction
        PROVE  /\ \A i \in DOMAIN deque'[e] : deque'[e][i] <= issued'
               /\ \A i \in DOMAIN answered'[e] : answered'[e][i] <= issued'
               /\ \A i, j \in DOMAIN deque'[e] : deque'[e][i] = deque'[e][j] => i = j
    <3>1. CASE e = d
      <4>1. ASSUME NEW i \in DOMAIN Append(s, r)
            PROVE  \/ i \in DOMAIN s /\ Append(s, r)[i] = s[i]
                   \/ i = Len(s) + 1 /\ Append(s, r)[i] = r
        BY <1>1
      <4>2. /\ \A i \in DOMAIN s : s[i] <= issued /\ s[i] # r
            /\ \A i, j \in DOMAIN s : s[i] = s[j] => i = j
        BY <1>2 DEF OInv, NamesOnce, Listed
      <4>3. \A i, j \in DOMAIN Append(s, r) : Append(s, r)[i] = Append(s, r)[j] => i = j
        BY <4>1, <4>2
      <4>4. \A i \in DOMAIN Append(s, r) : Append(s, r)[i] <= issued
        BY <1>2, <4>1, <4>2
      <4>5. QED
        BY <1>1, <1>3, <3>1, <4>3, <4>4 DEF OInv, NamesOnce
    <3>2. CASE e # d
      BY <1>1, <3>2 DEF OInv, NamesOnce, IInv, TypeOK
    <3>3. QED BY <3>1, <3>2
  <2>5. QED
    BY <2>3, <2>4 DEF NamesOnce
<1>9. QED
  BY <1>1, <1>4, <1>6, <1>7, <1>8 DEF OInv, InOrder

\* clear_queues() forgets the requests that wait.
LEMMA ClearOrderKept ==
    ASSUME IInv, OInv, NEW t \in Thread,
           deque' = [d \in Direction |-> << >>],
           clearedBusy' = [d \in Direction |-> clearedBusy[d] \/ Busy(d)],
           call' = [call EXCEPT ![t] = NoCall],
           UNCHANGED <<inflight, handler, bounds, answered>>
    PROVE  OInv' /\ InOrder
<1> USE DEF bounds
<1>1. ASSUME NEW d \in Direction, ~ clearedBusy'[d]
      PROVE  AnsweredInFront(d)' /\ QueueStep(d)
  <2>1. ~ Busy(d)
    BY <1>1
  <2>2. deque'[d] = << >> /\ inflight'[d] = {} /\ \A u \in IoThread : ~ Handles(u, d)'
    BY <2>1 DEF Busy, Handles
  <2>3. AnsweredInFront(d)'
    BY <2>2 DEF AnsweredInFront, FrontOnly
  <2>4. Waiting(d)' = << >>
    BY <2>2 DEF Waiting
  <2>5. QED
    BY <2>3, <2>4 DEF QueueStep
<1>2. \A u \in Thread : Issues(u)' => Issues(u) /\ call'[u].req = call[u].req
  BY DEF Issues, NoCall, Direction, IInv, TypeOK
<1>3. \A d \in Direction : deque'[d] = << >>
  OBVIOUS
<1>4. \A d \in Direction : \A x : ~ Listed(x, deque'[d])
  BY <1>3 DEF Listed
<1>5. NamesOnce'
  <2>1. \A u, v \in Thread :
           Issues(u)' /\ Issues(v)' => /\ Issues(u) /\ call'[u].req = call[u].req
                                       /\ Issues(v) /\ call'[v].req = call[v].req
    BY <1>2
  <2>2. QED
    BY <1>3, <1>4, <2>1 DEF OInv, NamesOnce
<1>6. QED
  BY <1>1, <1>5 DEF OInv, InOrder

\* The io_context hands an operation to a thread: its callback has not begun.
LEMMA CompleteOrder ==
    ASSUME IInv, OInv, NEW t \in IoThread, NEW d \in Direction, Complete(t, d)
    PROVE  OInv' /\ InOrder
<1> USE DEF bounds, history
<1>1. PICK r \in inflight[d], result \in BOOLEAN :
         /\ inflight' = [inflight EXCEPT ![d] = @ \ {r}]
         /\ handler' = [handler EXCEPT ![t] =
               [at |-> "arrived", dir |-> d, req |-> r, result |-> result]]
  BY DEF Complete
<1>2. /\ UNCHANGED <<deque, answered, clearedBusy, issued, call>>
      /\ handler[t] = Idle
  BY DEF Complete
<1>3. /\ handler'[t].at = "arrived" /\ handler'[t].dir = d /\ handler'[t] # Idle
      /\ \A u \in IoThread \ {t} : handler'[u] = handler[u]
  BY <1>1 DEF IInv, TypeOK, Idle
<1>4. NamesOnce'
  BY <1>2, SameNames DEF OInv, Issues
<1>5. ASSUME NEW e \in Direction, ~ clearedBusy[e]
      PROVE  AnsweredInFront(e)'
  <2>1. AnsweredInFront(e)
    BY <1>5 DEF OInv
  <2>2. CASE e # d
    <3>1. \A u \in IoThread :
             /\ Handles(u, e)' <=> Handles(u, e)
             /\ Handles(u, e) => (InCallback(u)' <=> InCallback(u))
      BY <1>2, <1>3, <2>2 DEF Handles, InCallback
    <3>2. inflight'[e] = inflight[e]
      BY <1>1, <2>2 DEF IInv, TypeOK
    <3>3. QED
      BY <1>2, <2>1, <3>1, <3>2 DEF AnsweredInFront, FrontOnly
  <2>3. CASE e = d
    <3>1. OperatesOnFront(d)
      BY <1>5, <2>3 DEF IInv, OneOperation
    <3>2. ~ Listed(deque[d][1], answered[d])
      BY <2>1, <2>3 DEF AnsweredInFront
    <3>3. inflight'[d] = {}
      BY <1>1, <3>1 DEF OperatesOnFront, IInv, TypeOK
    <3>4. \A u \in IoThread : Handles(u, d)' => u = t
      BY <1>3, <3>1 DEF OperatesOnFront, Handles
    <3>5. ~ InCallback(t)'
      BY <1>3 DEF InCallback
    <3>6. QED
      BY <1>2, <2>1, <2>3, <3>2, <3>3, <3>4, <3>5 DEF AnsweredInFront, FrontOnly
  <2>4. QED BY <2>2, <2>3
<1>6. QED
  BY <1>2, <1>4, <1>5, SameOrder DEF OInv, InOrder

\* The callback of the front request begins: the answer to the request that
\* has waited longest.
LEMMA EnterOrder ==
    ASSUME IInv, OInv, NEW t \in IoThread, EnterCallback(t)
    PROVE  OInv' /\ InOrder
<1> USE DEF bounds, history
<1>0. PICK d \in Direction : handler[t].dir = d
  BY HandlerType, NotIdle DEF EnterCallback, IInv
<1>1. /\ handler[t].at = "arrived" /\ handler[t] # Idle /\ handler[t].dir = d
      /\ Handles(t, d) /\ ~ InCallback(t)
      /\ UNCHANGED <<deque, inflight, call, issued, clearedBusy>>
  BY <1>0, NotIdle DEF EnterCallback, InCallback, Handles, IInv
<1>2. CASE deque[d] = << >>
  <2>1. UNCHANGED <<handler, answered>>
    BY <1>1, <1>2 DEF EnterCallback
  <2>2. NamesOnce'
    BY <1>1, <2>1, SameNames DEF OInv, Issues
  <2>3. \A e \in Direction : AnsweredInFront(e)' <=> AnsweredInFront(e)
    BY <1>1, <2>1 DEF AnsweredInFront, FrontOnly, Handles, InCallback
  <2>4. QED
    BY <1>1, <2>1, <2>2, <2>3, SameOrder DEF OInv, InOrder
<1>3. CASE deque[d] # << >>
  <2> DEFINE s == deque[d]
             a == answered[d]
  <2>1. /\ handler' = [handler EXCEPT ![t].at = "callback"]
        /\ answered' = [answered EXCEPT ![d] = Append(a, Head(s))]
    BY <1>1, <1>3 DEF EnterCallback, IInv, TypeOK
  <2>2. /\ s \in Seq(Request) /\ a \in Seq(Request)
        /\ 1 \in DOMAIN s /\ Head(s) = s[1] /\ s[1] \in Request
    BY <1>1, <1>3, QueueTypes
  <2>3. /\ answered'[d] = Append(a, s[1])
        /\ \A e \in Direction \ {d} : answered'[e] = answered[e]
    BY <1>1, <2>1, <2>2 DEF IInv, TypeOK
  <2>4. \A x : Listed(x, Append(a, s[1])) <=> Listed(x, a) \/ x = s[1]
    BY <2>2, ListedInLonger
  <2>5. /\ handler'[t].at = "callback" /\ handler'[t].dir = d
        /\ \A u \in IoThread \ {t} : handler'[u] = handler[u]
    BY <1>1, <2>1 DEF IInv, TypeOK
  <2>6. handler'[t] # Idle
    BY <2>5 DEF Idle
  <2>7. ASSUME NEW e \in Direction, ~ clearedBusy[e]
        PROVE  AnsweredInFront(e)' /\ QueueStep(e)
    <3>1. AnsweredInFront(e) /\ OperatesOnFront(e)
      BY <2>7 DEF OInv, IInv, OneOperation
    <3>2. CASE e # d
      <4>1. \A u \in IoThread :
               /\ Handles(u, e)' <=> Handles(u, e)
               /\ Handles(u, e) => (InCallback(u)' <=> InCallback(u))
        BY <1>1, <2>5, <2>6, <3>2 DEF Handles, InCallback
      <4>2. AnsweredInFront(e)'
        BY <1>1, <2>3, <3>1, <3>2, <4>1 DEF AnsweredInFront, FrontOnly
      <4>3. QED
        BY <1>1, <2>3, <3>2, <4>2, SameOrder
    <3>3. CASE e = d
      <4>1. ~ Listed(s[1], a)
        BY <1>1, <3>1, <3>3 DEF AnsweredInFront
      <4>2. inflight[d] = {} /\ \A u \in IoThread \ {t} : ~ Handles(u, d)
        BY <1>1, <3>1, <3>3 DEF OperatesOnFront
      <4>3. FrontOnly(d)'
        BY <1>1, <2>2, <2>3, <2>4, <3>1, <3>3 DEF AnsweredInFront, FrontOnly, OInv, NamesOnce
      <4>4. InCallback(t)' /\ \A u \in IoThread : Handles(u, d)' => u = t
        BY <2>5, <4>2 DEF InCallback, Handles
      <4>5. Listed(deque'[d][1], answered'[d])
        BY <1>1, <2>3, <2>4
      <4>6. AnsweredInFront(d)'
        BY <1>1, <4>2, <4>3, <4>4, <4>5 DEF AnsweredInFront
      <4>7. Waiting(d) = s /\ Waiting(d)' = Tail(s)
        BY <1>1, <1>3, <2>2, <2>3, <4>1, <4>5 DEF Waiting
      <4>8. QueueStep(d)
        BY <1>3, <2>2, <2>3, <4>7 DEF QueueStep
      <4>9. QED
        BY <3>3, <4>6, <4>8
    <3>4. QED BY <3>2, <3>3
  <2>8. NamesOnce'
    <3>1. ASSUME NEW e \in Direction, NEW x
          PROVE  Listed(x, answered'[e]) => Listed(x, answered[e]) \/ x = s[1]
      BY <2>3, <2>4
    <3>2. Listed(s[1], s) /\ s[1] <= issued
      BY <1>1, <2>2 DEF Listed, OInv, NamesOnce
    <3>3. ASSUME NEW u \in Thread, Issues(u)'
          PROVE  /\ call'[u].req <= issued'
                 /\ \A v \in Thread \ {u} : Issues(v)' => call'[v].req # call'[u].req
                 /\ \A e \in Direction : ~ Listed(call'[u].req, deque'[e])
                                         /\ ~ Listed(call'[u].req, answered'[e])
      <4>1. Issues(u) /\ ~ Listed(call[u].req, s)
        BY <1>1, <3>3 DEF Issues, OInv, NamesOnce
      <4>2. QED
        BY <1>1, <3>1, <3>2, <4>1 DEF Issues, OInv, NamesOnce
    <3>4. ASSUME NEW e \in Direction
          PROVE  \A i \in DOMAIN answered'[e] : answered'[e][i] <= issued'
      <4>1. \A i \in DOMAIN answered[e] : answered[e][i] <= issued
        BY DEF OInv, NamesOnce
      <4>2. \A i \in DOMAIN answered'[e] : Listed(answered'[e][i], answered'[e])
        BY DEF Listed
      <4>3. \A x : Listed(x, answered[e]) => x <= issued
        BY <4>1 DEF Listed
      <4>4. QED
        BY <1>1, <3>1, <3>2, <4>2, <4>3
    <3>5. QED
      BY <1>1, <3>3, <3>4 DEF OInv, NamesOnce
  <2>9. QED
    BY <1>1, <2>7, <2>8 DEF OInv, InOrder
<1>4. QED BY <1>2, <1>3

\* The callback returns: what is popped has its answer, what is left has none.
LEMMA ReturnOrder ==
    ASSUME IInv, OInv, NEW t \in IoThread, CallbackReturns(t)
    PROVE  OInv' /\ InOrder
<1> USE DEF bounds, history
<1>0. PICK d \in Direction : handler[t].dir = d
  BY HandlerType, NotIdle DEF CallbackReturns, InCallback, IInv
<1>1. /\ InCallback(t) /\ handler[t] # Idle /\ handler[t].dir = d /\ Handles(t, d)
      /\ UNCHANGED <<call, issued, answered, clearedBusy>>
  BY <1>0, NotIdle DEF CallbackReturns, InCallback, Handles, IInv
<1>2. CASE deque[d] = << >>
  <2>1. UNCHANGED <<deque, handler, inflight>>
    BY <1>1, <1>2 DEF CallbackReturns
  <2>2. NamesOnce'
    BY <1>1, <2>1, SameNames DEF OInv, Issues
  <2>3. \A e \in Direction : AnsweredInFront(e)' <=> AnsweredInFront(e)
    BY <1>1, <2>1 DEF AnsweredInFront, FrontOnly, Handles, InCallback
  <2>4. QED
    BY <1>1, <2>1, <2>2, <2>3, SameOrder DEF OInv, InOrder
<1>3. CASE deque[d] # << >>
  <2> DEFINE s == deque[d]
             rest == Tail(s)
             next == Pumps(rest, handler[t].result)
  <2>1. /\ deque' = [deque EXCEPT ![d] = rest]
        /\ inflight' = [inflight EXCEPT ![d] = @ \cup next]
        /\ handler' = [handler EXCEPT ![t] = Idle]
    BY <1>1, <1>3 DEF CallbackReturns
  <2>2. s \in Seq(Request) /\ Head(s) = s[1] /\ 1 \in DOMAIN s
    BY <1>1, <1>3, QueueTypes
  <2>3. /\ deque'[d] = rest /\ inflight'[d] = inflight[d] \cup next
        /\ \A e \in Direction \ {d} : deque'[e] = deque[e] /\ inflight'[e] = inflight[e]
    BY <1>1, <2>1 DEF IInv, TypeOK
  <2>4. \A u \in IoThread : u # t => handler'[u] = handler[u]
    BY <2>1 DEF IInv, TypeOK
  <2>5. handler'[t] = Idle
    BY <2>1 DEF IInv, TypeOK
  <2>6. ASSUME NEW i \in DOMAIN rest
        PROVE  i \in Nat /\ i > 0 /\ i + 1 \in DOMAIN s /\ rest[i] = s[i + 1]
    BY <1>3, <2>2, TailIndex
  <2>7. ASSUME NEW e \in Direction, ~ clearedBusy[e]
        PROVE  AnsweredInFront(e)' /\ QueueStep(e)
    <3>1. AnsweredInFront(e) /\ OperatesOnFront(e)
      BY <2>7 DEF OInv, IInv, OneOperation
    <3>2. CASE e # d
      <4>1. \A u \in IoThread :
               /\ Handles(u, e)' <=> Handles(u, e)
               /\ Handles(u, e) => (InCallback(u)' <=> InCallback(u))
        BY <1>1, <2>4, <2>5, <3>2 DEF Handles, InCallback
      <4>2. AnsweredInFront(e)'
        BY <1>1, <2>3, <3>1, <3>2, <4>1 DEF AnsweredInFront, FrontOnly
      <4>3. QED
        BY <1>1, <2>3, <3>2, <4>2, SameOrder
    <3>3. CASE e = d
      <4>1. Listed(s[1], answered[d])
        BY <1>1, <3>1, <3>3 DEF AnsweredInFront
      <4>2. inflight[d] = {} /\ \A u \in IoThread \ {t} : ~ Handles(u, d)
        BY <1>1, <3>1, <3>3 DEF OperatesOnFront
      <4>3. \A u \in IoThread : ~ Handles(u, d)'
        BY <2>4, <2>5, <4>2 DEF Handles
      <4>4. \A i \in DOMAIN rest : ~ Listed(rest[i], answered[d])
        BY <2>6, <3>1, <3>3 DEF AnsweredInFront, FrontOnly
      <4>5. rest # << >> => 1 \in DOMAIN rest /\ Head(rest) = rest[1]
        BY <2>2, <1>3
      <4>6. next # {} => rest # << >>
        BY DEF Pumps
      <4>7. AnsweredInFront(d)'
        BY <1>1, <2>3, <4>2, <4>3, <4>4, <4>5, <4>6 DEF AnsweredInFront, FrontOnly
      <4>8. Waiting(d) = rest /\ Waiting(d)' = rest
        BY <1>1, <1>3, <2>2, <2>3, <4>1, <4>4, <4>5 DEF Waiting
      <4>9. QED
        BY <1>1, <3>3, <4>7, <4>8 DEF QueueStep
    <3>4. QED BY <3>2, <3>3
  <2>8. NamesOnce'
    <3>1. ASSUME NEW e \in Direction, NEW x
          PROVE  Listed(x, deque'[e]) => Listed(x, deque[e])
      <4>1. CASE e = d
        BY <2>3, <2>6, <4>1 DEF Listed
      <4>2. CASE e # d
        BY <2>3, <4>2
      <4>3. QED BY <4>1, <4>2
    <3>2. ASSUME NEW u \in Thread, Issues(u)'
          PROVE  /\ call'[u].req <= issued'
                 /\ \A v \in Thread \ {u} : Issues(v)' => call'[v].req # call'[u].req
                 /\ \A e \in Direction : ~ Listed(call'[u].req, deque'[e])
                                         /\ ~ Listed(call'[u].req, answered'[e])
      BY <1>1, <3>1, <3>2 DEF Issues, OInv, NamesOnce
    <3>3. ASSUME NEW e \in Direction
          PROVE  /\ \A i \in DOMAIN deque'[e] : deque'[e][i] <= issued'
                 /\ \A i, j \in DOMAIN deque'[e] : deque'[e][i] = deque'[e][j] => i = j
      <4>1. CASE e = d
        <5>1. /\ \A i \in DOMAIN s : s[i] <= issued
              /\ \A i, j \in DOMAIN s : s[i] = s[j] => i = j
          BY <1>1 DEF OInv, NamesOnce
        <5>2. \A i, j \in DOMAIN rest : rest[i] = rest[j] => i = j
          BY <2>6, <5>1
        <5>3. \A i \in DOMAIN rest : rest[i] <= issued
          BY <2>6, <5>1
        <5>4. deque'[e] = rest /\ issued' = issued
          BY <1>1, <2>3, <4>1
        <5> HIDE DEF rest
        <5>5. QED
          BY <5>2, <5>3, <5>4
      <4>2. CASE e # d
        BY <1>1, <2>3, <4>2 DEF OInv, NamesOnce
      <4>3. QED BY <4>1, <4>2
    <3>4. QED
      BY <1>1, <3>2, <3>3 DEF OInv, NamesOnce
  <2>9. QED
    BY <1>1, <2>7, <2>8 DEF OInv, InOrder
<1>4. QED BY <1>2, <1>3

\* The callback throws: its request keeps the front, and has its answer.
LEMMA ThrowOrder ==
    ASSUME IInv, OInv, NEW t \in IoThread, CallbackThrows(t)
    PROVE  OInv' /\ InOrder
<1> USE DEF bounds, history
<1>1. /\ UNCHANGED <<deque, inflight, call, answered, clearedBusy, issued>>
      /\ handler' = [handler EXCEPT ![t] = Idle]
  BY DEF CallbackThrows
<1>2. NamesOnce'
  BY <1>1, SameNames DEF OInv, Issues
<1>3. \A u \in IoThread, e \in Direction :
         Handles(u, e)' => handler'[u] = handler[u] /\ Handles(u, e)
  BY <1>1 DEF Handles, IInv, TypeOK
<1>4. \A e \in Direction : AnsweredInFront(e) => AnsweredInFront(e)'
  BY <1>1, <1>3 DEF AnsweredInFront, FrontOnly, InCallback
<1>5. QED
  BY <1>1, <1>2, <1>4, SameOrder DEF OInv, InOrder

-----------------------------------------------------------------------------
(* The order of the answers *)

\* No request is named before the first call.
LEMMA InitOrder == Init => OInv
<1> SUFFICES ASSUME Init PROVE OInv
    OBVIOUS
<1>1. \A t \in Thread : ~ Issues(t)
  BY DEF Init, Issues, NoCall, Direction
<1>2. \A d \in Direction : deque[d] = << >> /\ answered[d] = << >>
  BY DEF Init
<1>3. NamesOnce
  BY <1>1, <1>2 DEF NamesOnce
<1>4. \A d \in Direction : AnsweredInFront(d)
  BY <1>2 DEF Init, AnsweredInFront, FrontOnly, Handles
<1>5. QED
  BY <1>3, <1>4 DEF OInv

\* Every step keeps the names apart, the answered request in front, and the
\* order of the answers.
LEMMA StepOrder == IInv /\ OInv /\ [Next]_vars => OInv' /\ InOrder
<1> SUFFICES ASSUME IInv, OInv, [Next]_vars PROVE OInv' /\ InOrder
    OBVIOUS
<1>1. CASE Next
  <2>1. PICK t \in Thread :
           \/ \E d \in Direction : BeginAsync(t, d)
           \/ BeginClear(t)
           \/ \E d \in Direction : t \in IoThread /\ Complete(t, d)
           \/ t \in IoThread /\ CallbackThrows(t)
           \/ Run(t)
    BY <1>1 DEF Next
  <2>2. CASE \E d \in Direction : BeginAsync(t, d)
    BY <2>2, BeginAsyncOrder
  <2>3. CASE BeginClear(t)
    <3>1. call'[t].what = "clear" /\ \A u \in Thread \ {t} : call'[u] = call[u]
      BY <2>3 DEF BeginClear, IInv, TypeOK
    <3>2. QED
      BY <2>3, <3>1, CallOrder DEF BeginClear, history
  <2>4. CASE \E d \in Direction : t \in IoThread /\ Complete(t, d)
    BY <2>4, CompleteOrder
  <2>5. CASE t \in IoThread /\ CallbackThrows(t)
    BY <2>5, ThrowOrder
  <2>6. CASE \E d \in Direction : Async(t, d)
    BY <2>6, AsyncOrder
  <2>7. CASE ClearQueues(t)
    <3>1. CASE call' = [call EXCEPT ![t].lock = 2] /\ call[t] = [what |-> "clear", lock |-> 1]
               /\ UNCHANGED <<deque, inflight, handler, bounds, broken, history>>
      <4>1. call'[t].what = "clear" /\ \A u \in Thread \ {t} : call'[u] = call[u]
        BY <3>1 DEF IInv, TypeOK
      <4>2. QED
        BY <3>1, <4>1, CallOrder DEF bounds, history
    <3>2. CASE /\ deque' = [d \in Direction |-> << >>]
               /\ clearedBusy' = [d \in Direction |-> clearedBusy[d] \/ Busy(d)]
               /\ call' = [call EXCEPT ![t] = NoCall]
               /\ UNCHANGED <<inflight, handler, bounds, answered>>
      BY <3>2, ClearOrderKept
    <3>3. QED
      BY <2>7, <3>1, <3>2 DEF ClearQueues
  <2>8. CASE t \in IoThread /\ EnterCallback(t)
    BY <2>8, EnterOrder
  <2>9. CASE t \in IoThread /\ CallbackReturns(t)
    BY <2>9, ReturnOrder
  <2>10. QED
    BY <2>1, <2>2, <2>3, <2>4, <2>5, <2>6, <2>7, <2>8, <2>9 DEF Run
<1>2. CASE UNCHANGED vars
  <2> USE <1>2 DEF vars, bounds, history
  <2>1. NamesOnce'
    BY SameNames DEF OInv, Issues
  <2>2. \A e \in Direction : QueueStep(e) /\ (AnsweredInFront(e)' <=> AnsweredInFront(e))
    BY SameOrder DEF AnsweredInFront, Handles, InCallback
  <2>3. QED
    BY <2>1, <2>2 DEF OInv, InOrder
<1>3. QED BY <1>1, <1>2

\* A queue step is a step of the request queue that the direction implements.
LEMMA QueueStepRefines ==
    /\ QueueStep("send") => [SendQueue!RQNext]_<<Waiting("send"), answered["send"]>>
    /\ QueueStep("receive") =>
          [ReceiveQueue!RQNext]_<<Waiting("receive"), answered["receive"]>>
<1>1. QueueStep("send") => [SendQueue!RQNext]_<<Waiting("send"), answered["send"]>>
  BY DEF QueueStep, Listed, SendQueue!RQNext, SendQueue!Submit, SendQueue!Answer,
         SendQueue!Forget
<1>2. QueueStep("receive") => [ReceiveQueue!RQNext]_<<
            Waiting("receive"), answered["receive"]>>
  BY DEF QueueStep, Listed, ReceiveQueue!RQNext, ReceiveQueue!Submit, ReceiveQueue!Answer,
         ReceiveQueue!Forget
<1>3. QED BY <1>1, <1>2

\* Each direction answers its requests once and in the order of the calls,
\* until it is cleared while it is busy: whatever the callbacks do, however
\* many threads run the io_context, and also after operations failed or
\* callbacks threw.
THEOREM AnswersInOrderHolds == Spec => AnswersInOrder
<1>1. Init => IInv /\ OInv
  BY InitInvariant, InitOrder
<1>2. IInv /\ OInv /\ [Next]_vars => (IInv /\ OInv)'
  BY StepInvariant, StepOrder
<1>3. IInv /\ OInv /\ [Next]_vars =>
         /\ [clearedBusy'["send"] \/ SendQueue!RQNext]_<<Waiting("send"), answered["send"]>>
         /\ [clearedBusy'["receive"] \/ ReceiveQueue!RQNext]_<<
                Waiting("receive"), answered["receive"]>>
  <2>1. "send" \in Direction /\ "receive" \in Direction
    BY DEF Direction
  <2>2. QED
    BY <2>1, StepOrder, QueueStepRefines DEF InOrder
<1>4. QED
  BY <1>1, <1>2, <1>3, PTL DEF Spec, AnswersInOrder

=============================================================================
