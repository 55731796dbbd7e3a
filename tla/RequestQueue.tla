---------------------------- MODULE RequestQueue ----------------------------
(***************************************************************************)
(* What socket_io_guard promises for each direction of its socket: calls   *)
(* queue their requests, and the requests still waiting are answered one   *)
(* by one in the order of the calls.  A queue that is cleared forgets the  *)
(* requests that wait.                                                     *)
(***************************************************************************)
EXTENDS Sequences

CONSTANT Request

VARIABLES
    waiting,     \* the requests queued and not yet answered, oldest first
    answered     \* the requests whose callback has been called, oldest first

RQInit == waiting = << >> /\ answered = << >>

Submit(r) ==
    /\ \A i \in DOMAIN waiting : waiting[i] # r
    /\ \A i \in DOMAIN answered : answered[i] # r
    /\ waiting' = Append(waiting, r)
    /\ UNCHANGED answered

Answer ==
    /\ waiting # << >>
    /\ answered' = Append(answered, Head(waiting))
    /\ waiting' = Tail(waiting)

Forget == waiting' = << >> /\ UNCHANGED answered

RQNext == (\E r \in Request : Submit(r)) \/ Answer \/ Forget

RQSpec == RQInit /\ [][RQNext]_<<waiting, answered>>

=============================================================================
