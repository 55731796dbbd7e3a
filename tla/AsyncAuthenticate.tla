------------------------- MODULE AsyncAuthenticate -------------------------
(***************************************************************************)
(* affix_base::networking::async_authenticate and its two halves           *)
(* (async_authenticate*.cpp): two peers on one connection prove to each    *)
(* other that they own a key pair.  A peer authenticates its remote (sends *)
(* a seed of its own, receives the seed back, signed) and itself (receives *)
(* a seed, sends it back signed), in the order it was told.                *)
(*                                                                         *)
(* The requests go through a socket_io_guard, which keeps its promise here *)
(* (SocketIoGuard): requests of a direction are answered in order, whole   *)
(* messages arrive in order.  Everything runs in the callbacks of the      *)
(* requests.  When its callback was told the answer a peer may begin       *)
(* another attempt on the same connection, with a new seed; what the       *)
(* earlier ones left in the stream is still there.                         *)
(***************************************************************************)
EXTENDS Naturals, Sequences

CONSTANTS
    Peer,           \* the two ends of the connection
    CountSize,      \* values of m_authentication_count (a size_t)
    Orders,         \* Orders[p]: the values p may give a_authenticate_remote_first
    Sizes,          \* the sizes of the seeds
    MaxAttempts,    \* bound on the attempts of each peer
    MayFail         \* whether the connection may be lost and signing may throw

ASSUME PeerAssumption == \E p, q \in Peer : p # q /\ Peer = {p, q}
ASSUME CountAssumption == CountSize \in Nat /\ CountSize > 3
ASSUME ConfigAssumption ==
    /\ Orders \in [Peer -> SUBSET BOOLEAN]
    /\ Sizes \subseteq Nat
    /\ MaxAttempts \in Nat
    /\ MayFail \in BOOLEAN

Other(p) == CHOOSE q \in Peer : q # p

\* A random seed: no two are equal.  Of its bytes their number is left.
Seed == [of : Peer, attempt : 1 .. MaxAttempts, size : Sizes]

\* What is sent: a seed; or a seed, its signature and the key to verify it.
Message ==
    [type : {"seed"}, seed : Seed]
    \cup [type : {"auth"}, seed : Seed, signature : [by : Peer, over : Seed], key : Peer]

NoSeed == [size |-> 0]
NoKey == "none"

VARIABLES
    attempt,       \* attempt[p]: attempts begun
    m_authentication_count,
    m_authenticate_remote_first,
    m_remote_seed, \* m_remote_seed[p]: the seed p has made for its remote
    m_remote_public_key,   \* m_remote_public_key[p]: the key p has imported, if any
    sending,       \* sending[p]: p's send requests: their data and their callback
    receiving,     \* receiving[p]: p's receive requests: their callback
    inbox,         \* inbox[p]: messages on their way to p
    open,          \* whether the connection is up
    thrown,        \* thrown[p]: authenticate_next() found the count above 2
    answers,       \* answers[p]: history, what m_callback was told in this attempt
    signed         \* signed[p]: history, the seeds p has sent back signed

attempts == <<attempt, m_authenticate_remote_first, m_remote_seed>>
progress == <<m_authentication_count, sending, receiving, thrown, answers>>
vars == <<attempts, progress, m_remote_public_key, inbox, open, signed>>

Init ==
    /\ attempt = [p \in Peer |-> 0]
    /\ m_authentication_count = [p \in Peer |-> CountSize - 1]
    /\ m_authenticate_remote_first = [p \in Peer |-> FALSE]
    /\ m_remote_seed = [p \in Peer |-> NoSeed]
    /\ m_remote_public_key = [p \in Peer |-> NoKey]
    /\ sending = [p \in Peer |-> << >>]
    /\ receiving = [p \in Peer |-> << >>]
    /\ inbox = [p \in Peer |-> << >>]
    /\ open = TRUE
    /\ thrown = [p \in Peer |-> FALSE]
    /\ answers = [p \in Peer |-> << >>]
    /\ signed = [p \in Peer |-> {}]

Waiting(p) == attempt[p] > 0 /\ answers[p] = << >>

-----------------------------------------------------------------------------
(* What a peer does next, as a record of changes: the requests it makes,   *)
(* what its callback is told, the count, and whether it throws.            *)

Nothing(p) ==
    [sends |-> << >>, receives |-> << >>, tells |-> << >>,
     count |-> m_authentication_count[p], throws |-> FALSE]

Send(p, data, callback) ==
    [Nothing(p) EXCEPT !.sends = <<[data |-> data, callback |-> callback, written |-> FALSE]>>]
Receive(p, callback) == [Nothing(p) EXCEPT !.receives = <<callback>>]
Tell(p, result) == [Nothing(p) EXCEPT !.tells = <<result>>]

\* Bug: authenticate_next() reports success after the first half.
StageHasty(count, remoteFirst) ==
    IF count = 0 THEN IF remoteFirst THEN "remote" ELSE "local"
    ELSE IF count \in {1, 2} THEN "done" ELSE "throw"

\* The switch of authenticate_next().
Stage(count, remoteFirst) ==
    CASE count \in {0, 1} /\ (count = 0) = remoteFirst -> "remote"
      [] count \in {0, 1} /\ (count = 0) # remoteFirst -> "local"
      [] count = 2 -> "done"
      [] count > 2 -> "throw"


\* m_authentication_count++, on a size_t.
Increment(count) == (count + 1) % CountSize

\* authenticate_next(), when the count is `before`.
AuthenticateNext(p, before, remoteFirst, seed) ==
    LET count == Increment(before)
        stage == Stage(count, remoteFirst)
        next  == CASE stage = "remote" -> Send(p, [type |-> "seed", seed |-> seed], "seed_sent")
                   [] stage = "local"  -> Receive(p, "seed")
                   [] stage = "done"   -> Tell(p, TRUE)
                   [] stage = "throw"  -> [Nothing(p) EXCEPT !.throws = TRUE]
    IN  [next EXCEPT !.count = count]

\* The callback async_authenticate gives its halves.
HalfDone(p, result) ==
    IF result
    THEN AuthenticateNext(p, m_authentication_count[p], m_authenticate_remote_first[p],
                          m_remote_seed[p])
    ELSE Tell(p, FALSE)

\* async_send_auth(), when rsa_try_sign() returns `signs`.
SendAuth(p, seed, signs) ==
    IF signs
    THEN Send(p, [type |-> "auth", seed |-> seed, signature |-> [by |-> p, over |-> seed],
                  key |-> p], "auth_sent")
    ELSE HalfDone(p, FALSE)

\* Bug: no return after the callback was told that the sizes differ.
SeedReceivedGoingOn(p, seed, signs) ==
    IF seed.size # m_remote_seed[p].size
    THEN [SendAuth(p, seed, signs) EXCEPT !.tells = <<FALSE>>]
    ELSE SendAuth(p, seed, signs)

\* Bug: a seed of another size is dropped and nobody is told.
SeedReceivedSilent(p, seed, signs) ==
    IF seed.size # m_remote_seed[p].size THEN Nothing(p) ELSE SendAuth(p, seed, signs)

\* The callback of async_recv_seed(): pop_front() finds a seed in both messages.
SeedReceived(p, seed, signs) ==
    IF seed.size # m_remote_seed[p].size
    THEN HalfDone(p, FALSE) ELSE SendAuth(p, seed, signs)

\* rsa_try_verify() has no return statement where the verification ends well:
\* its result is undefined.  It did set l_valid_signature.
rsa_try_verify == BOOLEAN

\* The callback of async_recv_auth(); `returned` is rsa_try_verify()'s result.
\* The bytes of a seed are not those of a key.
AuthReceived(p, message, returned) ==
    HalfDone(p, /\ message.type = "auth"
                /\ message.seed = m_remote_seed[p]
                /\ returned
                /\ message.signature = [by |-> message.key, over |-> message.seed])

\* p's queues are `sends` and `receives` with what is next.
Continue(p, sends, receives, next) ==
    /\ sending' = [sending EXCEPT ![p] = sends \o next.sends]
    /\ receiving' = [receiving EXCEPT ![p] = receives \o next.receives]
    /\ answers' = [answers EXCEPT ![p] = @ \o next.tells]
    /\ thrown' = [thrown EXCEPT ![p] = @ \/ next.throws]
    /\ m_authentication_count' = [m_authentication_count EXCEPT ![p] = next.count]

-----------------------------------------------------------------------------
(* The application *)

\* async_authenticate::async_authenticate()
Begin(p, remoteFirst, size) ==
    /\ ~ Waiting(p)
    /\ attempt[p] < MaxAttempts
    /\ attempt' = [attempt EXCEPT ![p] = @ + 1]
    /\ m_authenticate_remote_first' = [m_authenticate_remote_first EXCEPT ![p] = remoteFirst]
    /\ m_remote_public_key' = [m_remote_public_key EXCEPT ![p] = NoKey]
    /\ LET seed == [of |-> p, attempt |-> attempt[p] + 1, size |-> size]
           next == AuthenticateNext(p, CountSize - 1, remoteFirst, seed) IN
       /\ m_remote_seed' = [m_remote_seed EXCEPT ![p] = seed]
       /\ sending' = [sending EXCEPT ![p] = @ \o next.sends]
       /\ receiving' = [receiving EXCEPT ![p] = @ \o next.receives]
       /\ answers' = [answers EXCEPT ![p] = next.tells]
       /\ thrown' = [thrown EXCEPT ![p] = next.throws]
       /\ m_authentication_count' = [m_authentication_count EXCEPT ![p] = next.count]
    /\ UNCHANGED <<inbox, open, signed>>

\* The connection is lost, or closed by a peer whose authentication failed.
Disconnect ==
    /\ open
    /\ MayFail \/ \E p \in Peer : FALSE \in {answers[p][i] : i \in DOMAIN answers[p]}
    /\ open' = FALSE
    /\ UNCHANGED <<attempts, progress, m_remote_public_key, inbox, signed>>

-----------------------------------------------------------------------------
(* The socket and the callbacks the guard calls *)

\* The frame of the send request at the front is in the stream.
Write(p) ==
    /\ open
    /\ sending[p] # << >> /\ ~ Head(sending[p]).written
    /\ sending' = [sending EXCEPT ![p][1].written = TRUE]
    /\ inbox' = [inbox EXCEPT ![Other(p)] = Append(@, Head(sending[p]).data)]
    /\ UNCHANGED <<attempts, m_authentication_count, receiving, thrown, answers,
                   m_remote_public_key, open, signed>>

\* The callbacks of async_send_seed() and async_send_auth().
SendDone(p, result) ==
    /\ sending[p] # << >>
    /\ IF result THEN Head(sending[p]).written ELSE ~ open
    /\ LET request == Head(sending[p])
           next == IF request.callback = "seed_sent" /\ result
                   THEN Receive(p, "auth") ELSE HalfDone(p, result) IN
       Continue(p, Tail(sending[p]), receiving[p], next)
    /\ UNCHANGED <<attempts, m_remote_public_key, inbox, open, signed>>

\* The callback of async_recv_seed(), with a message.
SeedArrives(p) ==
    /\ receiving[p] # << >> /\ Head(receiving[p]) = "seed"
    /\ inbox[p] # << >>
    /\ inbox' = [inbox EXCEPT ![p] = Tail(@)]
    /\ \E signs \in IF MayFail THEN BOOLEAN ELSE {TRUE} :
       LET seed == Head(inbox[p]).seed
           next == SeedReceived(p, seed, signs) IN
       /\ Continue(p, sending[p], Tail(receiving[p]), next)
       /\ signed' = IF next.sends = << >> THEN signed
                    ELSE [signed EXCEPT ![p] = @ \cup {seed}]
    /\ UNCHANGED <<attempts, m_remote_public_key, open>>

\* The callback of async_recv_auth(), with a message.
AuthArrives(p) ==
    /\ receiving[p] # << >> /\ Head(receiving[p]) = "auth"
    /\ inbox[p] # << >>
    /\ inbox' = [inbox EXCEPT ![p] = Tail(@)]
    /\ LET message == Head(inbox[p]) IN
       /\ \E returned \in rsa_try_verify :
             Continue(p, sending[p], Tail(receiving[p]), AuthReceived(p, message, returned))
       /\ m_remote_public_key' =
             IF message.type = "auth"
             THEN [m_remote_public_key EXCEPT ![p] = message.key] ELSE m_remote_public_key
    /\ UNCHANGED <<attempts, open, signed>>

\* Either callback, told that the operation has failed.
ReceiveFails(p) ==
    /\ receiving[p] # << >>
    /\ ~ open
    /\ Continue(p, sending[p], Tail(receiving[p]), HalfDone(p, FALSE))
    /\ UNCHANGED <<attempts, m_remote_public_key, inbox, open, signed>>

Attempt(p) == \E remoteFirst \in Orders[p], size \in Sizes : Begin(p, remoteFirst, size)
SendCompletes(p) == \E result \in BOOLEAN : SendDone(p, result)

Next ==
    \/ \E p \in Peer :
          \/ Attempt(p)
          \/ Write(p)
          \/ SendCompletes(p)
          \/ SeedArrives(p)
          \/ AuthArrives(p)
          \/ ReceiveFails(p)
    \/ Disconnect

Spec == Init /\ [][Next]_vars

\* The io_context runs, so what can complete does.  Nothing makes an application
\* begin an attempt or close the connection, and nothing makes one fail.
Fairness ==
    \A p \in Peer :
        /\ WF_vars(Write(p))
        /\ WF_vars(SendCompletes(p))
        /\ WF_vars(SeedArrives(p) \/ AuthArrives(p) \/ ReceiveFails(p))

FairSpec == Spec /\ Fairness

-----------------------------------------------------------------------------
(* Properties *)

TypeOK ==
    /\ attempt \in [Peer -> 0 .. MaxAttempts]
    /\ m_authentication_count \in [Peer -> 0 .. CountSize - 1]
    /\ m_authenticate_remote_first \in [Peer -> BOOLEAN]
    /\ m_remote_seed \in [Peer -> Seed \cup {NoSeed}]
    /\ m_remote_public_key \in [Peer -> Peer \cup {NoKey}]
    /\ sending \in [Peer -> Seq([data : Message, callback : {"seed_sent", "auth_sent"},
                                 written : BOOLEAN])]
    /\ receiving \in [Peer -> Seq({"seed", "auth"})]
    /\ inbox \in [Peer -> Seq(Message)]
    /\ open \in BOOLEAN
    /\ thrown \in [Peer -> BOOLEAN]
    /\ answers \in [Peer -> Seq(BOOLEAN)]
    /\ signed \in [Peer -> SUBSET Seed]

\* An attempt waits for exactly one request until its callback is told the
\* answer; then there is no request left whose callback would use the object,
\* which its owner may destroy, and the callback is told nothing else.
OneStepAtATime ==
    /\ TypeOK
    /\ \A p \in Peer :
          /\ Len(sending[p]) + Len(receiving[p]) = IF Waiting(p) THEN 1 ELSE 0
          /\ Len(answers[p]) <= 1
          /\ ~ thrown[p]

\* A peer that is told TRUE has imported the key of its remote, which has
\* signed the seed of this attempt, and has itself signed a seed for its remote.
Authentic ==
    \A p \in Peer : answers[p] = <<TRUE>> =>
        /\ m_remote_public_key[p] = Other(p)
        /\ m_remote_seed[p] \in signed[Other(p)]
        /\ \E seed \in signed[p] : seed.of = Other(p)

\* p waits for a message over a connection that is up, and its remote owes it none:
\* it is not in an attempt, or waits for a message itself while none is on its way.
\* Two peers wait for each other only if both began with the seed of the remote,
\* or if one waits for a seed that an earlier attempt of its own has taken.
HearsNothing(p) == receiving[p] # << >> /\ inbox[p] = << >>
WaitForEachOther ==
    /\ \A p \in Peer : HearsNothing(p)
    /\ \/ \A p \in Peer : ~ m_authenticate_remote_first[p]
       \/ \E p \in Peer : attempt[p] > 1 /\ receiving[p] = <<"seed">>
Deserted(p) ==
    /\ open /\ HearsNothing(p)
    /\ ~ Waiting(Other(p)) \/ WaitForEachOther

\* Every attempt is told an answer, also when the peers go in the same order,
\* the sizes differ, signing fails or the connection is lost; unless p stays
\* deserted for good, which no timeout in the code notices.
EveryAttemptEnds == \A p \in Peer : Waiting(p) ~> ~ Waiting(p) \/ []Deserted(p)

\* "success returns true" (rsa.h): over a connection that works, peers that
\* both follow the protocol are both told TRUE.
HonestPeersAgree == \A p \in Peer : answers[p] \in {<< >>, <<TRUE>>}

=============================================================================
