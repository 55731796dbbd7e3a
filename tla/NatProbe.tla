------------------------------ MODULE NatProbe ------------------------------
(***************************************************************************)
(* socket_nat_type() of affix_base::networking (nat.cpp) with everything   *)
(* it calls: asks two returners, several times, for the endpoint from      *)
(* which they saw a datagram, and takes the NAT for symmetric when they    *)
(* saw different ones.  A question that is not answered in time is asked   *)
(* again with new random data; UDP loses, delays, repeats and reorders,    *)
(* and the socket takes datagrams from anybody.                            *)
(*                                                                         *)
(* A response is two pieces long, so that a shorter datagram can get in    *)
(* between; its content is who signed it, the random data it returns and   *)
(* the endpoint: which port, and how often the NAT had remapped before.    *)
(***************************************************************************)
EXTENDS Naturals, Sequences, FiniteSets

CONSTANTS
    MaxAttempts,     \* a_max_attempts
    Trials,          \* a_trials
    MaxRemaps,       \* bound: how often the NAT changes its mapping
    MaxStrays,       \* bound: datagrams of strangers
    MaxNet,          \* bound: datagrams on their way
    MaxInbox         \* the socket's receive buffer, in datagrams

ASSUME AttemptsAssumption == MaxAttempts \in Nat \ {0}
ASSUME TrialsAssumption == Trials \in Nat \ {0}    \* the vote of no trials is void
ASSUME BoundsAssumption ==
    {MaxRemaps, MaxStrays} \subseteq Nat /\ {MaxNet, MaxInbox} \subseteq Nat \ {0}

Returner == {1, 2}
Stranger == 0
ResponseSize == 2

VARIABLES
    pc,              \* where socket_nat_type() is
    trial, returner, \* the trial, and the returner being asked
    attempt,         \* l_attempt
    random,          \* l_outbound_data; no two attempts draw the same
    buffer,          \* a_data of socket_receive_data_for()
    elapsed,         \* the time to receive is over
    external,        \* l_external_endpoint_0 and _1
    votes,           \* the number of trials that found a symmetric NAT
    output,          \* a_output
    inbox,           \* datagrams in the socket
    net,             \* questions and responses on their way
    symmetric,       \* whether the NAT is
    remaps,          \* how often it has changed its mapping
    strays,          \* datagrams of strangers so far
    since            \* history, remaps when the attempt began

probe == <<trial, returner, votes, output>>
world == <<symmetric, remaps, strays>>
vars == <<pc, probe, attempt, random, buffer, elapsed, external, inbox, net, world, since>>

Nowhere == [port |-> 0, mapping |-> 0]

Init ==
    /\ pc = "reopen"
    /\ trial = 1 /\ returner = 1 /\ attempt = 0 /\ random = 0
    /\ buffer = << >> /\ elapsed = FALSE
    /\ external = [r \in Returner |-> Nowhere]
    /\ votes = 0 /\ output = "unknown"
    /\ inbox = << >> /\ net = {}
    /\ symmetric \in BOOLEAN /\ remaps = 0 /\ strays = 0 /\ since = 0

-----------------------------------------------------------------------------
(* Outside of the library: the NAT, the returners and the network.  What is *)
(* on its way may stay there, which is how it is late, repeated or lost.    *)

Question(r, data) == [from |-> Stranger, to |-> r, random |-> data, endpoint |-> Nowhere]
Response(q, endpoint) ==
    [from |-> q.to, to |-> Stranger, random |-> q.random, endpoint |-> endpoint]
IsQuestion(d) == d.to \in Returner
Whole(d) == [i \in 1 .. ResponseSize |-> [of |-> d, part |-> i]]
Short == <<[of |-> Question(Stranger, 0), part |-> 1]>>

SeenFrom(r) == [port |-> IF symmetric THEN r ELSE 1, mapping |-> remaps]

Answer ==
    /\ \E q \in net :
          /\ IsQuestion(q)
          /\ net' = (net \ {q}) \cup {Response(q, SeenFrom(q.to))}
    /\ UNCHANGED <<pc, probe, attempt, random, buffer, elapsed, external, inbox, world, since>>

Deliver ==
    /\ Len(inbox) < MaxInbox
    /\ \E d \in net :
          /\ ~ IsQuestion(d)
          /\ inbox' = Append(inbox, Whole(d))
          /\ net' \in {net, net \ {d}}
    /\ UNCHANGED <<pc, probe, attempt, random, buffer, elapsed, external, world, since>>

Stray ==
    /\ Len(inbox) < MaxInbox /\ strays < MaxStrays
    /\ inbox' = Append(inbox, Short)
    /\ strays' = strays + 1
    /\ UNCHANGED <<pc, probe, attempt, random, buffer, elapsed, external, net, symmetric,
                   remaps, since>>

Remap ==
    /\ remaps < MaxRemaps
    /\ remaps' = remaps + 1
    /\ UNCHANGED <<pc, probe, attempt, random, buffer, elapsed, external, inbox, net,
                   symmetric, strays, since>>

-----------------------------------------------------------------------------
(* socket_nat_type() *)

\* socket_reopen_and_rebind(): what the socket had received is gone, unless it
\* throws, which nobody catches.
Reopen ==
    /\ pc = "reopen"
    /\ \/ pc' = "attempt" /\ attempt' = 0 /\ inbox' = << >>
       \/ pc' = "thrown" /\ UNCHANGED <<attempt, inbox>>
    /\ UNCHANGED <<probe, random, buffer, elapsed, external, net, world, since>>


AttemptsLeft == attempt < MaxAttempts

\* The attempt fails, its buffer is gone: the next one, or the end.
Retry == pc' = "attempt" /\ attempt' = attempt + 1 /\ buffer' = << >>

\* The loop over the attempts, and socket_send_data_to().
Attempt ==
    /\ pc = "attempt"
    /\ IF AttemptsLeft
       THEN /\ random' = random + 1
            /\ \/ /\ \E kept \in SUBSET net :
                        /\ Cardinality(kept) < MaxNet
                        /\ net' = kept \cup {Question(returner, random')}
                  /\ pc' = "receive" /\ buffer' = << >> /\ elapsed' = FALSE /\ since' = remaps
                  /\ UNCHANGED attempt
               \/ Retry /\ UNCHANGED <<net, elapsed, since>>
       ELSE /\ pc' = "failed"
            /\ UNCHANGED <<attempt, random, net, buffer, elapsed, since>>
    /\ UNCHANGED <<probe, external, inbox, world>>

Elapse ==
    /\ pc = "receive" /\ ~ elapsed
    /\ elapsed' = TRUE
    /\ UNCHANGED <<pc, probe, attempt, random, buffer, external, inbox, net, world, since>>

\* Bug: the time is looked at only when something was read.
GivesUpReading(read) == elapsed /\ read # << >>

\* After the bytes of this turn have been read.
GivesUp(read) == elapsed

\* One turn of the loop of socket_receive_data_for().  A datagram that is too
\* long for the rest of the buffer is cut, or an error, as the platform has it.
Receive ==
    /\ pc = "receive"
    /\ LET room == ResponseSize - Len(buffer)
           datagram == IF inbox = << >> THEN << >> ELSE Head(inbox)
           read == SubSeq(datagram, 1, IF Len(datagram) <= room THEN Len(datagram) ELSE room)
       IN  /\ inbox' = IF inbox = << >> THEN << >> ELSE Tail(inbox)
           /\ \/ /\ GivesUp(read) \/ Len(datagram) > room
                 /\ Retry
              \/ /\ ~ GivesUp(read)
                 /\ buffer' = buffer \o read
                 /\ pc' = IF Len(buffer') = ResponseSize THEN "check" ELSE "receive"
                 /\ UNCHANGED attempt
    /\ UNCHANGED <<probe, random, elapsed, external, net, world, since>>

\* The buffer holds one response, from the first byte to the last: anything
\* else cannot be unpacked, or its random data is not what was sent.
Unpacks == buffer = Whole(buffer[1].of)

\* Bug: the random data is not compared.
BelievesAny(d) == d.from = returner

\* The random data is that of this attempt, and the signature the returner's.
Believes(d) == d.random = random /\ d.from = returner

\* rsa_try_verify() ends without a return statement: either value.
Verified == BOOLEAN

\* The endpoint is stored; after the second one the trial is over.
Found(endpoint) ==
    /\ external' = [external EXCEPT ![returner] = endpoint]
    /\ IF returner = 1
       THEN returner' = 2 /\ pc' = "reopen" /\ UNCHANGED <<trial, votes>>
       ELSE /\ returner' = 1 /\ trial' = trial + 1
            /\ votes' = IF external'[1] # external'[2] THEN votes + 1 ELSE votes
            /\ pc' = IF trial < Trials THEN "reopen" ELSE "vote"

\* The rest of socket_external_ip().
Check ==
    /\ pc = "check"
    /\ \E verified \in Verified :
          IF Unpacks /\ Believes(buffer[1].of) /\ verified
          THEN Found(buffer[1].of.endpoint) /\ buffer' = << >> /\ UNCHANGED attempt
          ELSE Retry /\ UNCHANGED <<external, returner, trial, votes>>
    /\ UNCHANGED <<output, random, elapsed, inbox, net, world, since>>

\* Bug: a tie counts for symmetric.
WinsTies(these, those) == these >= those

Wins(these, those) == these > those

Vote ==
    /\ pc = "vote"
    /\ output' = IF Wins(votes, Trials - votes) THEN "symmetric" ELSE "non_symmetric"
    /\ pc' = "succeeded"
    /\ UNCHANGED <<trial, returner, votes, attempt, random, buffer, elapsed, external, inbox,
                   net, world, since>>

Call == Reopen \/ Attempt \/ Receive \/ Check \/ Vote

Returned == pc \in {"succeeded", "failed", "thrown"}

Next == ~ Returned /\ (Call \/ Elapse \/ Answer \/ Deliver \/ Stray \/ Remap)

Spec == Init /\ [][Next]_vars

\* The caller's thread runs and the clock goes on; the network owes nothing.
FairSpec == Spec /\ WF_vars(Call) /\ WF_vars(Elapse)

-----------------------------------------------------------------------------
(* Properties *)

Endpoint == [port : {0, 1, 2}, mapping : 0 .. MaxRemaps]
Draw == 0 .. 2 * Trials * MaxAttempts
Datagram == [from : {0, 1, 2}, to : {0, 1, 2}, random : Draw, endpoint : Endpoint]
Piece == [of : Datagram, part : 1 .. ResponseSize]

TypeOK ==
    /\ pc \in {"reopen", "attempt", "receive", "check", "vote", "succeeded", "failed", "thrown"}
    /\ trial \in 1 .. Trials + 1 /\ returner \in Returner
    /\ attempt \in 0 .. MaxAttempts /\ random \in Draw
    /\ buffer \in Seq(Piece) /\ Len(buffer) <= ResponseSize
    /\ external \in [Returner -> Endpoint]
    /\ votes \in 0 .. Trials
    /\ output \in {"unknown", "symmetric", "non_symmetric"}
    /\ inbox \in Seq(Seq(Piece)) /\ Len(inbox) <= MaxInbox
    /\ \A d \in net : d \in Datagram
    /\ {elapsed, symmetric} \subseteq BOOLEAN
    /\ remaps \in 0 .. MaxRemaps /\ since \in 0 .. remaps /\ strays \in 0 .. MaxStrays

\* An endpoint is stored only if the returner that was asked has seen it since
\* this attempt began: the answer to an earlier attempt, of the other returner
\* or of an earlier trial, which may arrive at any time, is not believed.
FreshAddress ==
    [][external' # external =>
          /\ external'[returner].mapping \in since .. remaps
          /\ external'[returner].port = IF symmetric THEN returner ELSE 1]_vars

\* A NAT that changes its mapping spoils one trial each time, whatever arrives
\* late: the vote is right if that happens in no more than half of them.
MajorityDecides ==
    /\ TypeOK
    /\ pc = "succeeded" /\ 2 * remaps <= Trials =>
          output = IF symmetric THEN "symmetric" ELSE "non_symmetric"

\* The call returns, however little is answered.
ProbeEnds == <>Returned

=============================================================================
