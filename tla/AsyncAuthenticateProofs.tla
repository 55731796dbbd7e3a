---------------------- MODULE AsyncAuthenticateProofs ----------------------
(***************************************************************************)
(* Proofs about AsyncAuthenticate for any number of attempts, any seeds    *)
(* and any orders the two peers choose, over a connection that may be lost *)
(* at any time and with signing that may fail.                             *)
(*                                                                         *)
(* That an attempt waits for one request at a time is a matter of what     *)
(* each callback does next (RequestOf).  Authentic needs what a peer that *)
(* has done one half knows (Knows), and that what it signed was a seed *)
(* of its remote.  The latter is not evident: a message that answers a     *)
(* seed begins with that seed too, async_recv_seed() would sign it, and    *)
(* what earlier attempts left in the stream is still there.  But a peer    *)
(* writes a message more than it reads only while it waits for the answer  *)
(* to its seed (InStep), so that what a peer finds when it waits for a     *)
(* seed is the last thing its remote wrote, a seed (SeedIsLast).           *)
(***************************************************************************)
EXTENDS AsyncAuthenticate, SequenceTheorems, TLAPS

SeedMessage(p) == [type |-> "seed", seed |-> m_remote_seed[p]]
AuthMessage(p, seed) ==
    [type |-> "auth", seed |-> seed, signature |-> [by |-> p, over |-> seed], key |-> p]

\* The send requests of the two halves.
SeedRequest(p, written) ==
    [data |-> SeedMessage(p), callback |-> "seed_sent", written |-> written]
AuthRequest(p, seed, written) ==
    [data |-> AuthMessage(p, seed), callback |-> "auth_sent", written |-> written]

\* The half p is in: it authenticates its remote, or itself.
InRemoteHalf(p) ==
    /\ m_authentication_count[p] \in {0, 1}
    /\ m_authentication_count[p] = 0 <=> m_authenticate_remote_first[p]
InLocalHalf(p) ==
    /\ m_authentication_count[p] \in {0, 1}
    /\ m_authentication_count[p] = 0 <=> ~ m_authenticate_remote_first[p]

\* The request p waits for, in either half.
SendsSeed(p, written) ==
    sending[p] = <<SeedRequest(p, written)>> /\ receiving[p] = << >> /\ InRemoteHalf(p)
AwaitsAuth(p) == sending[p] = << >> /\ receiving[p] = <<"auth">> /\ InRemoteHalf(p)
AwaitsSeed(p) == sending[p] = << >> /\ receiving[p] = <<"seed">> /\ InLocalHalf(p)
SendsAuth(p, written) ==
    /\ receiving[p] = << >> /\ InLocalHalf(p)
    /\ \E seed \in signed[p] :
          /\ sending[p] = <<AuthRequest(p, seed, written)>>
          /\ written \/ open => seed.of = Other(p)

RequestOf(p) ==
    /\ Waiting(p) =>
          \/ AwaitsAuth(p) \/ AwaitsSeed(p)
          \/ \E written \in BOOLEAN : SendsSeed(p, written) \/ SendsAuth(p, written)
    /\ ~ Waiting(p) => sending[p] = << >> /\ receiving[p] = << >>
    /\ answers[p] \in {<< >>, <<TRUE>>, <<FALSE>>}
    /\ ~ thrown[p]
    /\ attempt[p] > 0 => m_remote_seed[p] \in Seed /\ m_remote_seed[p].of = p

\* What p knows when it has authenticated its remote, and itself; when it has
\* done one half, and both.
RemoteDone(p) == m_remote_public_key[p] = Other(p) /\ m_remote_seed[p] \in signed[Other(p)]
LocalDone(p) == \E seed \in signed[p] : seed.of = Other(p)
Knows(p) ==
    /\ Waiting(p) /\ m_authentication_count[p] = 1 =>
          IF m_authenticate_remote_first[p] THEN RemoteDone(p) ELSE LocalDone(p)
    /\ answers[p] = <<TRUE>> => RemoteDone(p) /\ LocalDone(p)

\* What answers a seed names its sender, who has signed the seed.
AnswersAreSigned ==
    \A p \in Peer : \A i \in DOMAIN inbox[p] : inbox[p][i].type = "auth" =>
        inbox[p][i].key = Other(p) /\ inbox[p][i].seed \in signed[Other(p)]

\* p has written its seed and not read what answers it; it has read a seed and
\* not written the answer.
Expects(p) ==
    \/ receiving[p] = <<"auth">>
    \/ sending[p] # << >> /\ sending[p][1].callback = "seed_sent" /\ sending[p][1].written
Owes(p) ==
    sending[p] # << >> /\ sending[p][1].callback = "auth_sent" /\ ~ sending[p][1].written
Due(p) == IF Expects(p) THEN 1 ELSE 0
Debt(p) == IF Owes(p) THEN 1 ELSE 0

\* As long as the connection is up: what is on its way is expected by its
\* writer, whose seed is the last thing it wrote.
InStep(p) ==
    open => Len(inbox[p]) + Len(inbox[Other(p)]) + Debt(p) + Debt(Other(p))
                <= Due(p) + Due(Other(p))
SeedIsLast(p) ==
    open /\ Expects(p) /\ inbox[Other(p)] # << >> =>
        inbox[Other(p)][Len(inbox[Other(p)])] = SeedMessage(p)

IInv ==
    /\ TypeOK /\ AnswersAreSigned
    /\ \A p \in Peer : RequestOf(p) /\ Knows(p) /\ InStep(p) /\ SeedIsLast(p)

\* While the connection is up, what a peer finds when it waits for a seed is the
\* seed of its remote's present attempt and nothing else: async_recv_seed() would
\* sign the seed at the front of an answer that an earlier attempt left behind.
SeedsAreFresh ==
    \A p \in Peer : open /\ receiving[p] = <<"seed">> /\ inbox[p] # << >> =>
        inbox[p] = <<[type |-> "seed", seed |-> m_remote_seed[Other(p)]]>>

SendRequest == [data : Message, callback : {"seed_sent", "auth_sent"}, written : BOOLEAN]

-----------------------------------------------------------------------------
(* The peers and the records of changes *)

\* There are two peers.
LEMMA Others ==
    ASSUME NEW p \in Peer
    PROVE  /\ Other(p) \in Peer /\ Other(p) # p /\ Other(Other(p)) = p
           /\ \A q \in Peer : q = p \/ q = Other(p)
<1>1. PICK a \in Peer, b \in Peer : a # b /\ Peer = {a, b}
  BY PeerAssumption
<1>2. ASSUME NEW q \in Peer PROVE Other(q) \in Peer /\ Other(q) # q
  <2>1. \E r \in Peer : r # q
    BY <1>1
  <2>2. QED
    BY <2>1 DEF Other
<1>3. QED
  BY <1>1, <1>2

\* The switch of authenticate_next().
LEMMA Stages ==
    ASSUME NEW count \in 0 .. CountSize - 1, NEW first \in BOOLEAN
    PROVE  /\ count \in {0, 1} /\ (count = 0) = first => Stage(count, first) = "remote"
           /\ count \in {0, 1} /\ (count = 0) # first => Stage(count, first) = "local"
           /\ count = 2 => Stage(count, first) = "done"
<1>1. ASSUME count \in {0, 1}, (count = 0) = first PROVE Stage(count, first) = "remote"
  <2>1. count # 2 /\ ~ (count > 2)
    BY <1>1
  <2>2. QED
    BY <1>1, <2>1, Zenon DEF Stage
<1>2. ASSUME count \in {0, 1}, (count = 0) # first PROVE Stage(count, first) = "local"
  <2>1. count # 2 /\ ~ (count > 2)
    BY <1>2
  <2>2. QED
    BY <1>2, <2>1, Zenon DEF Stage
<1>3. ASSUME count = 2 PROVE Stage(count, first) = "done"
  <2>1. count \notin {0, 1} /\ ~ (count > 2)
    BY <1>3
  <2>2. QED
    BY <1>3, <2>1, Zenon DEF Stage
<1>4. QED BY <1>1, <1>2, <1>3

\* m_authentication_count starts at the greatest size_t.
LEMMA Counts ==
    /\ Increment(CountSize - 1) = 0 /\ Increment(0) = 1 /\ Increment(1) = 2
    /\ {0, 1, 2} \subseteq 0 .. CountSize - 1 /\ CountSize \in Nat
BY CountAssumption DEF Increment

\* What authenticate_next() does when the count has become `count`.
Proceeds(count, first, seed, next) ==
    /\ count \in {0, 1} /\ (count = 0 <=> first) =>
         next = [sends |-> <<[data |-> [type |-> "seed", seed |-> seed],
                              callback |-> "seed_sent", written |-> FALSE]>>,
                 receives |-> << >>, tells |-> << >>, count |-> count, throws |-> FALSE]
    /\ count \in {0, 1} /\ (count = 0 <=> ~ first) =>
         next = [sends |-> << >>, receives |-> <<"seed">>, tells |-> << >>,
                 count |-> count, throws |-> FALSE]
    /\ count = 2 =>
         next = [sends |-> << >>, receives |-> << >>, tells |-> <<TRUE>>,
                 count |-> count, throws |-> FALSE]

LEMMA NextIs ==
    ASSUME TypeOK, NEW p \in Peer, NEW before, NEW first \in BOOLEAN, NEW seed,
           NEW count \in 0 .. CountSize - 1, count = Increment(before),
           NEW next, next = AuthenticateNext(p, before, first, seed)
    PROVE  Proceeds(count, first, seed, next)
<1>1. ASSUME count \in {0, 1}, (count = 0) = first
      PROVE  next = [Send(p, [type |-> "seed", seed |-> seed], "seed_sent") EXCEPT !.count = count]
  BY <1>1, Stages, Zenon DEF AuthenticateNext
<1>2. ASSUME count \in {0, 1}, (count = 0) # first
      PROVE  next = [Receive(p, "seed") EXCEPT !.count = count]
  BY <1>2, Stages, Zenon DEF AuthenticateNext
<1>3. ASSUME count = 2 PROVE next = [Tell(p, TRUE) EXCEPT !.count = count]
  BY <1>3, Stages, Zenon DEF AuthenticateNext
<1>4. /\ (count = 0 <=> first) => (count = 0) = first
      /\ (count = 0 <=> ~ first) => (count = 0) # first
  BY Zenon
<1>5. QED
  BY <1>1, <1>2, <1>3, <1>4 DEF Send, Receive, Tell, Nothing, Proceeds

\* A record of changes.
Change == [sends : Seq(SendRequest), receives : Seq({"seed", "auth"}), tells : Seq(BOOLEAN),
           count : 0 .. CountSize - 1, throws : BOOLEAN]

\* What Continue leaves.
LEMMA Continued ==
    ASSUME TypeOK, NEW p \in Peer, NEW sends \in Seq(SendRequest),
           NEW receives \in Seq({"seed", "auth"}), NEW next \in Change,
           Continue(p, sends, receives, next)
    PROVE  /\ sending' \in [Peer -> Seq(SendRequest)]
           /\ receiving' \in [Peer -> Seq({"seed", "auth"})]
           /\ answers' \in [Peer -> Seq(BOOLEAN)]
           /\ thrown' \in [Peer -> BOOLEAN]
           /\ m_authentication_count' \in [Peer -> 0 .. CountSize - 1]
           /\ sending'[p] = sends \o next.sends /\ receiving'[p] = receives \o next.receives
           /\ answers'[p] = answers[p] \o next.tells /\ thrown'[p] = (thrown[p] \/ next.throws)
           /\ m_authentication_count'[p] = next.count
           /\ \A q \in Peer \ {p} :
                 /\ sending'[q] = sending[q] /\ receiving'[q] = receiving[q]
                 /\ answers'[q] = answers[q] /\ thrown'[q] = thrown[q]
                 /\ m_authentication_count'[q] = m_authentication_count[q]
<1>1. /\ next.sends \in Seq(SendRequest) /\ next.receives \in Seq({"seed", "auth"})
      /\ next.tells \in Seq(BOOLEAN) /\ next.throws \in BOOLEAN
      /\ next.count \in 0 .. CountSize - 1
  BY DEF Change
<1>2. /\ sends \o next.sends \in Seq(SendRequest)
      /\ receives \o next.receives \in Seq({"seed", "auth"})
  BY <1>1
<1>3. /\ answers[p] \in Seq(BOOLEAN) /\ answers[p] \o next.tells \in Seq(BOOLEAN)
  BY <1>1 DEF TypeOK
<1>4. (thrown[p] \/ next.throws) \in BOOLEAN
  OBVIOUS
<1>5. sending \in [Peer -> Seq(SendRequest)]
  BY DEF TypeOK, SendRequest
<1>6. sending' = [sending EXCEPT ![p] = sends \o next.sends]
  BY DEF Continue
<1>7. receiving' = [receiving EXCEPT ![p] = receives \o next.receives]
  BY DEF Continue
<1>8. answers' = [answers EXCEPT ![p] = answers[p] \o next.tells]
  BY DEF Continue
<1>9. thrown' = [thrown EXCEPT ![p] = thrown[p] \/ next.throws]
  BY DEF Continue
<1>10. m_authentication_count' = [m_authentication_count EXCEPT ![p] = next.count]
  BY DEF Continue
<1>11. /\ sending' \in [Peer -> Seq(SendRequest)] /\ sending'[p] = sends \o next.sends
       /\ \A q \in Peer \ {p} : sending'[q] = sending[q]
  BY <1>2, <1>5, <1>6
<1>12. /\ receiving' \in [Peer -> Seq({"seed", "auth"})]
       /\ receiving'[p] = receives \o next.receives
       /\ \A q \in Peer \ {p} : receiving'[q] = receiving[q]
  BY <1>2, <1>7 DEF TypeOK
<1>13. /\ answers' \in [Peer -> Seq(BOOLEAN)] /\ answers'[p] = answers[p] \o next.tells
       /\ \A q \in Peer \ {p} : answers'[q] = answers[q]
  BY <1>3, <1>8 DEF TypeOK
<1>14. /\ thrown' \in [Peer -> BOOLEAN] /\ thrown'[p] = (thrown[p] \/ next.throws)
       /\ \A q \in Peer \ {p} : thrown'[q] = thrown[q]
  BY <1>4, <1>9, Zenon DEF TypeOK
<1>15. /\ m_authentication_count' \in [Peer -> 0 .. CountSize - 1]
       /\ m_authentication_count'[p] = next.count
       /\ \A q \in Peer \ {p} : m_authentication_count'[q] = m_authentication_count[q]
  BY <1>1, <1>10 DEF TypeOK
<1>16. QED
  BY <1>11, <1>12, <1>13, <1>14, <1>15

\* A peer that does nothing keeps its requests and what it knows.
LEMMA Bystander ==
    ASSUME NEW q \in Peer,
           attempt'[q] = attempt[q], m_authentication_count'[q] = m_authentication_count[q],
           m_authenticate_remote_first'[q] = m_authenticate_remote_first[q],
           m_remote_seed'[q] = m_remote_seed[q],
           m_remote_public_key'[q] = m_remote_public_key[q],
           sending'[q] = sending[q], receiving'[q] = receiving[q],
           answers'[q] = answers[q], thrown'[q] = thrown[q], signed'[q] = signed[q],
           signed[Other(q)] \subseteq signed'[Other(q)], open' => open
    PROVE  /\ RequestOf(q) => RequestOf(q)'
           /\ Knows(q) => Knows(q)'
           /\ Expects(q)' <=> Expects(q)
           /\ Owes(q)' <=> Owes(q)
           /\ SeedMessage(q)' = SeedMessage(q)
<1>1. Waiting(q)' <=> Waiting(q)
  BY DEF Waiting
<1>2. ASSUME RequestOf(q) PROVE RequestOf(q)'
  <2>1. /\ AwaitsAuth(q) => AwaitsAuth(q)'
        /\ AwaitsSeed(q) => AwaitsSeed(q)'
        /\ \A written \in BOOLEAN : SendsSeed(q, written) => SendsSeed(q, written)'
    BY DEF AwaitsAuth, AwaitsSeed, SendsSeed, SeedRequest, SeedMessage, InRemoteHalf,
           InLocalHalf
  <2>2. \A written \in BOOLEAN : SendsAuth(q, written) => SendsAuth(q, written)'
    BY DEF SendsAuth, InLocalHalf
  <2>3. QED
    BY <1>1, <1>2, <2>1, <2>2 DEF RequestOf
<1>3. /\ RemoteDone(q) => RemoteDone(q)'
      /\ LocalDone(q) => LocalDone(q)'
  BY DEF RemoteDone, LocalDone
<1>4. Knows(q) => Knows(q)'
  BY <1>1, <1>3 DEF Knows
<1>5. (Expects(q)' <=> Expects(q)) /\ (Owes(q)' <=> Owes(q))
  BY DEF Expects, Owes
<1>6. QED
  BY <1>2, <1>4, <1>5 DEF SeedMessage

\* The messages p has yet to read, when it has read one.
LEMMA ReadOne ==
    ASSUME NEW S, NEW s \in Seq(S), s # << >>
    PROVE  /\ Head(s) \in S /\ Head(s) = s[1] /\ 1 \in DOMAIN s
           /\ Tail(s) \in Seq(S) /\ Len(Tail(s)) = Len(s) - 1 /\ Len(s) \in Nat /\ Len(s) > 0
           /\ Tail(s) # << >> => Tail(s)[Len(Tail(s))] = s[Len(s)]
           /\ \A i \in DOMAIN Tail(s) : i + 1 \in DOMAIN s /\ Tail(s)[i] = s[i + 1]
<1>1. /\ Head(s) \in S /\ Head(s) = s[1] /\ 1 \in DOMAIN s
      /\ Tail(s) \in Seq(S) /\ Len(Tail(s)) = Len(s) - 1 /\ Len(s) \in Nat /\ Len(s) > 0
  OBVIOUS
<1>2. \A i \in DOMAIN Tail(s) : i \in Nat /\ i + 1 \in DOMAIN s /\ Tail(s)[i] = s[i + 1]
  <2>1. DOMAIN Tail(s) = 1 .. Len(s) - 1 /\ DOMAIN s = 1 .. Len(s)
    BY <1>1
  <2>2. QED
    BY <1>1, <2>1
<1>3. ASSUME Tail(s) # << >> PROVE Tail(s)[Len(Tail(s))] = s[Len(s)]
  <2>1. Len(Tail(s)) > 0 /\ Len(Tail(s)) \in Nat
    BY <1>1, <1>3
  <2>2. Len(Tail(s)) \in DOMAIN Tail(s)
    BY <1>1, <2>1
  <2>3. QED
    BY <1>1, <1>2, <2>2
<1>4. QED BY <1>1, <1>2, <1>3

\* A step of p, which reads a message or not, writes one or not, and keeps the
\* balance of what it expects and owes: it is enough to see to p's requests
\* and to what p knows.
LEMMA StepOf ==
    ASSUME IInv, NEW p \in Peer, NEW q \in Peer, q = Other(p),
           attempt'[q] = attempt[q], m_authentication_count'[q] = m_authentication_count[q],
           m_authenticate_remote_first'[q] = m_authenticate_remote_first[q],
           m_remote_seed'[q] = m_remote_seed[q],
           m_remote_public_key'[q] = m_remote_public_key[q],
           sending'[q] = sending[q], receiving'[q] = receiving[q],
           answers'[q] = answers[q], thrown'[q] = thrown[q], signed'[q] = signed[q],
           signed[p] \subseteq signed'[p], open' = open,
           \/ inbox'[p] = inbox[p]
           \/ inbox[p] # << >> /\ inbox'[p] = Tail(inbox[p]),
           NEW message \in Message,
           message.type = "auth" => message.key = p /\ message.seed \in signed'[p],
           \/ inbox'[q] = inbox[q]
           \/ inbox'[q] = Append(inbox[q], message),
           Expects(p)' => \/ inbox'[q] = Append(inbox[q], SeedMessage(p)')
                         \/ /\ Expects(p) /\ inbox'[q] = inbox[q]
                            /\ m_remote_seed'[p] = m_remote_seed[p],
           open => Len(inbox'[p]) + Len(inbox'[q]) + Debt(p)' + Due(p)
                      <= Len(inbox[p]) + Len(inbox[q]) + Debt(p) + Due(p)',
           TypeOK', RequestOf(p)', Knows(p)'
    PROVE  IInv'
<1>1. Other(q) = p /\ q # p /\ \A r \in Peer : r = p \/ r = q
  BY Others
<1>2. /\ RequestOf(q)' /\ Knows(q)'
      /\ Expects(q)' <=> Expects(q)
      /\ Owes(q)' <=> Owes(q)
      /\ SeedMessage(q)' = SeedMessage(q)
  BY <1>1, Bystander DEF IInv
<1>3. /\ inbox[p] \in Seq(Message) /\ inbox[q] \in Seq(Message)
      /\ inbox'[p] \in Seq(Message) /\ inbox'[q] \in Seq(Message)
  BY DEF IInv, TypeOK
<1>4. InStep(p)' /\ InStep(q)'
  <2>1. /\ Len(inbox[p]) \in Nat /\ Len(inbox[q]) \in Nat
        /\ Len(inbox'[p]) \in Nat /\ Len(inbox'[q]) \in Nat
    BY <1>3
  <2>2. /\ Debt(p) \in Nat /\ Debt(q) \in Nat /\ Due(p) \in Nat /\ Due(q) \in Nat
        /\ Debt(p)' \in Nat /\ Due(p)' \in Nat
    BY DEF Debt, Due
  <2>3. /\ Debt(Other(p)) = Debt(q) /\ Due(Other(p)) = Due(q)
        /\ Debt(Other(p))' = Debt(q) /\ Due(Other(p))' = Due(q)
        /\ Debt(Other(q))' = Debt(p)' /\ Due(Other(q))' = Due(p)'
        /\ Debt(q)' = Debt(q) /\ Due(q)' = Due(q)
    BY <1>1, <1>2 DEF Debt, Due, Owes, Expects
  <2>4. open => Len(inbox[p]) + Len(inbox[q]) + Debt(p) + Debt(q) <= Due(p) + Due(q)
    BY <2>3 DEF IInv, InStep
  <2>5. open => /\ Len(inbox'[p]) + Len(inbox'[q]) + Debt(p)' + Debt(q) <= Due(p)' + Due(q)
                /\ Len(inbox'[q]) + Len(inbox'[p]) + Debt(q) + Debt(p)' <= Due(q) + Due(p)'
    <3> SUFFICES ASSUME open
                 PROVE  /\ Len(inbox'[p]) + Len(inbox'[q]) + Debt(p)' + Debt(q) <= Due(p)' + Due(q)
                        /\ Len(inbox'[q]) + Len(inbox'[p]) + Debt(q) + Debt(p)'
                              <= Due(q) + Due(p)'
      OBVIOUS
    <3>1. Len(inbox'[p]) + Len(inbox'[q]) + Debt(p)' + Due(p)
             <= Len(inbox[p]) + Len(inbox[q]) + Debt(p) + Due(p)'
      OBVIOUS
    <3>2. PICK a \in Nat, b \in Nat, c \in Nat, d \in Nat, e \in Nat, f \in Nat,
               a2 \in Nat, b2 \in Nat, c2 \in Nat, e2 \in Nat :
             /\ a = Len(inbox[p]) /\ b = Len(inbox[q]) /\ c = Debt(p) /\ d = Debt(q)
             /\ e = Due(p) /\ f = Due(q)
             /\ a2 = Len(inbox'[p]) /\ b2 = Len(inbox'[q]) /\ c2 = Debt(p)' /\ e2 = Due(p)'
      BY <2>1, <2>2, Zenon
    <3>3. a + b + c + d <= e + f /\ a2 + b2 + c2 + e <= a + b + c + e2
      BY <2>4, <3>1, <3>2, Zenon
    <3>4. a2 + b2 + c2 + d <= e2 + f /\ b2 + a2 + d + c2 <= f + e2
      BY <3>3
    <3>5. QED
      BY <3>2, <3>4, Zenon
  <2>6. QED
    BY <1>1, <2>3, <2>5, Zenon DEF InStep
<1>5. SeedIsLast(p)'
  <2> SUFFICES ASSUME open, Expects(p)', inbox'[q] # << >>
               PROVE  inbox'[q][Len(inbox'[q])] = SeedMessage(p)'
    BY DEF SeedIsLast
  <2>1. CASE inbox'[q] = Append(inbox[q], SeedMessage(p)')
    BY <1>3, <2>1
  <2>2. CASE /\ Expects(p) /\ inbox'[q] = inbox[q]
             /\ m_remote_seed'[p] = m_remote_seed[p]
    BY <2>2 DEF IInv, SeedIsLast, SeedMessage
  <2>3. QED BY <2>1, <2>2
<1>6. SeedIsLast(q)'
  <2> SUFFICES ASSUME open, Expects(q), inbox'[p] # << >>
               PROVE  inbox'[p][Len(inbox'[p])] = SeedMessage(q)
    BY <1>1, <1>2 DEF SeedIsLast
  <2>1. inbox[p] # << >> => inbox[p][Len(inbox[p])] = SeedMessage(q)
    BY <1>1 DEF IInv, SeedIsLast
  <2>2. CASE inbox'[p] = inbox[p]
    BY <2>1, <2>2
  <2>3. CASE inbox[p] # << >> /\ inbox'[p] = Tail(inbox[p])
    <3>1. inbox'[p][Len(inbox'[p])] = inbox[p][Len(inbox[p])]
      BY <1>3, <2>3, ReadOne
    <3>2. QED BY <2>1, <2>3, <3>1
  <2>4. QED BY <2>2, <2>3
<1>7. AnswersAreSigned'
  <2>1. ASSUME NEW i \in DOMAIN inbox'[p], inbox'[p][i].type = "auth"
        PROVE  inbox'[p][i].key = q /\ inbox'[p][i].seed \in signed'[q]
    <3>1. PICK j \in DOMAIN inbox[p] : inbox'[p][i] = inbox[p][j]
      <4>1. CASE inbox'[p] = inbox[p]
        BY <4>1
      <4>2. CASE inbox[p] # << >> /\ inbox'[p] = Tail(inbox[p])
        BY <1>3, <4>2, ReadOne
      <4>3. QED BY <4>1, <4>2
    <3>2. QED
      BY <2>1, <3>1 DEF IInv, AnswersAreSigned
  <2>2. ASSUME NEW i \in DOMAIN inbox'[q], inbox'[q][i].type = "auth"
        PROVE  inbox'[q][i].key = p /\ inbox'[q][i].seed \in signed'[p]
    <3>1. CASE inbox'[q][i] = message
      BY <2>2, <3>1
    <3>2. CASE \E j \in DOMAIN inbox[q] : inbox'[q][i] = inbox[q][j]
      BY <1>1, <2>2, <3>2 DEF IInv, AnswersAreSigned
    <3>3. inbox'[q][i] = message \/ \E j \in DOMAIN inbox[q] : inbox'[q][i] = inbox[q][j]
      <4>1. CASE inbox'[q] = inbox[q]
        BY <4>1
      <4>2. CASE inbox'[q] = Append(inbox[q], message)
        BY <1>3, <4>2
      <4>3. QED BY <4>1, <4>2
    <3>4. QED
      BY <3>1, <3>2, <3>3
  <2>3. QED
    BY <1>1, <2>1, <2>2 DEF AnswersAreSigned
<1>8. QED
  BY <1>1, <1>2, <1>4, <1>5, <1>6, <1>7 DEF IInv

\* p is in the middle of an attempt when it has a request.
LEMMA HasRequest ==
    ASSUME IInv, NEW p \in Peer, sending[p] # << >> \/ receiving[p] # << >>
    PROVE  /\ Waiting(p) /\ answers[p] = << >> /\ ~ thrown[p]
           /\ attempt[p] > 0 /\ m_remote_seed[p] \in Seed /\ m_remote_seed[p].of = p
           /\ \/ AwaitsAuth(p) \/ AwaitsSeed(p)
              \/ \E written \in BOOLEAN : SendsSeed(p, written) \/ SendsAuth(p, written)
BY DEF IInv, RequestOf, Waiting

\* A peer that expects an answer is in the middle of an attempt.
LEMMA ExpectsWaits ==
    ASSUME IInv, NEW p \in Peer, Expects(p)
    PROVE  Waiting(p) /\ m_remote_seed[p] \in Seed /\ m_remote_seed[p].of = p
BY HasRequest DEF Expects

\* A queue of one request.
LEMMA OneRequest ==
    ASSUME NEW r
    PROVE  <<r>> # << >> /\ Head(<<r>>) = r /\ <<r>>[1] = r /\ Tail(<<r>>) = << >>
<1>1. <<r>> \in Seq({r}) /\ Len(<<r>>) = 1 /\ <<r>>[1] = r
  OBVIOUS
<1>2. Tail(<<r>>) \in Seq({r}) /\ Len(Tail(<<r>>)) = 0
  BY <1>1, HeadTailProperties
<1>3. QED
  BY <1>1, <1>2, EmptySeq

\* Who expects an answer, and who owes one.
LEMMA Expecting ==
    ASSUME NEW p \in Peer
    PROVE  /\ AwaitsAuth(p) => Expects(p) /\ ~ Owes(p)
           /\ AwaitsSeed(p) => ~ Expects(p) /\ ~ Owes(p)
           /\ \A w \in BOOLEAN : SendsSeed(p, w) => (Expects(p) <=> w) /\ ~ Owes(p)
           /\ \A w \in BOOLEAN : SendsAuth(p, w) => ~ Expects(p) /\ (Owes(p) <=> ~ w)
           /\ sending[p] = << >> /\ receiving[p] = << >> => ~ Expects(p) /\ ~ Owes(p)
<1>1. << >> # <<"auth">> /\ <<"seed">> # <<"auth">>
  <2>1. <<"seed">>[1] # <<"auth">>[1]
    OBVIOUS
  <2>2. QED BY <2>1
<1>2. \A r : <<r>> # << >> /\ <<r>>[1] = r
  OBVIOUS
<1>3. \A w : /\ SeedRequest(p, w).callback = "seed_sent"
             /\ SeedRequest(p, w).written = w
  BY DEF SeedRequest
<1>4. \A w, seed : /\ AuthRequest(p, seed, w).callback = "auth_sent"
                   /\ AuthRequest(p, seed, w).written = w
  BY DEF AuthRequest
<1>5. AwaitsAuth(p) => Expects(p) /\ ~ Owes(p)
  BY DEF AwaitsAuth, Expects, Owes
<1>6. AwaitsSeed(p) => ~ Expects(p) /\ ~ Owes(p)
  BY <1>1 DEF AwaitsSeed, Expects, Owes
<1>7. ASSUME NEW w \in BOOLEAN, SendsSeed(p, w)
      PROVE  (Expects(p) <=> w) /\ ~ Owes(p)
  BY <1>1, <1>2, <1>3, <1>7 DEF SendsSeed, Expects, Owes
<1>8. ASSUME NEW w \in BOOLEAN, SendsAuth(p, w)
      PROVE  ~ Expects(p) /\ (Owes(p) <=> ~ w)
  BY <1>1, <1>2, <1>4, <1>8 DEF SendsAuth, Expects, Owes
<1>9. sending[p] = << >> /\ receiving[p] = << >> => ~ Expects(p) /\ ~ Owes(p)
  BY <1>1 DEF Expects, Owes
<1>10. QED BY <1>5, <1>6, <1>7, <1>8, <1>9

\* The requests are well formed.
LEMMA RequestTypes ==
    ASSUME NEW p \in Peer, NEW seed \in Seed, NEW written \in BOOLEAN
    PROVE  /\ [type |-> "seed", seed |-> seed] \in Message
           /\ AuthMessage(p, seed) \in Message
           /\ [data |-> [type |-> "seed", seed |-> seed], callback |-> "seed_sent",
               written |-> written] \in SendRequest
           /\ AuthRequest(p, seed, written) \in SendRequest
<1>1. [type |-> "seed", seed |-> seed] \in Message
  BY DEF Message
<1>2. AuthMessage(p, seed) \in Message
  BY DEF Message, AuthMessage
<1>3. QED
  BY <1>1, <1>2 DEF SendRequest, AuthRequest

\* Changes of each kind are changes.
LEMMA ChangeTypes ==
    ASSUME NEW count \in 0 .. CountSize - 1
    PROVE  /\ \A r \in SendRequest :
                [sends |-> <<r>>, receives |-> << >>, tells |-> << >>, count |-> count,
                 throws |-> FALSE] \in Change
           /\ \A c \in {"seed", "auth"} :
                [sends |-> << >>, receives |-> <<c>>, tells |-> << >>, count |-> count,
                 throws |-> FALSE] \in Change
           /\ \A result \in BOOLEAN :
                [sends |-> << >>, receives |-> << >>, tells |-> <<result>>, count |-> count,
                 throws |-> FALSE] \in Change
<1>1. /\ \A r \in SendRequest : <<r>> \in Seq(SendRequest)
      /\ << >> \in Seq(SendRequest)
  OBVIOUS
<1>2. /\ \A c \in {"seed", "auth"} : <<c>> \in Seq({"seed", "auth"})
      /\ << >> \in Seq({"seed", "auth"})
  OBVIOUS
<1>3. /\ \A result \in BOOLEAN : <<result>> \in Seq(BOOLEAN)
      /\ << >> \in Seq(BOOLEAN)
  OBVIOUS
<1>4. FALSE \in BOOLEAN
  OBVIOUS
<1>5. QED
  BY <1>1, <1>2, <1>3, <1>4, Zenon DEF Change

\* An answer is one thing or the other.
LEMMA OneAnswer == <<TRUE>> # << >> /\ <<FALSE>> # << >> /\ <<TRUE>> # <<FALSE>>
<1>1. Len(<<TRUE>>) = 1 /\ Len(<<FALSE>>) = 1 /\ Len(<< >>) = 0
  OBVIOUS
<1>2. <<TRUE>>[1] # <<FALSE>>[1]
  OBVIOUS
<1>3. QED BY <1>1, <1>2

\* What is left of p when its callback has been called, or its next request made.
LEMMA AfterHalf ==
    ASSUME IInv, NEW p \in Peer, sending[p] # << >> \/ receiving[p] # << >>,
           NEW next \in Change, next.throws = FALSE, Continue(p, << >>, << >>, next)
    PROVE  /\ sending'[p] = next.sends /\ receiving'[p] = next.receives
           /\ answers'[p] = next.tells /\ ~ thrown'[p]
           /\ m_authentication_count'[p] = next.count
<1>1. answers[p] = << >> /\ ~ thrown[p]
  BY HasRequest
<1>2. TypeOK /\ << >> \in Seq(SendRequest) /\ << >> \in Seq({"seed", "auth"})
  BY DEF IInv
<1>3. /\ next.sends \in Seq(SendRequest) /\ next.receives \in Seq({"seed", "auth"})
      /\ next.tells \in Seq(BOOLEAN)
  BY DEF Change
<1>4. /\ sending'[p] = << >> \o next.sends /\ receiving'[p] = << >> \o next.receives
      /\ answers'[p] = answers[p] \o next.tells
      /\ thrown'[p] = (thrown[p] \/ next.throws)
      /\ m_authentication_count'[p] = next.count
  BY <1>2, Continued, Zenon
<1>5. ~ thrown'[p]
  BY <1>1, <1>4, Zenon
<1>6. /\ sending'[p] = next.sends /\ receiving'[p] = next.receives
      /\ answers'[p] = next.tells
  BY <1>1, <1>3, <1>4
<1>7. QED BY <1>4, <1>5, <1>6, Zenon

\* The attempt is over: nothing is left of it but what p knows.
LEMMA AttemptEnds ==
    ASSUME IInv, NEW p \in Peer, sending[p] # << >> \/ receiving[p] # << >>,
           UNCHANGED attempts, sending'[p] = << >>, receiving'[p] = << >>,
           answers'[p] = <<TRUE>> \/ answers'[p] = <<FALSE>>, ~ thrown'[p],
           answers'[p] = <<TRUE>> => RemoteDone(p)' /\ LocalDone(p)'
    PROVE  RequestOf(p)' /\ Knows(p)' /\ ~ Expects(p)' /\ ~ Owes(p)'
<1>1. ~ Waiting(p)'
  BY OneAnswer DEF Waiting
<1>2. RequestOf(p)'
  BY <1>1, HasRequest DEF RequestOf, attempts
<1>3. Knows(p)'
  BY <1>1 DEF Knows
<1>4. << >> # <<"auth">>
  OBVIOUS
<1>5. ~ Expects(p)' /\ ~ Owes(p)'
  BY <1>4 DEF Expects, Owes
<1>6. QED
  BY <1>2, <1>3, <1>5

\* What the callback of a half does.
LEMMA HalfDoneIs ==
    ASSUME TypeOK, NEW p \in Peer, NEW next
    PROVE  /\ next = HalfDone(p, FALSE) =>
                next = [sends |-> << >>, receives |-> << >>, tells |-> <<FALSE>>,
                        count |-> m_authentication_count[p], throws |-> FALSE]
           /\ next = HalfDone(p, TRUE) /\ m_authentication_count[p] \in {0, 1} =>
                Proceeds(m_authentication_count[p] + 1, m_authenticate_remote_first[p],
                         m_remote_seed[p], next)
<1>1. next = HalfDone(p, FALSE) =>
         next = [sends |-> << >>, receives |-> << >>, tells |-> <<FALSE>>,
                 count |-> m_authentication_count[p], throws |-> FALSE]
  BY DEF HalfDone, Tell, Nothing
<1>2. ASSUME next = HalfDone(p, TRUE), m_authentication_count[p] \in {0, 1}
      PROVE  Proceeds(m_authentication_count[p] + 1, m_authenticate_remote_first[p],
                      m_remote_seed[p], next)
  <2>1. PICK before, count, first, seed :
           /\ before = m_authentication_count[p] /\ count = before + 1
           /\ first = m_authenticate_remote_first[p] /\ seed = m_remote_seed[p]
    OBVIOUS
  <2>2. next = AuthenticateNext(p, before, first, seed)
    BY <1>2, <2>1 DEF HalfDone
  <2>3. first \in BOOLEAN
    BY <2>1 DEF TypeOK
  <2>4. count = Increment(before) /\ count \in 0 .. CountSize - 1
    BY <1>2, <2>1, Counts
  <2>5. Proceeds(count, first, seed, next)
    BY <2>2, <2>3, <2>4, NextIs, Zenon
  <2>6. QED
    BY <2>1, <2>5, Zenon
<1>3. QED BY <1>1, <1>2

\* A half fails, and with it the attempt.
LEMMA HalfFails ==
    ASSUME IInv, NEW p \in Peer, sending[p] # << >> \/ receiving[p] # << >>,
           NEW next, next = [sends |-> << >>, receives |-> << >>, tells |-> <<FALSE>>,
                             count |-> m_authentication_count[p], throws |-> FALSE],
           Continue(p, << >>, << >>, next), UNCHANGED attempts
    PROVE  /\ next \in Change /\ next.sends = << >>
           /\ RequestOf(p)' /\ Knows(p)' /\ ~ Expects(p)' /\ ~ Owes(p)'
<1>2. m_authentication_count[p] \in 0 .. CountSize - 1
  BY DEF IInv, TypeOK
<1>3. next \in Change
  BY <1>2, ChangeTypes
<1>4. /\ next.sends = << >> /\ next.receives = << >> /\ next.tells = <<FALSE>>
      /\ next.throws = FALSE
  OBVIOUS
<1>5. /\ sending'[p] = << >> /\ receiving'[p] = << >> /\ answers'[p] = <<FALSE>>
      /\ ~ thrown'[p]
  BY <1>3, <1>4, AfterHalf
<1>6. QED
  BY <1>3, <1>4, <1>5, AttemptEnds, OneAnswer

\* A half succeeds: the other one begins, or both are done.
LEMMA HalfSucceeds ==
    ASSUME IInv, NEW p \in Peer, sending[p] # << >> \/ receiving[p] # << >>,
           NEW count, count = m_authentication_count[p],
           NEW first, first = m_authenticate_remote_first[p],
           NEW seed, seed = m_remote_seed[p],
           NEW next, Proceeds(count + 1, first, seed, next),
           Continue(p, << >>, << >>, next), UNCHANGED attempts,
           InRemoteHalf(p) => RemoteDone(p)' /\ (LocalDone(p) => LocalDone(p)'),
           InLocalHalf(p) => LocalDone(p)' /\ (RemoteDone(p) => RemoteDone(p)')
    PROVE  /\ next \in Change
           /\ RequestOf(p)' /\ Knows(p)' /\ ~ Expects(p)' /\ ~ Owes(p)'
<1>1. /\ Waiting(p) /\ attempt[p] > 0
      /\ m_remote_seed[p] \in Seed /\ m_remote_seed[p].of = p
      /\ InRemoteHalf(p) \/ InLocalHalf(p)
  BY HasRequest DEF AwaitsAuth, AwaitsSeed, SendsSeed, SendsAuth
<1>2. /\ count \in {0, 1} /\ first \in BOOLEAN /\ TypeOK
      /\ InRemoteHalf(p) <=> (count = 0 <=> first)
      /\ InLocalHalf(p) <=> (count = 0 <=> ~ first)
  BY <1>1 DEF InRemoteHalf, InLocalHalf, IInv, TypeOK
<1>3. UNCHANGED <<attempt, m_authenticate_remote_first, m_remote_seed>>
  BY DEF attempts
<1>4. CASE count = 1
  <2>1. count + 1 = 2 /\ 2 \in 0 .. CountSize - 1
    BY <1>4, Counts
  <2>2. next = [sends |-> << >>, receives |-> << >>, tells |-> <<TRUE>>, count |-> 2,
                throws |-> FALSE]
    BY <1>2, <2>1 DEF Proceeds
  <2>3. next \in Change
    BY <2>1, <2>2, ChangeTypes
  <2>4. /\ next.sends = << >> /\ next.receives = << >> /\ next.tells = <<TRUE>>
        /\ next.throws = FALSE
    BY <2>2
  <2>5. /\ sending'[p] = << >> /\ receiving'[p] = << >> /\ answers'[p] = <<TRUE>>
        /\ ~ thrown'[p]
    BY <2>3, <2>4, AfterHalf
  <2>6. RemoteDone(p)' /\ LocalDone(p)'
    <3>1. IF first THEN RemoteDone(p) ELSE LocalDone(p)
      BY <1>1, <1>4 DEF IInv, Knows
    <3>2. IF first THEN InLocalHalf(p) ELSE InRemoteHalf(p)
      BY <1>2, <1>4
    <3>3. QED
      BY <3>1, <3>2
  <2>7. QED
    BY <2>3, <2>5, <2>6, AttemptEnds
<1>5. CASE count = 0 /\ first
  <2>1. count + 1 = 1 /\ 1 \in 0 .. CountSize - 1
    BY <1>5, Counts
  <2>2. next = [sends |-> << >>, receives |-> <<"seed">>, tells |-> << >>, count |-> 1,
                throws |-> FALSE]
    BY <1>2, <1>5, <2>1 DEF Proceeds
  <2>3. next \in Change
    BY <2>1, <2>2, ChangeTypes
  <2>4. /\ next.sends = << >> /\ next.receives = <<"seed">> /\ next.tells = << >>
        /\ next.throws = FALSE /\ next.count = 1
    BY <2>2
  <2>5. /\ sending'[p] = << >> /\ receiving'[p] = <<"seed">> /\ answers'[p] = << >>
        /\ ~ thrown'[p] /\ m_authentication_count'[p] = 1
    BY <2>3, <2>4, AfterHalf
  <2>6. Waiting(p)' /\ AwaitsSeed(p)'
    BY <1>1, <1>3, <1>5, <2>5 DEF Waiting, AwaitsSeed, InLocalHalf
  <2>7. RequestOf(p)'
    BY <1>1, <1>3, <2>5, <2>6 DEF RequestOf
  <2>8. RemoteDone(p)' /\ answers'[p] # <<TRUE>>
    BY <1>2, <1>5, <2>5, OneAnswer
  <2>9. Knows(p)'
    BY <1>3, <1>5, <2>8 DEF Knows
  <2>10. <<"seed">>[1] # <<"auth">>[1]
    OBVIOUS
  <2>11. ~ Expects(p)' /\ ~ Owes(p)'
    BY <2>5, <2>10 DEF Expects, Owes
  <2>12. QED BY <2>3, <2>7, <2>9, <2>11
<1>6. CASE count = 0 /\ ~ first
  <2>1. count + 1 = 1 /\ 1 \in 0 .. CountSize - 1
    BY <1>6, Counts
  <2>2. next = [sends |-> <<SeedRequest(p, FALSE)>>, receives |-> << >>, tells |-> << >>,
                count |-> 1, throws |-> FALSE]
    BY <1>2, <1>6, <2>1 DEF Proceeds, SeedRequest, SeedMessage
  <2>3. SeedRequest(p, FALSE) \in SendRequest
    BY <1>1, RequestTypes DEF SeedRequest, SeedMessage
  <2>4. next \in Change
    BY <2>1, <2>2, <2>3, ChangeTypes
  <2>5. /\ next.sends = <<SeedRequest(p, FALSE)>> /\ next.receives = << >>
        /\ next.tells = << >> /\ next.throws = FALSE /\ next.count = 1
    BY <2>2
  <2>6. /\ sending'[p] = <<SeedRequest(p, FALSE)>> /\ receiving'[p] = << >>
        /\ answers'[p] = << >> /\ ~ thrown'[p] /\ m_authentication_count'[p] = 1
    BY <2>4, <2>5, AfterHalf
  <2>7. Waiting(p)' /\ SendsSeed(p, FALSE)'
    BY <1>1, <1>3, <1>6, <2>6 DEF Waiting, SendsSeed, InRemoteHalf, SeedRequest, SeedMessage
  <2>8. RequestOf(p)'
    BY <1>1, <1>3, <2>6, <2>7 DEF RequestOf
  <2>9. LocalDone(p)' /\ answers'[p] # <<TRUE>>
    BY <1>2, <1>6, <2>6, OneAnswer
  <2>10. Knows(p)'
    BY <1>3, <1>6, <2>9 DEF Knows
  <2>11. ~ Expects(p)' /\ ~ Owes(p)'
    BY <2>6 DEF Expects, Owes, SeedRequest
  <2>12. QED BY <2>4, <2>8, <2>10, <2>11
<1>7. QED BY <1>2, <1>4, <1>5, <1>6

-----------------------------------------------------------------------------
(* One lemma for each action *)

\* A callback of p has been called: it is enough to see to p's requests, to
\* what p knows, and to the messages it has read.
LEMMA ContinueStep ==
    ASSUME IInv, NEW p \in Peer, sending[p] # << >> \/ receiving[p] # << >>,
           NEW sends \in Seq(SendRequest), NEW receives \in Seq({"seed", "auth"}),
           NEW next \in Change, Continue(p, sends, receives, next),
           UNCHANGED <<attempts, open>>,
           m_remote_public_key' \in [Peer -> Peer \cup {NoKey}],
           \A r \in Peer \ {p} : m_remote_public_key'[r] = m_remote_public_key[r],
           signed' \in [Peer -> SUBSET Seed],
           \A r \in Peer \ {p} : signed'[r] = signed[r], signed[p] \subseteq signed'[p],
           inbox' \in [Peer -> Seq(Message)], inbox'[Other(p)] = inbox[Other(p)],
           \/ inbox'[p] = inbox[p]
           \/ inbox[p] # << >> /\ inbox'[p] = Tail(inbox[p]),
           RequestOf(p)', Knows(p)', Expects(p)' => Expects(p),
           open => Len(inbox'[p]) + Debt(p)' + Due(p) <= Len(inbox[p]) + Debt(p) + Due(p)'
    PROVE  IInv'
<1> DEFINE q == Other(p)
<1>1. q \in Peer \ {p}
  BY Others
<1>2. /\ sending' \in [Peer -> Seq(SendRequest)]
      /\ receiving' \in [Peer -> Seq({"seed", "auth"})]
      /\ answers' \in [Peer -> Seq(BOOLEAN)]
      /\ thrown' \in [Peer -> BOOLEAN]
      /\ m_authentication_count' \in [Peer -> 0 .. CountSize - 1]
      /\ sending'[q] = sending[q] /\ receiving'[q] = receiving[q]
      /\ answers'[q] = answers[q] /\ thrown'[q] = thrown[q]
      /\ m_authentication_count'[q] = m_authentication_count[q]
  BY <1>1, Continued, Zenon DEF IInv
<1>3. /\ attempt' = attempt /\ m_authenticate_remote_first' = m_authenticate_remote_first
      /\ m_remote_seed' = m_remote_seed /\ open' = open
  BY DEF attempts
<1>4. TypeOK'
  <2>1. /\ attempt' \in [Peer -> 0 .. MaxAttempts]
        /\ m_authenticate_remote_first' \in [Peer -> BOOLEAN]
        /\ m_remote_seed' \in [Peer -> Seed \cup {NoSeed}]
        /\ open' \in BOOLEAN
    BY <1>3, Zenon DEF IInv, TypeOK
  <2>2. QED
    BY <1>2, <2>1, Zenon DEF TypeOK, SendRequest
<1>5. SeedMessage(p) \in Message /\ SeedMessage(p).type # "auth"
  <2>1. m_remote_seed[p] \in Seed
    BY HasRequest
  <2>2. QED
    BY <2>1, RequestTypes DEF SeedMessage
<1>6. open => Len(inbox'[p]) + Len(inbox'[q]) + Debt(p)' + Due(p)
                 <= Len(inbox[p]) + Len(inbox[q]) + Debt(p) + Due(p)'
  <2>1. /\ Len(inbox[p]) \in Nat /\ Len(inbox[q]) \in Nat /\ Len(inbox'[p]) \in Nat
    BY <1>1 DEF IInv, TypeOK
  <2>2. Debt(p) \in Nat /\ Due(p) \in Nat /\ Debt(p)' \in Nat /\ Due(p)' \in Nat
    BY DEF Debt, Due
  <2>3. PICK a \in Nat, b \in Nat, c \in Nat, e \in Nat, a2 \in Nat, c2 \in Nat, e2 \in Nat :
           /\ a = Len(inbox[p]) /\ b = Len(inbox[q]) /\ c = Debt(p) /\ e = Due(p)
           /\ a2 = Len(inbox'[p]) /\ c2 = Debt(p)' /\ e2 = Due(p)'
    BY <2>1, <2>2, Zenon
  <2>4. open => a2 + c2 + e <= a + c + e2
    BY <2>3, Zenon
  <2>5. open => a2 + b + c2 + e <= a + b + c + e2
    BY <2>4
  <2>6. QED
    BY <2>3, <2>5, Zenon
<1>7. Expects(p)' => Expects(p) /\ inbox'[q] = inbox[q] /\ m_remote_seed'[p] = m_remote_seed[p]
  BY <1>3
<1>8. /\ attempt'[q] = attempt[q] /\ m_remote_seed'[q] = m_remote_seed[q]
      /\ m_authenticate_remote_first'[q] = m_authenticate_remote_first[q]
      /\ m_remote_public_key'[q] = m_remote_public_key[q] /\ signed'[q] = signed[q]
  BY <1>1, <1>3
<1> HIDE DEF q
<1>9. q = Other(p) /\ q \in Peer
  BY <1>1 DEF q
<1>10. inbox'[q] = inbox[q]
  BY <1>9
<1>11. QED
  BY <1>2, <1>3, <1>4, <1>5, <1>6, <1>7, <1>8, <1>9, <1>10, StepOf

\* A receive request fails.
LEMMA ReceiveFailsStep ==
    ASSUME IInv, NEW p \in Peer, ReceiveFails(p)
    PROVE  IInv'
<1>1. PICK next :
         /\ next = HalfDone(p, FALSE)
         /\ Continue(p, sending[p], Tail(receiving[p]), next)
  BY DEF ReceiveFails
<1>2. /\ receiving[p] # << >> /\ ~ open
      /\ UNCHANGED <<attempts, m_remote_public_key, inbox, open, signed>>
  BY DEF ReceiveFails
<1>3. sending[p] = << >> /\ Tail(receiving[p]) = << >>
  <2>1. \/ AwaitsAuth(p) \/ AwaitsSeed(p)
        \/ \E written \in BOOLEAN : SendsSeed(p, written) \/ SendsAuth(p, written)
    BY <1>2, HasRequest
  <2>2. sending[p] = << >> /\ (receiving[p] = <<"auth">> \/ receiving[p] = <<"seed">>)
    BY <1>2, <2>1 DEF AwaitsAuth, AwaitsSeed, SendsSeed, SendsAuth
  <2>3. QED
    BY <2>2, OneRequest
<1>4. next = [sends |-> << >>, receives |-> << >>, tells |-> <<FALSE>>,
              count |-> m_authentication_count[p], throws |-> FALSE]
  BY <1>1, HalfDoneIs, Zenon DEF IInv
<1>5. Continue(p, << >>, << >>, next)
  BY <1>1, <1>3
<1>6. next \in Change /\ RequestOf(p)' /\ Knows(p)' /\ ~ Expects(p)'
  BY <1>2, <1>4, <1>5, HalfFails
<1>7. /\ << >> \in Seq(SendRequest) /\ << >> \in Seq({"seed", "auth"})
  OBVIOUS
<1>8. /\ m_remote_public_key' \in [Peer -> Peer \cup {NoKey}]
      /\ signed' \in [Peer -> SUBSET Seed] /\ inbox' \in [Peer -> Seq(Message)]
      /\ m_remote_public_key' = m_remote_public_key /\ signed' = signed /\ inbox' = inbox
      /\ UNCHANGED <<attempts, open>>
  BY <1>2 DEF IInv, TypeOK
<1>9. QED
  BY <1>2, <1>5, <1>6, <1>7, <1>8, ContinueStep

\* A send request ends: the seed's, after which the answer is received; or the
\* answer's, with which p has authenticated itself.
LEMMA SendDoneStep ==
    ASSUME IInv, NEW p \in Peer, NEW result \in BOOLEAN, SendDone(p, result)
    PROVE  IInv'
<1>1. /\ sending[p] # << >> /\ UNCHANGED <<attempts, m_remote_public_key, inbox, open, signed>>
      /\ IF result THEN Head(sending[p]).written ELSE ~ open
  BY DEF SendDone
<1>2. PICK w \in BOOLEAN : SendsSeed(p, w) \/ SendsAuth(p, w)
  BY <1>1, HasRequest DEF AwaitsAuth, AwaitsSeed
<1>3. /\ << >> \in Seq(SendRequest) /\ << >> \in Seq({"seed", "auth"})
  OBVIOUS
<1>4. /\ m_remote_public_key' \in [Peer -> Peer \cup {NoKey}]
      /\ signed' \in [Peer -> SUBSET Seed] /\ inbox' \in [Peer -> Seq(Message)]
      /\ m_remote_public_key' = m_remote_public_key /\ signed' = signed /\ inbox' = inbox
      /\ UNCHANGED <<attempts, open>>
  BY <1>1 DEF IInv, TypeOK
<1>5. receiving[p] = << >> /\ Tail(sending[p]) = << >>
  BY <1>2, OneRequest DEF SendsSeed, SendsAuth
<1>6. CASE ~ result
  <2>1. PICK next : next = HalfDone(p, FALSE) /\ Continue(p, << >>, << >>, next)
    BY <1>5, <1>6 DEF SendDone
  <2>2. next = [sends |-> << >>, receives |-> << >>, tells |-> <<FALSE>>,
                count |-> m_authentication_count[p], throws |-> FALSE]
    BY <2>1, HalfDoneIs, Zenon DEF IInv
  <2>3. next \in Change /\ RequestOf(p)' /\ Knows(p)' /\ ~ Expects(p)'
    BY <1>1, <2>1, <2>2, HalfFails
  <2>4. QED
    BY <1>1, <1>3, <1>4, <1>6, <2>1, <2>3, ContinueStep
<1>7. CASE result /\ SendsSeed(p, w)
  <2>1. Head(sending[p]).callback = "seed_sent" /\ Head(sending[p]).written = w /\ w = TRUE
    BY <1>1, <1>7 DEF SendsSeed, SeedRequest
  <2>2. PICK next : next = Receive(p, "auth") /\ Continue(p, << >>, << >>, next)
    BY <1>5, <1>7, <2>1 DEF SendDone
  <2>3. next = [sends |-> << >>, receives |-> <<"auth">>, tells |-> << >>,
                count |-> m_authentication_count[p], throws |-> FALSE]
    BY <2>2 DEF Receive, Nothing
  <2>4. next \in Change
    <3>1. m_authentication_count[p] \in 0 .. CountSize - 1
      BY DEF IInv, TypeOK
    <3>2. QED
      BY <2>3, <3>1, ChangeTypes
  <2>5. /\ sending'[p] = << >> /\ receiving'[p] = <<"auth">> /\ answers'[p] = << >>
        /\ ~ thrown'[p] /\ m_authentication_count'[p] = m_authentication_count[p]
    <3>1. /\ next.sends = << >> /\ next.receives = <<"auth">> /\ next.tells = << >>
          /\ next.throws = FALSE /\ next.count = m_authentication_count[p]
      BY <2>3
    <3>2. QED
      BY <1>1, <2>2, <2>4, <3>1, AfterHalf
  <2>6. /\ Waiting(p) /\ attempt[p] > 0 /\ m_remote_seed[p] \in Seed /\ m_remote_seed[p].of = p
    BY <1>1, HasRequest
  <2>7. UNCHANGED <<attempt, m_authenticate_remote_first, m_remote_seed>>
    BY <1>1 DEF attempts
  <2>8. Waiting(p)' /\ AwaitsAuth(p)'
    BY <1>7, <2>5, <2>6, <2>7 DEF Waiting, AwaitsAuth, SendsSeed, InRemoteHalf
  <2>9. RequestOf(p)'
    BY <2>5, <2>6, <2>7, <2>8 DEF RequestOf
  <2>10. Knows(p)'
    <3>1. answers'[p] # <<TRUE>>
      BY <2>5, OneAnswer
    <3>2. /\ RemoteDone(p) => RemoteDone(p)'
          /\ LocalDone(p) => LocalDone(p)'
      BY <1>4, <2>7 DEF RemoteDone, LocalDone
    <3>3. QED
      BY <2>5, <2>6, <2>7, <3>1, <3>2 DEF IInv, Knows
  <2>11. Expects(p) /\ ~ Owes(p) /\ Expects(p)' /\ ~ Owes(p)'
    <3>1. Expects(p) /\ ~ Owes(p)
      BY <1>7, <2>1, Expecting
    <3>2. Expects(p)' /\ ~ Owes(p)'
      BY <2>5 DEF Expects, Owes
    <3>3. QED BY <3>1, <3>2
  <2>12. /\ Len(inbox[p]) \in Nat
         /\ Due(p) = 1 /\ Debt(p) = 0 /\ Due(p)' = 1 /\ Debt(p)' = 0
    BY <2>11 DEF Due, Debt, IInv, TypeOK
  <2>13. Len(inbox'[p]) + Debt(p)' + Due(p) <= Len(inbox[p]) + Debt(p) + Due(p)'
    BY <1>4, <2>12
  <2>14. QED
    BY <1>1, <1>3, <1>4, <2>2, <2>4, <2>9, <2>10, <2>11, <2>13, ContinueStep
<1>8. CASE result /\ SendsAuth(p, w)
  <2>1. PICK seed \in signed[p] :
           /\ sending[p] = <<AuthRequest(p, seed, w)>>
           /\ w \/ open => seed.of = Other(p)
    BY <1>8 DEF SendsAuth
  <2>2. Head(sending[p]).callback = "auth_sent" /\ Head(sending[p]).written = w /\ w = TRUE
    BY <1>1, <1>8, <2>1 DEF AuthRequest
  <2>3. PICK next : next = HalfDone(p, TRUE) /\ Continue(p, << >>, << >>, next)
    BY <1>5, <1>8, <2>2 DEF SendDone
  <2>4. InLocalHalf(p) /\ ~ InRemoteHalf(p) /\ m_authentication_count[p] \in {0, 1}
    BY <1>8 DEF SendsAuth, InLocalHalf, InRemoteHalf
  <2>5. Proceeds(m_authentication_count[p] + 1, m_authenticate_remote_first[p],
                 m_remote_seed[p], next)
    BY <2>3, <2>4, HalfDoneIs, Zenon DEF IInv
  <2>6. LocalDone(p)' /\ (RemoteDone(p) => RemoteDone(p)')
    BY <1>1, <2>1, <2>2 DEF LocalDone, RemoteDone, attempts
  <2>7. next \in Change /\ RequestOf(p)' /\ Knows(p)' /\ ~ Expects(p)' /\ ~ Owes(p)'
    BY <1>1, <2>3, <2>4, <2>5, <2>6, HalfSucceeds
  <2>8. ~ Expects(p) /\ ~ Owes(p)
    BY <1>8, <2>2, Expecting
  <2>9. /\ Len(inbox[p]) \in Nat
        /\ Due(p) = 0 /\ Debt(p) = 0 /\ Due(p)' = 0 /\ Debt(p)' = 0
    BY <2>7, <2>8 DEF Due, Debt, IInv, TypeOK
  <2>10. Len(inbox'[p]) + Debt(p)' + Due(p) <= Len(inbox[p]) + Debt(p) + Due(p)'
    BY <1>4, <2>9
  <2>11. QED
    BY <1>1, <1>3, <1>4, <2>3, <2>7, <2>10, ContinueStep
<1>9. QED BY <1>2, <1>6, <1>7, <1>8

\* What a peer that waits for a seed finds.
LEMMA SeedIsFresh ==
    ASSUME IInv, NEW p \in Peer, NEW q \in Peer, q = Other(p),
           AwaitsSeed(p), open, inbox[p] # << >>
    PROVE  inbox[p] = <<SeedMessage(q)>> /\ m_remote_seed[q].of = q
<1>1. p = Other(q) /\ inbox[p] \in Seq(Message) /\ inbox[q] \in Seq(Message)
  BY Others DEF IInv, TypeOK
<1>2. Len(inbox[p]) \in Nat /\ Len(inbox[p]) > 0 /\ Len(inbox[q]) \in Nat
  BY <1>1
<1>3. ~ Expects(p) /\ ~ Owes(p)
  BY Expecting
<1>4. Expects(q) /\ Len(inbox[p]) = 1
  <2>1. Len(inbox[p]) + Len(inbox[q]) + Debt(p) + Debt(q) <= Due(p) + Due(q)
    BY DEF IInv, InStep
  <2>2. Debt(p) = 0 /\ Due(p) = 0 /\ Debt(q) \in {0, 1} /\ Due(q) \in {0, 1}
    BY <1>3 DEF Debt, Due
  <2>3. PICK a \in Nat, b \in Nat, c \in {0, 1}, d \in {0, 1} :
           /\ a = Len(inbox[p]) /\ b = Len(inbox[q]) /\ c = Debt(q) /\ d = Due(q)
    BY <1>2, <2>2, Zenon
  <2>4. a + b + 0 + c <= 0 + d /\ a > 0
    BY <1>2, <2>1, <2>2, <2>3, Zenon
  <2>5. a = 1 /\ d = 1
    BY <2>4
  <2>6. Due(q) = 1 /\ Len(inbox[p]) = 1
    BY <2>3, <2>5, Zenon
  <2>7. QED
    BY <2>6 DEF Due
<1>5. inbox[p][1] = SeedMessage(q)
  BY <1>1, <1>4 DEF IInv, SeedIsLast
<1>6. m_remote_seed[q].of = q
  BY <1>4, ExpectsWaits
<1>7. inbox[p] = <<SeedMessage(q)>>
  BY <1>1, <1>4, <1>5
<1>8. QED BY <1>6, <1>7

\* A seed arrives, and p answers it, or fails.
LEMMA SeedArrivesStep ==
    ASSUME IInv, NEW p \in Peer, SeedArrives(p)
    PROVE  IInv'
<1>1. /\ receiving[p] # << >> /\ Head(receiving[p]) = "seed" /\ inbox[p] # << >>
      /\ inbox' = [inbox EXCEPT ![p] = Tail(@)]
      /\ UNCHANGED <<attempts, m_remote_public_key, open>>
  BY DEF SeedArrives
<1>2. AwaitsSeed(p)
  <2>1. ~ AwaitsAuth(p)
    BY <1>1, OneRequest DEF AwaitsAuth
  <2>2. QED
    BY <1>1, <2>1, HasRequest DEF SendsSeed, SendsAuth
<1>3. sending[p] = << >> /\ Tail(receiving[p]) = << >>
  BY <1>2, OneRequest DEF AwaitsSeed
<1>4. PICK seed, next :
         /\ seed = Head(inbox[p]).seed
         /\ \E signs \in BOOLEAN : next = SeedReceived(p, seed, signs)
         /\ Continue(p, << >>, << >>, next)
         /\ signed' = IF next.sends = << >> THEN signed
                      ELSE [signed EXCEPT ![p] = @ \cup {seed}]
  <2>1. (IF MayFail THEN BOOLEAN ELSE {TRUE}) \subseteq BOOLEAN
    OBVIOUS
  <2>2. PICK signs \in BOOLEAN :
           LET seed == Head(inbox[p]).seed
               next == SeedReceived(p, seed, signs) IN
           /\ Continue(p, sending[p], Tail(receiving[p]), next)
           /\ signed' = IF next.sends = << >> THEN signed
                        ELSE [signed EXCEPT ![p] = @ \cup {seed}]
    BY <2>1, Zenon DEF SeedArrives
  <2>3. PICK seed, next :
           /\ seed = Head(inbox[p]).seed
           /\ next = SeedReceived(p, seed, signs)
           /\ Continue(p, sending[p], Tail(receiving[p]), next)
           /\ signed' = IF next.sends = << >> THEN signed
                        ELSE [signed EXCEPT ![p] = @ \cup {seed}]
    BY <2>2, Zenon
  <2>4. Continue(p, << >>, << >>, next)
    BY <1>3, <2>3, Zenon
  <2>5. QED
    BY <2>3, <2>4, Zenon
<1>5. \A r \in Peer : inbox[r] \in Seq(Message)
  BY DEF IInv, TypeOK
<1>6. /\ inbox' \in [Peer -> Seq(Message)] /\ inbox'[p] = Tail(inbox[p])
      /\ \A r \in Peer \ {p} : inbox'[r] = inbox[r]
  <2>1. Tail(inbox[p]) \in Seq(Message)
    BY <1>1, <1>5, ReadOne
  <2>2. QED
    BY <1>1, <2>1 DEF IInv, TypeOK
<1>7. /\ Head(inbox[p]) \in Message /\ Head(inbox[p]) = inbox[p][1]
      /\ Len(inbox'[p]) = Len(inbox[p]) - 1 /\ Len(inbox[p]) \in Nat /\ Len(inbox[p]) > 0
  BY <1>1, <1>5, <1>6, ReadOne
<1>8. seed \in Seed
  BY <1>4, <1>7 DEF Message
<1>9. open => seed.of = Other(p)
  <2> SUFFICES ASSUME open PROVE seed.of = Other(p)
    OBVIOUS
  <2>1. PICK q \in Peer : q = Other(p)
    BY Others
  <2>2. inbox[p] = <<SeedMessage(q)>> /\ m_remote_seed[q].of = q
    BY <1>1, <1>2, <2>1, SeedIsFresh
  <2>3. Head(inbox[p]) = SeedMessage(q)
    BY <2>2, OneRequest
  <2>4. QED
    BY <1>4, <2>1, <2>2, <2>3 DEF SeedMessage
<1>10. /\ << >> \in Seq(SendRequest) /\ << >> \in Seq({"seed", "auth"})
  OBVIOUS
<1>11. /\ m_remote_public_key' \in [Peer -> Peer \cup {NoKey}]
       /\ m_remote_public_key' = m_remote_public_key
       /\ UNCHANGED <<attempts, open>>
  BY <1>1 DEF IInv, TypeOK
<1>12. signed \in [Peer -> SUBSET Seed]
  BY DEF IInv, TypeOK
<1>13. ~ Expects(p) /\ Debt(p) = 0 /\ Due(p) = 0
  BY <1>2, Expecting DEF Debt, Due
<1>14. \/ next = HalfDone(p, FALSE)
       \/ next = Send(p, AuthMessage(p, seed), "auth_sent")
  BY <1>4, Zenon DEF SeedReceived, SendAuth, AuthMessage
<1>15. inbox'[Other(p)] = inbox[Other(p)]
  BY <1>6, Others
<1>16. CASE next = HalfDone(p, FALSE)
  <2>1. next = [sends |-> << >>, receives |-> << >>, tells |-> <<FALSE>>,
                count |-> m_authentication_count[p], throws |-> FALSE]
    BY <1>16, HalfDoneIs, Zenon DEF IInv
  <2>2. /\ next \in Change /\ RequestOf(p)' /\ Knows(p)' /\ ~ Expects(p)' /\ ~ Owes(p)'
        /\ next.sends = << >>
    BY <1>1, <1>4, <2>1, HalfFails
  <2>3. signed' = signed
    BY <1>4, <2>2
  <2>4. Debt(p)' = 0 /\ Due(p)' = 0
    BY <2>2 DEF Debt, Due
  <2>5. Len(inbox'[p]) + Debt(p)' + Due(p) <= Len(inbox[p]) + Debt(p) + Due(p)'
    BY <1>7, <1>13, <2>4
  <2>6. QED
    BY <1>1, <1>4, <1>6, <1>10, <1>11, <1>12, <1>15, <2>2, <2>3, <2>5, ContinueStep
<1>17. CASE next = Send(p, AuthMessage(p, seed), "auth_sent")
  <2>1. next = [sends |-> <<AuthRequest(p, seed, FALSE)>>, receives |-> << >>, tells |-> << >>,
                count |-> m_authentication_count[p], throws |-> FALSE]
    BY <1>17 DEF Send, Nothing, AuthRequest
  <2>2. AuthRequest(p, seed, FALSE) \in SendRequest
    BY <1>8, RequestTypes
  <2>3. m_authentication_count[p] \in 0 .. CountSize - 1
    BY DEF IInv, TypeOK
  <2>4. next \in Change
    BY <2>1, <2>2, <2>3, ChangeTypes
  <2>5. /\ next.sends = <<AuthRequest(p, seed, FALSE)>> /\ next.receives = << >>
        /\ next.tells = << >> /\ next.throws = FALSE
        /\ next.count = m_authentication_count[p]
    BY <2>1
  <2>6. /\ sending'[p] = <<AuthRequest(p, seed, FALSE)>> /\ receiving'[p] = << >>
        /\ answers'[p] = << >> /\ ~ thrown'[p]
        /\ m_authentication_count'[p] = m_authentication_count[p]
    BY <1>1, <1>4, <2>4, <2>5, AfterHalf
  <2>7. /\ signed' = [signed EXCEPT ![p] = signed[p] \cup {seed}]
    BY <1>4, <2>5, OneRequest
  <2>8. /\ signed' \in [Peer -> SUBSET Seed] /\ signed'[p] = signed[p] \cup {seed}
        /\ \A r \in Peer \ {p} : signed'[r] = signed[r]
    BY <1>8, <1>12, <2>7
  <2>9. /\ Waiting(p) /\ attempt[p] > 0 /\ m_remote_seed[p] \in Seed /\ m_remote_seed[p].of = p
    BY <1>1, HasRequest
  <2>10. UNCHANGED <<attempt, m_authenticate_remote_first, m_remote_seed, m_remote_public_key>>
    BY <1>1 DEF attempts
  <2>11. Waiting(p)' /\ InLocalHalf(p)'
    BY <1>2, <2>6, <2>9, <2>10 DEF Waiting, AwaitsSeed, InLocalHalf
  <2>12. SendsAuth(p, FALSE)'
    <3>1. FALSE \/ open' => seed.of = Other(p)
      BY <1>1, <1>9
    <3>2. QED
      BY <2>6, <2>8, <2>11, <3>1 DEF SendsAuth
  <2>13. RequestOf(p)'
    BY <2>6, <2>9, <2>10, <2>11, <2>12 DEF RequestOf
  <2>14. Knows(p)'
    <3>1. answers'[p] # <<TRUE>>
      BY <2>6, OneAnswer
    <3>2. signed'[Other(p)] = signed[Other(p)]
      BY <2>8, Others
    <3>3. /\ RemoteDone(p) => RemoteDone(p)'
          /\ LocalDone(p) => LocalDone(p)'
      BY <2>8, <2>10, <3>2 DEF RemoteDone, LocalDone
    <3>4. QED
      BY <2>6, <2>9, <2>10, <3>1, <3>3 DEF IInv, Knows
  <2>15. ~ Expects(p)' /\ Owes(p)'
    <3>1. /\ AuthRequest(p, seed, FALSE).callback = "auth_sent"
          /\ AuthRequest(p, seed, FALSE).written = FALSE
      BY DEF AuthRequest
    <3>2. sending'[p] # << >> /\ sending'[p][1] = AuthRequest(p, seed, FALSE)
      BY <2>6, OneRequest
    <3>3. receiving'[p] # <<"auth">>
      BY <2>6, OneRequest
    <3>4. QED
      BY <3>1, <3>2, <3>3 DEF Expects, Owes
  <2>16. Debt(p)' = 1 /\ Due(p)' = 0
    BY <2>15 DEF Debt, Due
  <2>17. Len(inbox'[p]) + Debt(p)' + Due(p) <= Len(inbox[p]) + Debt(p) + Due(p)'
    BY <1>7, <1>13, <2>16
  <2>18. signed[p] \subseteq signed'[p]
    BY <2>8
  <2>19. QED
    BY <1>1, <1>4, <1>6, <1>10, <1>11, <1>15, <2>4, <2>8, <2>13, <2>14, <2>15, <2>17, <2>18,
       ContinueStep
<1>18. QED BY <1>14, <1>16, <1>17

\* The answer to p's seed arrives, and p is content with it or not.
LEMMA AuthArrivesStep ==
    ASSUME IInv, NEW p \in Peer, AuthArrives(p)
    PROVE  IInv'
<1>1. /\ receiving[p] # << >> /\ Head(receiving[p]) = "auth" /\ inbox[p] # << >>
      /\ inbox' = [inbox EXCEPT ![p] = Tail(@)]
      /\ UNCHANGED <<attempts, open, signed>>
  BY DEF AuthArrives
<1>2. AwaitsAuth(p)
  <2>1. ~ AwaitsSeed(p)
    BY <1>1, OneRequest DEF AwaitsSeed
  <2>2. QED
    BY <1>1, <2>1, HasRequest DEF SendsSeed, SendsAuth
<1>3. sending[p] = << >> /\ Tail(receiving[p]) = << >>
  BY <1>2, OneRequest DEF AwaitsAuth
<1>4. PICK message, next :
         /\ message = Head(inbox[p])
         /\ \E returned \in BOOLEAN : next = AuthReceived(p, message, returned)
         /\ Continue(p, << >>, << >>, next)
  <2>1. PICK returned \in BOOLEAN :
           Continue(p, sending[p], Tail(receiving[p]),
                    AuthReceived(p, Head(inbox[p]), returned))
    BY Zenon DEF AuthArrives, rsa_try_verify
  <2>2. PICK message, next :
           /\ message = Head(inbox[p])
           /\ next = AuthReceived(p, message, returned)
           /\ Continue(p, sending[p], Tail(receiving[p]), next)
    BY <2>1, Zenon
  <2>3. Continue(p, << >>, << >>, next)
    BY <1>3, <2>2, Zenon
  <2>4. QED
    BY <2>2, <2>3, Zenon
<1>5. \A r \in Peer : inbox[r] \in Seq(Message)
  BY DEF IInv, TypeOK
<1>6. /\ inbox' \in [Peer -> Seq(Message)] /\ inbox'[p] = Tail(inbox[p])
      /\ \A r \in Peer \ {p} : inbox'[r] = inbox[r]
  <2>1. Tail(inbox[p]) \in Seq(Message)
    BY <1>1, <1>5, ReadOne
  <2>2. QED
    BY <1>1, <2>1 DEF IInv, TypeOK
<1>7. /\ message \in Message /\ message = inbox[p][1] /\ 1 \in DOMAIN inbox[p]
      /\ Len(inbox'[p]) = Len(inbox[p]) - 1 /\ Len(inbox[p]) \in Nat /\ Len(inbox[p]) > 0
  BY <1>1, <1>4, <1>5, <1>6, ReadOne
<1>8. inbox'[Other(p)] = inbox[Other(p)]
  BY <1>6, Others
<1>9. m_remote_public_key' =
         IF message.type = "auth"
         THEN [m_remote_public_key EXCEPT ![p] = message.key] ELSE m_remote_public_key
  BY <1>4 DEF AuthArrives
<1>10. message.type = "auth" => /\ message.key = Other(p) /\ message.key \in Peer
                                /\ message.seed \in signed[Other(p)]
  BY <1>7, Others DEF IInv, AnswersAreSigned
<1>11. /\ m_remote_public_key' \in [Peer -> Peer \cup {NoKey}]
       /\ \A r \in Peer \ {p} : m_remote_public_key'[r] = m_remote_public_key[r]
       /\ message.type = "auth" => m_remote_public_key'[p] = Other(p)
  BY <1>9, <1>10 DEF IInv, TypeOK
<1>12. /\ << >> \in Seq(SendRequest) /\ << >> \in Seq({"seed", "auth"})
       /\ signed' \in [Peer -> SUBSET Seed] /\ signed' = signed
       /\ UNCHANGED <<attempts, open>>
  BY <1>1 DEF IInv, TypeOK
<1>13. Expects(p) /\ Debt(p) = 0 /\ Due(p) = 1
  BY <1>2, Expecting DEF Debt, Due
<1>14. PICK changes :
          /\ changes \in Change /\ Continue(p, << >>, << >>, changes)
          /\ RequestOf(p)' /\ Knows(p)' /\ ~ Expects(p)' /\ ~ Owes(p)'
  <2>1. PICK returned \in BOOLEAN : next = AuthReceived(p, message, returned)
    BY <1>4
  <2>2. CASE /\ message.type = "auth"
             /\ message.seed = m_remote_seed[p]
             /\ returned
             /\ message.signature = [by |-> message.key, over |-> message.seed]
    <3>1. next = HalfDone(p, TRUE)
      BY <2>1, <2>2, Zenon DEF AuthReceived, HalfDone
    <3>2. InRemoteHalf(p) /\ ~ InLocalHalf(p) /\ m_authentication_count[p] \in {0, 1}
      BY <1>2 DEF AwaitsAuth, InRemoteHalf, InLocalHalf
    <3>3. Proceeds(m_authentication_count[p] + 1, m_authenticate_remote_first[p],
                   m_remote_seed[p], next)
      BY <3>1, <3>2, HalfDoneIs, Zenon DEF IInv
    <3>4. m_remote_seed' = m_remote_seed
      BY <1>1 DEF attempts
    <3>5. RemoteDone(p)' /\ (LocalDone(p) => LocalDone(p)')
      BY <1>10, <1>11, <1>12, <2>2, <3>4 DEF RemoteDone, LocalDone
    <3>6. next \in Change /\ RequestOf(p)' /\ Knows(p)' /\ ~ Expects(p)' /\ ~ Owes(p)'
      BY <1>1, <1>4, <3>2, <3>3, <3>5, HalfSucceeds
    <3>7. QED BY <1>4, <3>6
  <2>3. CASE ~ (/\ message.type = "auth"
                /\ message.seed = m_remote_seed[p]
                /\ returned
                /\ message.signature = [by |-> message.key, over |-> message.seed])
    <3>1. next = HalfDone(p, FALSE)
      BY <2>1, <2>3, Zenon DEF AuthReceived, HalfDone
    <3>2. next = [sends |-> << >>, receives |-> << >>, tells |-> <<FALSE>>,
                  count |-> m_authentication_count[p], throws |-> FALSE]
      BY <3>1, HalfDoneIs, Zenon DEF IInv
    <3>3. next \in Change /\ RequestOf(p)' /\ Knows(p)' /\ ~ Expects(p)' /\ ~ Owes(p)'
      BY <1>1, <1>4, <3>2, HalfFails
    <3>4. QED BY <1>4, <3>3
  <2>4. QED BY <2>2, <2>3, Zenon
<1>15. Debt(p)' = 0 /\ Due(p)' = 0
  BY <1>14 DEF Debt, Due
<1>16. Len(inbox'[p]) + Debt(p)' + Due(p) <= Len(inbox[p]) + Debt(p) + Due(p)'
  BY <1>7, <1>13, <1>15
<1>17. QED
  BY <1>1, <1>6, <1>8, <1>11, <1>12, <1>14, <1>16, ContinueStep

\* The frame of the request at the front is written.
LEMMA Written ==
    ASSUME NEW r \in SendRequest
    PROVE  [<<r>> EXCEPT ![1].written = TRUE] = <<[r EXCEPT !.written = TRUE]>>
<1>1. PICK s, e : s = <<r>> /\ e = [r EXCEPT !.written = TRUE]
  OBVIOUS
<1>2. s \in Seq({r, e}) /\ Len(s) = 1 /\ s[1] = r
  BY <1>1
<1>3. [s EXCEPT ![1] = e] = <<e>>
  <2>1. /\ [s EXCEPT ![1] = e] \in Seq({r, e}) /\ Len([s EXCEPT ![1] = e]) = 1
        /\ [s EXCEPT ![1] = e][1] = e
    BY <1>2, ExceptSeq
  <2>2. <<e>> \in Seq({r, e}) /\ Len(<<e>>) = 1 /\ <<e>>[1] = e
    OBVIOUS
  <2>3. QED
    BY <2>1, <2>2, SeqEqual
<1>4. [<<r>> EXCEPT ![1].written = TRUE] = [s EXCEPT ![1] = [s[1] EXCEPT !.written = TRUE]]
  BY <1>1, Zenon
<1>5. QED
  BY <1>1, <1>2, <1>3, <1>4, Zenon

\* So is the record.
LEMMA WrittenRecord ==
    ASSUME NEW data, NEW callback
    PROVE  [[data |-> data, callback |-> callback, written |-> FALSE] EXCEPT !.written = TRUE]
              = [data |-> data, callback |-> callback, written |-> TRUE]
<1>1. ASSUME NEW before, NEW after
      PROVE  [[data |-> data, callback |-> callback, written |-> before]
                 EXCEPT !.written = after]
                = [data |-> data, callback |-> callback, written |-> after]
  OBVIOUS
<1>2. QED
  BY <1>1, Zenon

\* The socket writes p's frame: its seed, or the answer it owes.
LEMMA WriteStep ==
    ASSUME IInv, NEW p \in Peer, Write(p)
    PROVE  IInv'
<1>1. /\ open /\ sending[p] # << >> /\ ~ Head(sending[p]).written
      /\ sending' = [sending EXCEPT ![p][1].written = TRUE]
      /\ inbox' = [inbox EXCEPT ![Other(p)] = Append(@, Head(sending[p]).data)]
      /\ UNCHANGED <<attempts, m_authentication_count, receiving, thrown, answers,
                     m_remote_public_key, open, signed>>
  BY DEF Write
<1>2. UNCHANGED <<attempt, m_authenticate_remote_first, m_remote_seed>>
  BY <1>1 DEF attempts
<1>3. PICK q \in Peer : q = Other(p) /\ q # p /\ \A r \in Peer : r = p \/ r = q
  BY Others
<1>4. /\ Waiting(p) /\ answers[p] = << >> /\ ~ thrown[p]
      /\ m_remote_seed[p] \in Seed /\ m_remote_seed[p].of = p /\ attempt[p] > 0
  BY <1>1, HasRequest
<1>5. SendsSeed(p, FALSE) \/ SendsAuth(p, FALSE)
  <2>1. PICK w \in BOOLEAN : SendsSeed(p, w) \/ SendsAuth(p, w)
    BY <1>1, HasRequest DEF AwaitsAuth, AwaitsSeed
  <2>2. Head(sending[p]).written = w
    <3>1. CASE SendsSeed(p, w)
      <4>1. Head(sending[p]) = SeedRequest(p, w)
        BY <3>1, OneRequest DEF SendsSeed
      <4>2. QED BY <4>1 DEF SeedRequest
    <3>2. CASE SendsAuth(p, w)
      <4>1. PICK seed \in signed[p] : Head(sending[p]) = AuthRequest(p, seed, w)
        BY <3>2, OneRequest DEF SendsAuth
      <4>2. QED BY <4>1 DEF AuthRequest
    <3>3. QED BY <2>1, <3>1, <3>2
  <2>3. QED
    BY <1>1, <2>1, <2>2
<1>6. PICK r \in SendRequest : sending[p] = <<r>> /\ receiving[p] = << >>
  <2>1. sending[p] \in Seq(SendRequest)
    BY DEF IInv, TypeOK, SendRequest
  <2>2. \E r : sending[p] = <<r>> /\ receiving[p] = << >>
    BY <1>5 DEF SendsSeed, SendsAuth
  <2>3. QED
    BY <1>1, <2>1, <2>2, OneRequest, ReadOne
<1>7. /\ [r EXCEPT !.written = TRUE] \in SendRequest /\ r.data \in Message
      /\ Head(sending[p]) = r
  BY <1>6, OneRequest DEF SendRequest
<1>8. sending'[p] = <<[r EXCEPT !.written = TRUE]>>
  <2>1. sending'[p] = [sending[p] EXCEPT ![1].written = TRUE]
    BY <1>1 DEF IInv, TypeOK
  <2>2. QED
    BY <1>6, <2>1, Written
<1>9. sending' \in [Peer -> Seq(SendRequest)] /\ sending'[q] = sending[q]
  <2>1. sending' = [sending EXCEPT ![p] = <<[r EXCEPT !.written = TRUE]>>]
    <3>1. sending' = [sending EXCEPT ![p] = [sending[p] EXCEPT ![1].written = TRUE]]
      BY <1>1
    <3>2. QED
      BY <1>6, <3>1, Written
  <2>2. <<[r EXCEPT !.written = TRUE]>> \in Seq(SendRequest)
    BY <1>7
  <2>3. QED
    BY <1>3, <2>1, <2>2 DEF IInv, TypeOK, SendRequest
<1>10. /\ inbox' \in [Peer -> Seq(Message)] /\ inbox'[p] = inbox[p]
       /\ inbox'[q] = Append(inbox[q], r.data)
       /\ inbox[p] \in Seq(Message) /\ inbox[q] \in Seq(Message)
  BY <1>1, <1>3, <1>7 DEF IInv, TypeOK
<1>11. TypeOK'
  <2>1. sending' \in [Peer -> Seq([data : Message, callback : {"seed_sent", "auth_sent"},
                                   written : BOOLEAN])]
    BY <1>9 DEF SendRequest
  <2>2. QED
    BY <1>1, <1>2, <1>10, <2>1, Zenon DEF IInv, TypeOK
<1>12. Waiting(p)' /\ answers'[p] = << >> /\ ~ thrown'[p] /\ answers'[p] # <<TRUE>>
  BY <1>1, <1>2, <1>4, OneAnswer DEF Waiting
<1>13. Knows(p)'
  <2>1. /\ RemoteDone(p) => RemoteDone(p)'
        /\ LocalDone(p) => LocalDone(p)'
    BY <1>1, <1>2 DEF RemoteDone, LocalDone
  <2>2. QED
    BY <1>1, <1>2, <1>4, <1>12, <2>1 DEF IInv, Knows
<1>14. /\ Len(inbox'[p]) = Len(inbox[p]) /\ Len(inbox'[q]) = Len(inbox[q]) + 1
       /\ Len(inbox[p]) \in Nat /\ Len(inbox[q]) \in Nat
  BY <1>10
<1>15. /\ r.data.type = "auth" => r.data.key = p /\ r.data.seed \in signed'[p]
       /\ RequestOf(p)'
       /\ Expects(p)' => inbox'[q] = Append(inbox[q], SeedMessage(p)')
       /\ Debt(p)' + Due(p) + 1 <= Debt(p) + Due(p)'
       /\ Debt(p) \in Nat /\ Due(p) \in Nat /\ Debt(p)' \in Nat /\ Due(p)' \in Nat
  <2>1. CASE SendsSeed(p, FALSE)
    <3>1. r = SeedRequest(p, FALSE) /\ r.data = SeedMessage(p) /\ r.data.type # "auth"
      <4>1. sending[p] = <<SeedRequest(p, FALSE)>>
        BY <2>1 DEF SendsSeed
      <4>2. r = SeedRequest(p, FALSE)
        BY <1>6, <4>1, OneRequest
      <4>3. QED BY <4>2 DEF SeedRequest, SeedMessage
    <3>2. SendsSeed(p, TRUE)'
      <4>1. SeedRequest(p, TRUE)' = [r EXCEPT !.written = TRUE]
        <5>1. SeedRequest(p, TRUE) = [r EXCEPT !.written = TRUE]
          BY <3>1, WrittenRecord, Zenon DEF SeedRequest
        <5>2. SeedRequest(p, TRUE)' = SeedRequest(p, TRUE)
          BY <1>2, Zenon DEF SeedRequest, SeedMessage
        <5>3. QED BY <5>1, <5>2, Zenon
      <4>2. QED
        BY <1>1, <1>2, <1>8, <2>1, <4>1 DEF SendsSeed, InRemoteHalf
    <3>3. RequestOf(p)'
      BY <1>2, <1>4, <1>12, <3>2 DEF RequestOf
    <3>4. ~ Expects(p) /\ ~ Owes(p)
      BY <2>1, Expecting
    <3>5. Expects(p)' /\ ~ Owes(p)'
      <4>1. /\ [r EXCEPT !.written = TRUE].callback = "seed_sent"
            /\ [r EXCEPT !.written = TRUE].written
        BY <3>1 DEF SeedRequest
      <4>2. sending'[p] # << >> /\ sending'[p][1] = [r EXCEPT !.written = TRUE]
        BY <1>8, OneRequest
      <4>3. QED
        BY <4>1, <4>2 DEF Expects, Owes
    <3>6. inbox'[q] = Append(inbox[q], SeedMessage(p)')
      BY <1>2, <1>10, <3>1 DEF SeedMessage
    <3>7. Debt(p) = 0 /\ Due(p) = 0 /\ Debt(p)' = 0 /\ Due(p)' = 1
      BY <3>4, <3>5 DEF Debt, Due
    <3>8. /\ Debt(p)' + Due(p) + 1 <= Debt(p) + Due(p)'
          /\ Debt(p) \in Nat /\ Due(p) \in Nat /\ Debt(p)' \in Nat /\ Due(p)' \in Nat
      BY <3>7
    <3>9. QED BY <3>1, <3>3, <3>6, <3>8, Zenon
  <2>2. CASE SendsAuth(p, FALSE)
    <3>1. PICK seed \in signed[p] : r = AuthRequest(p, seed, FALSE) /\ seed.of = Other(p)
      <4>1. PICK seed \in signed[p] : /\ sending[p] = <<AuthRequest(p, seed, FALSE)>>
                                      /\ seed.of = Other(p)
        BY <1>1, <2>2 DEF SendsAuth
      <4>2. r = AuthRequest(p, seed, FALSE)
        BY <1>6, <4>1, OneRequest
      <4>3. QED BY <4>1, <4>2
    <3>2. r.data.key = p /\ r.data.seed = seed
      BY <3>1 DEF AuthRequest, AuthMessage
    <3>3. [r EXCEPT !.written = TRUE] = AuthRequest(p, seed, TRUE)
      BY <3>1, WrittenRecord, Zenon DEF AuthRequest
    <3>4. SendsAuth(p, TRUE)'
      BY <1>1, <1>2, <1>6, <1>8, <2>2, <3>1, <3>3 DEF SendsAuth, InLocalHalf
    <3>5. RequestOf(p)'
      BY <1>2, <1>4, <1>12, <3>4 DEF RequestOf
    <3>6. ~ Expects(p) /\ Owes(p)
      BY <2>2, Expecting
    <3>7. ~ Expects(p)' /\ ~ Owes(p)'
      <4>1. /\ AuthRequest(p, seed, TRUE).callback = "auth_sent"
            /\ AuthRequest(p, seed, TRUE).written
        BY DEF AuthRequest
      <4>2. sending'[p] # << >> /\ sending'[p][1] = AuthRequest(p, seed, TRUE)
        BY <1>8, <3>3, OneRequest
      <4>3. receiving'[p] # <<"auth">>
        BY <1>1, <1>6, OneRequest
      <4>4. QED
        BY <4>1, <4>2, <4>3 DEF Expects, Owes
    <3>8. Debt(p) = 1 /\ Due(p) = 0 /\ Debt(p)' = 0 /\ Due(p)' = 0
      BY <3>6, <3>7 DEF Debt, Due
    <3>9. /\ Debt(p)' + Due(p) + 1 <= Debt(p) + Due(p)'
          /\ Debt(p) \in Nat /\ Due(p) \in Nat /\ Debt(p)' \in Nat /\ Due(p)' \in Nat
      BY <3>8
    <3>10. QED BY <1>1, <3>2, <3>5, <3>7, <3>9
  <2>3. QED BY <1>5, <2>1, <2>2
<1>16. Len(inbox'[p]) + Len(inbox'[q]) + Debt(p)' + Due(p)
          <= Len(inbox[p]) + Len(inbox[q]) + Debt(p) + Due(p)'
  <2>1. PICK a \in Nat, b \in Nat, c \in Nat, e \in Nat, c2 \in Nat, e2 \in Nat :
           /\ a = Len(inbox[p]) /\ b = Len(inbox[q]) /\ c = Debt(p) /\ e = Due(p)
           /\ c2 = Debt(p)' /\ e2 = Due(p)'
    BY <1>14, <1>15, Zenon
  <2>2. c2 + e + 1 <= c + e2
    BY <1>15, <2>1, Zenon
  <2>3. a + (b + 1) + c2 + e <= a + b + c + e2
    BY <2>2
  <2>4. QED
    BY <1>14, <2>1, <2>3, Zenon
<1>17. /\ attempt'[q] = attempt[q] /\ m_authentication_count'[q] = m_authentication_count[q]
       /\ m_authenticate_remote_first'[q] = m_authenticate_remote_first[q]
       /\ m_remote_seed'[q] = m_remote_seed[q]
       /\ m_remote_public_key'[q] = m_remote_public_key[q]
       /\ receiving'[q] = receiving[q] /\ answers'[q] = answers[q]
       /\ thrown'[q] = thrown[q] /\ signed'[q] = signed[q] /\ signed'[p] = signed[p]
  BY <1>1, <1>2
<1>18. QED
  BY <1>1, <1>3, <1>7, <1>9, <1>10, <1>11, <1>13, <1>15, <1>16, <1>17, StepOf

\* The application begins an attempt of p.
LEMMA BeginStep ==
    ASSUME IInv, NEW p \in Peer, NEW remoteFirst \in BOOLEAN, NEW size \in Sizes,
           Begin(p, remoteFirst, size)
    PROVE  IInv'
<1>1. /\ ~ Waiting(p) /\ attempt[p] < MaxAttempts /\ UNCHANGED <<inbox, open, signed>>
      /\ attempt' = [attempt EXCEPT ![p] = attempt[p] + 1]
      /\ m_authenticate_remote_first' = [m_authenticate_remote_first EXCEPT ![p] = remoteFirst]
      /\ m_remote_public_key' = [m_remote_public_key EXCEPT ![p] = NoKey]
  BY DEF Begin
<1>2. PICK seed, next :
         /\ seed = [of |-> p, attempt |-> attempt[p] + 1, size |-> size]
         /\ next = AuthenticateNext(p, CountSize - 1, remoteFirst, seed)
         /\ m_remote_seed' = [m_remote_seed EXCEPT ![p] = seed]
         /\ sending' = [sending EXCEPT ![p] = @ \o next.sends]
         /\ receiving' = [receiving EXCEPT ![p] = @ \o next.receives]
         /\ answers' = [answers EXCEPT ![p] = next.tells]
         /\ thrown' = [thrown EXCEPT ![p] = next.throws]
         /\ m_authentication_count' = [m_authentication_count EXCEPT ![p] = next.count]
  BY Zenon DEF Begin
<1>3. TypeOK /\ sending[p] = << >> /\ receiving[p] = << >>
  BY <1>1 DEF IInv, RequestOf
<1>4. PICK q \in Peer : q = Other(p) /\ q # p
  BY Others
<1>5. attempt[p] + 1 \in 1 .. MaxAttempts /\ attempt[p] + 1 \in 0 .. MaxAttempts
  BY <1>1, <1>3, ConfigAssumption DEF TypeOK
<1>6. seed \in Seed /\ seed.of = p
  BY <1>2, <1>5 DEF Seed
<1>7. 0 \in 0 .. CountSize - 1 /\ 0 = Increment(CountSize - 1)
  BY Counts
<1>8. Proceeds(0, remoteFirst, seed, next)
  BY <1>2, <1>3, <1>7, NextIs, Zenon
<1>9. /\ attempt' \in [Peer -> 0 .. MaxAttempts] /\ attempt'[p] > 0 /\ attempt'[q] = attempt[q]
      /\ m_authenticate_remote_first' \in [Peer -> BOOLEAN]
      /\ m_authenticate_remote_first'[p] = remoteFirst
      /\ m_authenticate_remote_first'[q] = m_authenticate_remote_first[q]
      /\ m_remote_public_key' \in [Peer -> Peer \cup {NoKey}]
      /\ m_remote_public_key'[q] = m_remote_public_key[q]
  <2>1. /\ attempt' \in [Peer -> 0 .. MaxAttempts] /\ attempt'[p] = attempt[p] + 1
        /\ attempt'[q] = attempt[q] /\ attempt[p] + 1 > 0
    BY <1>1, <1>3, <1>4, <1>5 DEF TypeOK
  <2>2. /\ m_authenticate_remote_first' \in [Peer -> BOOLEAN]
        /\ m_authenticate_remote_first'[p] = remoteFirst
        /\ m_authenticate_remote_first'[q] = m_authenticate_remote_first[q]
    BY <1>1, <1>3, <1>4, Zenon DEF TypeOK
  <2>3. /\ m_remote_public_key' \in [Peer -> Peer \cup {NoKey}]
        /\ m_remote_public_key'[q] = m_remote_public_key[q]
    BY <1>1, <1>3, <1>4 DEF TypeOK
  <2>4. QED BY <2>1, <2>2, <2>3
<1>10. /\ m_remote_seed' \in [Peer -> Seed \cup {NoSeed}] /\ m_remote_seed'[p] = seed
       /\ m_remote_seed'[q] = m_remote_seed[q]
  BY <1>2, <1>3, <1>4, <1>6 DEF TypeOK
<1>11. /\ next \in Change /\ next.count = 0 /\ next.throws = FALSE /\ next.tells = << >>
       /\ IF remoteFirst
          THEN /\ next.sends = <<[data |-> [type |-> "seed", seed |-> seed],
                                  callback |-> "seed_sent", written |-> FALSE]>>
               /\ next.receives = << >>
          ELSE next.sends = << >> /\ next.receives = <<"seed">>
  <2>1. CASE remoteFirst
    <3>1. next = [sends |-> <<[data |-> [type |-> "seed", seed |-> seed],
                               callback |-> "seed_sent", written |-> FALSE]>>,
                  receives |-> << >>, tells |-> << >>, count |-> 0, throws |-> FALSE]
      BY <1>8, <2>1 DEF Proceeds
    <3>2. next \in Change
      BY <1>6, <1>7, <3>1, RequestTypes, ChangeTypes
    <3>3. QED BY <2>1, <3>1, <3>2
  <2>2. CASE ~ remoteFirst
    <3>1. next = [sends |-> << >>, receives |-> <<"seed">>, tells |-> << >>,
                  count |-> 0, throws |-> FALSE]
      BY <1>8, <2>2 DEF Proceeds
    <3>2. next \in Change
      BY <1>7, <3>1, ChangeTypes
    <3>3. QED BY <2>2, <3>1, <3>2
  <2>3. QED BY <2>1, <2>2
<1>12. /\ sending' \in [Peer -> Seq(SendRequest)] /\ sending'[p] = next.sends
       /\ sending'[q] = sending[q]
       /\ receiving' \in [Peer -> Seq({"seed", "auth"})] /\ receiving'[p] = next.receives
       /\ receiving'[q] = receiving[q]
  <2>1. next.sends \in Seq(SendRequest) /\ next.receives \in Seq({"seed", "auth"})
    BY <1>11 DEF Change
  <2>2. << >> \o next.sends = next.sends /\ << >> \o next.receives = next.receives
    BY <2>1
  <2>3. /\ sending' = [sending EXCEPT ![p] = next.sends]
        /\ receiving' = [receiving EXCEPT ![p] = next.receives]
    BY <1>2, <1>3, <2>2
  <2>4. QED
    BY <1>3, <1>4, <2>1, <2>3 DEF TypeOK, SendRequest
<1>13. /\ answers' \in [Peer -> Seq(BOOLEAN)] /\ answers'[p] = << >> /\ answers'[q] = answers[q]
       /\ m_authentication_count' \in [Peer -> 0 .. CountSize - 1]
       /\ m_authentication_count'[p] = 0
       /\ m_authentication_count'[q] = m_authentication_count[q]
  <2>1. << >> \in Seq(BOOLEAN)
    OBVIOUS
  <2>2. /\ answers' = [answers EXCEPT ![p] = << >>]
        /\ m_authentication_count' = [m_authentication_count EXCEPT ![p] = 0]
    BY <1>2, <1>11
  <2>3. QED
    BY <1>3, <1>4, <1>7, <2>1, <2>2 DEF TypeOK
<1>14. /\ thrown' \in [Peer -> BOOLEAN] /\ ~ thrown'[p] /\ thrown'[q] = thrown[q]
  <2>1. thrown' = [thrown EXCEPT ![p] = FALSE]
    BY <1>2, <1>11, Zenon
  <2>2. QED
    BY <1>3, <1>4, <2>1, Zenon DEF TypeOK
<1>15. TypeOK'
  <2>1. inbox' \in [Peer -> Seq(Message)] /\ open' \in BOOLEAN /\ signed' \in [Peer -> SUBSET Seed]
    BY <1>1, <1>3, Zenon DEF TypeOK
  <2>2. sending' \in [Peer -> Seq([data : Message, callback : {"seed_sent", "auth_sent"},
                                   written : BOOLEAN])]
    BY <1>12 DEF SendRequest
  <2>3. QED
    BY <1>9, <1>10, <1>12, <1>13, <1>14, <2>1, <2>2, Zenon DEF TypeOK
<1>16. Waiting(p)' /\ Knows(p)'
  <2>1. answers'[p] # <<TRUE>>
    BY <1>13, OneAnswer
  <2>2. QED
    BY <1>9, <1>13, <2>1 DEF Waiting, Knows
<1>17. SendsSeed(p, FALSE)' \/ AwaitsSeed(p)'
  <2>1. CASE remoteFirst
    BY <1>9, <1>10, <1>11, <1>12, <1>13, <2>1
    DEF SendsSeed, SeedRequest, SeedMessage, InRemoteHalf
  <2>2. CASE ~ remoteFirst
    BY <1>9, <1>11, <1>12, <1>13, <2>2 DEF AwaitsSeed, InLocalHalf
  <2>3. QED BY <2>1, <2>2
<1>18. RequestOf(p)'
  BY <1>6, <1>10, <1>13, <1>14, <1>16, <1>17 DEF RequestOf
<1>19. ~ Expects(p) /\ ~ Owes(p) /\ ~ Expects(p)' /\ ~ Owes(p)'
  <2>1. ~ Expects(p) /\ ~ Owes(p)
    BY <1>3, Expecting
  <2>2. CASE remoteFirst
    <3>1. /\ sending'[p][1].callback = "seed_sent" /\ ~ sending'[p][1].written
          /\ receiving'[p] # <<"auth">>
      <4>1. PICK r : /\ sending'[p] = <<r>> /\ receiving'[p] = << >>
                     /\ r = [data |-> [type |-> "seed", seed |-> seed],
                             callback |-> "seed_sent", written |-> FALSE]
        BY <1>11, <1>12, <2>2
      <4>2. r.callback = "seed_sent" /\ ~ r.written
        BY <4>1
      <4>3. QED
        BY <4>1, <4>2, OneRequest
    <3>2. QED
      BY <2>1, <3>1 DEF Expects, Owes
  <2>3. CASE ~ remoteFirst
    <3>1. sending'[p] = << >> /\ Head(receiving'[p]) = "seed" /\ Head(<<"auth">>) = "auth"
      BY <1>11, <1>12, <2>3, OneRequest
    <3>2. QED
      BY <2>1, <3>1 DEF Expects, Owes
  <2>4. QED BY <2>2, <2>3
<1>20. /\ Debt(p) = 0 /\ Due(p) = 0 /\ Debt(p)' = 0 /\ Due(p)' = 0
       /\ Len(inbox[p]) \in Nat /\ Len(inbox[q]) \in Nat
  BY <1>3, <1>19 DEF Debt, Due, TypeOK
<1>21. Len(inbox'[p]) + Len(inbox'[q]) + Debt(p)' + Due(p)
          <= Len(inbox[p]) + Len(inbox[q]) + Debt(p) + Due(p)'
  BY <1>1, <1>20
<1>22. PICK message \in Message : message.type # "auth"
  BY <1>6, RequestTypes
<1>23. /\ signed'[q] = signed[q] /\ signed'[p] = signed[p] /\ inbox'[p] = inbox[p]
       /\ inbox'[q] = inbox[q] /\ open' = open
  BY <1>1
<1>24. QED
  BY <1>4, <1>9, <1>10, <1>12, <1>13, <1>14, <1>15, <1>16, <1>18, <1>19, <1>21, <1>22, <1>23,
     StepOf

\* Nothing changes, or the connection is lost.
LEMMA PeersRest ==
    ASSUME IInv, UNCHANGED <<attempts, progress, m_remote_public_key, inbox, signed>>,
           open' \in BOOLEAN, open' => open
    PROVE  IInv'
<1>1. UNCHANGED <<attempt, m_authenticate_remote_first, m_remote_seed, m_authentication_count,
                  sending, receiving, thrown, answers, m_remote_public_key, inbox, signed>>
  BY DEF attempts, progress
<1>2. TypeOK' /\ AnswersAreSigned'
  <2>1. TypeOK'
    BY <1>1, Zenon DEF IInv, TypeOK
  <2>2. QED
    BY <1>1, <2>1 DEF IInv, AnswersAreSigned
<1>3. ASSUME NEW p \in Peer PROVE RequestOf(p)' /\ Knows(p)' /\ InStep(p)' /\ SeedIsLast(p)'
  <2>1. \A q \in Peer : /\ RequestOf(q)' /\ Knows(q)'
                        /\ Expects(q)' <=> Expects(q)
                        /\ Owes(q)' <=> Owes(q)
                        /\ SeedMessage(q)' = SeedMessage(q)
    BY <1>1, Bystander DEF IInv
  <2>2. \A q \in Peer : Debt(q)' = Debt(q) /\ Due(q)' = Due(q)
    BY <2>1 DEF Debt, Due
  <2>3. InStep(p)'
    <3>1. InStep(p) /\ Other(p) \in Peer
      BY Others DEF IInv
    <3>2. /\ Debt(p)' = Debt(p) /\ Due(p)' = Due(p)
          /\ Debt(Other(p))' = Debt(Other(p)) /\ Due(Other(p))' = Due(Other(p))
      BY <2>2, <3>1
    <3>3. QED
      BY <1>1, <3>1, <3>2, Zenon DEF InStep
  <2>4. SeedIsLast(p)'
    BY <1>1, <2>1 DEF IInv, SeedIsLast
  <2>5. QED BY <2>1, <2>3, <2>4
<1>4. QED
  BY <1>2, <1>3 DEF IInv

-----------------------------------------------------------------------------
(* The theorems *)

LEMMA InitInvariant == Init => IInv
<1> SUFFICES ASSUME Init PROVE IInv
  OBVIOUS
<1>1. CountSize - 1 \in 0 .. CountSize - 1 /\ 0 \in 0 .. MaxAttempts /\ CountSize - 1 # 1
  BY CountAssumption, ConfigAssumption
<1>2. TypeOK
  <2>1. /\ attempt \in [Peer -> 0 .. MaxAttempts]
        /\ m_authentication_count \in [Peer -> 0 .. CountSize - 1]
        /\ m_remote_seed \in [Peer -> Seed \cup {NoSeed}]
        /\ m_remote_public_key \in [Peer -> Peer \cup {NoKey}]
        /\ receiving \in [Peer -> Seq({"seed", "auth"})]
        /\ inbox \in [Peer -> Seq(Message)]
        /\ signed \in [Peer -> SUBSET Seed]
    BY <1>1 DEF Init
  <2>2. /\ m_authenticate_remote_first \in [Peer -> BOOLEAN] /\ thrown \in [Peer -> BOOLEAN]
        /\ open \in BOOLEAN
    BY Zenon DEF Init
  <2>3. sending \in [Peer -> Seq([data : Message, callback : {"seed_sent", "auth_sent"},
                                  written : BOOLEAN])]
    BY DEF Init
  <2>4. answers \in [Peer -> Seq(BOOLEAN)]
    BY DEF Init
  <2>5. QED
    BY <2>1, <2>2, <2>3, <2>4, Zenon DEF TypeOK
<1>3. AnswersAreSigned
  BY DEF Init, AnswersAreSigned
<1>4. ASSUME NEW p \in Peer PROVE RequestOf(p) /\ Knows(p) /\ InStep(p) /\ SeedIsLast(p)
  <2>1. /\ attempt[p] = 0 /\ sending[p] = << >> /\ receiving[p] = << >> /\ inbox[p] = << >>
        /\ answers[p] = << >> /\ m_authentication_count[p] = CountSize - 1 /\ ~ thrown[p]
    BY DEF Init
  <2>2. ~ Waiting(p)
    BY <2>1 DEF Waiting
  <2>3. RequestOf(p)
    BY <2>1, <2>2 DEF RequestOf
  <2>4. Knows(p)
    BY <1>1, <2>1, <2>2, OneAnswer DEF Knows
  <2>5. PICK q \in Peer : q = Other(p)
    BY Others
  <2>6. inbox[q] = << >> /\ sending[q] = << >> /\ receiving[q] = << >>
    BY DEF Init
  <2>7. ~ Expects(p) /\ ~ Owes(p) /\ ~ Expects(q) /\ ~ Owes(q)
    BY <2>1, <2>6, Expecting
  <2>8. Debt(p) = 0 /\ Debt(q) = 0 /\ Due(p) = 0 /\ Due(q) = 0 /\ Len(<< >>) = 0
    BY <2>7 DEF Debt, Due
  <2>9. InStep(p)
    BY <2>1, <2>5, <2>6, <2>8 DEF InStep
  <2>10. QED
    BY <2>3, <2>4, <2>7, <2>9 DEF SeedIsLast
<1>5. QED
  BY <1>2, <1>3, <1>4 DEF IInv

LEMMA StepInvariant == IInv /\ [Next]_vars => IInv'
<1> SUFFICES ASSUME IInv, [Next]_vars PROVE IInv'
  OBVIOUS
<1>1. ASSUME NEW p \in Peer, Attempt(p) PROVE IInv'
  <2>1. PICK remoteFirst \in Orders[p], size \in Sizes : Begin(p, remoteFirst, size)
    BY <1>1 DEF Attempt
  <2>2. remoteFirst \in BOOLEAN
    BY <2>1, ConfigAssumption
  <2>3. QED
    BY <2>1, <2>2, BeginStep
<1>2. ASSUME NEW p \in Peer, Write(p) PROVE IInv'
  BY <1>2, WriteStep
<1>3. ASSUME NEW p \in Peer, SendCompletes(p) PROVE IInv'
  BY <1>3, SendDoneStep DEF SendCompletes
<1>4. ASSUME NEW p \in Peer, SeedArrives(p) PROVE IInv'
  BY <1>4, SeedArrivesStep
<1>5. ASSUME NEW p \in Peer, AuthArrives(p) PROVE IInv'
  BY <1>5, AuthArrivesStep
<1>6. ASSUME NEW p \in Peer, ReceiveFails(p) PROVE IInv'
  BY <1>6, ReceiveFailsStep
<1>7. ASSUME Disconnect PROVE IInv'
  BY <1>7, PeersRest DEF Disconnect
<1>8. ASSUME UNCHANGED vars PROVE IInv'
  BY <1>8, PeersRest DEF vars, IInv, TypeOK
<1>9. QED
  BY <1>1, <1>2, <1>3, <1>4, <1>5, <1>6, <1>7, <1>8 DEF Next

\* In every state the peers are as IInv says.
THEOREM InvariantHolds == Spec => []IInv
BY InitInvariant, StepInvariant, PTL DEF Spec

\* A peer whose callback has not been told an answer waits for one request, and
\* for none afterwards; it is told one answer, and the count that selects the
\* next step never exceeds 2, whatever becomes of the requests.
THEOREM OneStepAtATimeHolds == Spec => []OneStepAtATime
<1>1. IInv => OneStepAtATime
  <2> SUFFICES ASSUME IInv, NEW p \in Peer
               PROVE  /\ TypeOK
                      /\ Len(sending[p]) + Len(receiving[p]) = IF Waiting(p) THEN 1 ELSE 0
                      /\ Len(answers[p]) <= 1
                      /\ ~ thrown[p]
    BY DEF OneStepAtATime, IInv
  <2>1. RequestOf(p) /\ TypeOK
    BY DEF IInv
  <2>2. (\A r : Len(<<r>>) = 1) /\ Len(<< >>) = 0 /\ 0 + 0 = 0 /\ 0 + 1 = 1 /\ 1 + 0 = 1
    OBVIOUS
  <2>3. Len(sending[p]) + Len(receiving[p]) = IF Waiting(p) THEN 1 ELSE 0
    <3>1. CASE ~ Waiting(p)
      BY <2>1, <2>2, <3>1, Zenon DEF RequestOf
    <3>2. CASE Waiting(p)
      <4>1. \/ AwaitsAuth(p) \/ AwaitsSeed(p)
            \/ \E w \in BOOLEAN : SendsSeed(p, w) \/ SendsAuth(p, w)
        BY <2>1, <3>2 DEF RequestOf
      <4>2. CASE AwaitsAuth(p) \/ AwaitsSeed(p)
        BY <2>2, <3>2, <4>2, Zenon DEF AwaitsAuth, AwaitsSeed
      <4>3. CASE \E w \in BOOLEAN : SendsSeed(p, w) \/ SendsAuth(p, w)
        <5>1. \E r : sending[p] = <<r>> /\ receiving[p] = << >>
          BY <4>3 DEF SendsSeed, SendsAuth
        <5>2. QED BY <2>2, <3>2, <5>1, Zenon
      <4>4. QED BY <4>1, <4>2, <4>3
    <3>3. QED BY <3>1, <3>2
  <2>4. Len(answers[p]) <= 1
    <3>1. Len(<<TRUE>>) = 1 /\ Len(<<FALSE>>) = 1 /\ Len(<< >>) = 0
      OBVIOUS
    <3>2. Len(answers[p]) \in {0, 1}
      BY <2>1, <3>1, Zenon DEF RequestOf
    <3>3. PICK n \in {0, 1} : Len(answers[p]) = n
      BY <3>2, Zenon
    <3>4. n <= 1
      OBVIOUS
    <3>5. QED BY <3>3, <3>4, Zenon
  <2>5. QED
    BY <2>1, <2>3, <2>4 DEF RequestOf
<1>2. QED
  BY <1>1, InvariantHolds, PTL

\* The stream never lets a peer mistake an answer for a seed, however many
\* attempts went before on the same connection.
THEOREM SeedsAreFreshHolds == Spec => []SeedsAreFresh
<1>1. IInv => SeedsAreFresh
  <2> SUFFICES ASSUME IInv, NEW p \in Peer, open, receiving[p] = <<"seed">>, inbox[p] # << >>
               PROVE  inbox[p] = <<[type |-> "seed", seed |-> m_remote_seed[Other(p)]]>>
    BY DEF SeedsAreFresh
  <2>1. AwaitsSeed(p)
    <3>1. receiving[p] # << >> /\ receiving[p] # <<"auth">>
      BY OneRequest
    <3>2. QED
      BY <3>1, HasRequest DEF AwaitsAuth, SendsSeed, SendsAuth
  <2>2. PICK q \in Peer : q = Other(p)
    BY Others
  <2>3. QED
    BY <2>1, <2>2, SeedIsFresh DEF SeedMessage
<1>2. QED
  BY <1>1, InvariantHolds, PTL

\* A peer that is told TRUE has the key of its remote, which has signed the seed
\* of this attempt, and has itself signed a seed its remote has made; nothing
\* that earlier attempts left in the stream is taken for either.
THEOREM AuthenticHolds == Spec => []Authentic
<1>1. IInv => Authentic
  BY DEF IInv, Knows, RemoteDone, LocalDone, Authentic
<1>2. QED
  BY <1>1, InvariantHolds, PTL

=============================================================================
