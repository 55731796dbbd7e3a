--------------------------- MODULE NatProbeProofs ---------------------------
(***************************************************************************)
(* Proofs about NatProbe for any number of trials and attempts, any        *)
(* network and any NAT.                                                    *)
(*                                                                         *)
(* That no late answer is believed needs to know what any datagram, on     *)
(* its way, in the socket or half read, can say about the random data of   *)
(* this attempt (Known).  That the vote is right needs a bound on the      *)
(* trials that a remapping has spoilt: each one moves the last mapping     *)
(* that was stored (VotesCounted).                                         *)
(***************************************************************************)
EXTENDS NatProbe, SequenceTheorems, TLAPS

\* No datagram has random data that was not drawn yet, and a response to this
\* attempt's question tells what its sender has seen since the attempt began.
Known(d) ==
    /\ d.random <= random
    /\ d.random = random /\ d.from \in Returner =>
          /\ d.endpoint.mapping \in since .. remaps
          /\ d.endpoint.port = IF symmetric THEN d.from ELSE 1

AllKnown ==
    /\ \A d \in net : Known(d)
    /\ \A i \in DOMAIN inbox : \A j \in DOMAIN inbox[i] : Known(inbox[i][j].of)
    /\ \A j \in DOMAIN buffer : Known(buffer[j].of)

\* Where in the call each variable is what it should be.
Phases ==
    /\ pc \in {"vote", "succeeded"} => trial = Trials + 1 /\ returner = 1
    /\ pc \notin {"vote", "succeeded"} => trial <= Trials
    /\ pc \in {"receive", "check"} => attempt < MaxAttempts
    /\ pc = "check" => Len(buffer) = ResponseSize
    /\ pc = "succeeded" =>
          output = IF Wins(votes, Trials - votes) THEN "symmetric" ELSE "non_symmetric"

\* How often random data has been drawn: MaxAttempts times at most for each
\* returner in each trial.
Asked == 2 * (trial - 1) + (returner - 1)
Drawn ==
    IF pc \in {"attempt", "failed"} THEN attempt
    ELSE IF pc \in {"receive", "check"} THEN attempt + 1 ELSE 0
DrawsCounted == random <= Asked * MaxAttempts + Drawn

\* The endpoint that was stored last.
Latest == IF returner = 1 THEN external[2] ELSE external[1]

\* Behind a symmetric NAT every trial votes for it; otherwise a trial does only
\* if the mapping moved between its two endpoints, which are stored in order.
VotesCounted ==
    /\ Latest.mapping <= IF pc \in {"receive", "check"} THEN since ELSE remaps
    /\ returner = 2 => external[1].port = 1
    /\ votes <= trial - 1
    /\ symmetric => votes = trial - 1
    /\ ~ symmetric => votes <= Latest.mapping

IInv ==
    TypeOK /\ AllKnown /\ Phases /\ DrawsCounted /\ VotesCounted

-----------------------------------------------------------------------------
(* Lemmas about datagrams and numbers *)

\* A response is two pieces of itself.
LEMMA WholeIsPieces ==
    ASSUME NEW d \in Datagram
    PROVE  /\ Whole(d) \in Seq(Piece) /\ Len(Whole(d)) = ResponseSize
           /\ \A j \in DOMAIN Whole(d) : Whole(d)[j].of = d
BY DEF Whole, Piece, ResponseSize

\* Everything in the net, the socket and the buffer is of datagrams.
LEMMA HeardAreDatagrams ==
    ASSUME TypeOK
    PROVE  /\ \A d \in net : d \in Datagram
           /\ \A i \in DOMAIN inbox : \A j \in DOMAIN inbox[i] : inbox[i][j].of \in Datagram
           /\ \A j \in DOMAIN buffer : buffer[j].of \in Datagram
<1>1. ASSUME NEW p \in Seq(Piece), NEW j \in DOMAIN p
      PROVE  p[j].of \in Datagram
  <2>1. p[j] \in Piece
    BY <1>1, ElementOfSeq
  <2>2. QED
    BY <2>1 DEF Piece
<1>2. inbox \in Seq(Seq(Piece)) /\ buffer \in Seq(Piece) /\ \A d \in net : d \in Datagram
  BY DEF TypeOK
<1>3. \A i \in DOMAIN inbox : inbox[i] \in Seq(Piece)
  BY <1>2
<1>4. QED
  BY <1>1, <1>2, <1>3

\* What a datagram can say stays true while the random data does not change
\* and the NAT remaps.
LEMMA KnownStable ==
    ASSUME NEW d, Known(d), remaps \in Nat, since \in Nat,
           remaps' \in Nat, remaps' >= remaps, UNCHANGED <<random, since, symmetric>>
    PROVE  Known(d)'
BY DEF Known

\* The draws of a returner end before those of the next one begin.
LEMMA NextAsked ==
    ASSUME NEW k \in Nat, NEW m \in Nat
    PROVE  (k + 1) * m = k * m + m
OBVIOUS

\* The draws of all returners in all trials are no more than Draw allows.
LEMMA DrawsEnd ==
    ASSUME NEW asked \in Nat, asked + 1 <= 2 * Trials,
           NEW drawn \in Nat, drawn <= MaxAttempts,
           NEW r \in Nat, r <= asked * MaxAttempts + drawn
    PROVE  r \in Draw
<1> USE AttemptsAssumption, TrialsAssumption
<1>1. (asked + 1) * MaxAttempts <= 2 * Trials * MaxAttempts
  OBVIOUS
<1>2. r <= (asked + 1) * MaxAttempts
  BY NextAsked
<1>3. 2 * Trials * MaxAttempts \in Nat /\ (asked + 1) * MaxAttempts \in Nat
  OBVIOUS
<1>4. QED
  BY <1>1, <1>2, <1>3 DEF Draw

-----------------------------------------------------------------------------
(* The invariant *)

\* Nothing is on its way when the call begins.
LEMMA InitInvariant == Init => IInv
<1> SUFFICES ASSUME Init PROVE IInv
    OBVIOUS
<1> USE AttemptsAssumption, TrialsAssumption, BoundsAssumption
<1>1. TypeOK
  <2>1. random \in Draw
    BY DEF Init, Draw
  <2>2. external \in [Returner -> Endpoint]
    BY DEF Init, Returner, Nowhere, Endpoint
  <2>3. {elapsed, symmetric} \subseteq BOOLEAN
    BY Zenon DEF Init
  <2>4. inbox \in Seq(Seq(Piece)) /\ Len(inbox) <= MaxInbox
    BY DEF Init
  <2>5. buffer \in Seq(Piece) /\ Len(buffer) <= ResponseSize
    BY DEF Init, ResponseSize
  <2>6. QED
    BY <2>1, <2>2, <2>3, <2>4, <2>5 DEF Init, TypeOK, Returner
<1>2. AllKnown
  BY DEF Init, AllKnown
<1>3. Phases
  BY DEF Init, Phases
<1>4. DrawsCounted
  BY DEF Init, DrawsCounted, Asked, Drawn
<1>5. VotesCounted
  BY DEF Init, VotesCounted, Latest, Nowhere, Returner
<1>6. QED
  BY <1>1, <1>2, <1>3, <1>4, <1>5 DEF IInv

\* A returner answers with what it sees now.
LEMMA AnswerStep == ASSUME IInv, Answer PROVE IInv'
<1> USE DEF IInv
<1>1. PICK q \in net : IsQuestion(q) /\ net' = (net \ {q}) \cup {Response(q, SeenFrom(q.to))}
  BY DEF Answer
<1> DEFINE r == Response(q, SeenFrom(q.to))
<1>2. q \in Datagram /\ q.to \in Returner /\ Known(q)
  BY <1>1 DEF TypeOK, AllKnown, IsQuestion
<1>3. /\ r \in Datagram
      /\ r.from = q.to /\ r.random = q.random /\ r.endpoint.mapping = remaps
      /\ r.endpoint.port = IF symmetric THEN r.from ELSE 1
  BY <1>2 DEF Response, SeenFrom, Datagram, Endpoint, Returner, Stranger, TypeOK
<1>4. Known(r)
  BY <1>2, <1>3 DEF Known, TypeOK
<1>5. UNCHANGED <<pc, trial, returner, votes, output, attempt, random, buffer, elapsed, external,
                  inbox, symmetric, remaps, strays, since>>
  BY DEF Answer, probe, world
<1>6. TypeOK'
  BY <1>1, <1>3, <1>5 DEF TypeOK
<1>7. AllKnown'
  BY <1>1, <1>4, <1>5 DEF AllKnown, Known
<1>8. Phases' /\ DrawsCounted' /\ VotesCounted'
  BY <1>5 DEF Phases, DrawsCounted, Asked, Drawn, VotesCounted, Latest
<1>9. QED BY <1>6, <1>7, <1>8

\* A datagram that arrives says what it said before.
LEMMA DeliverStep == ASSUME IInv, Deliver PROVE IInv'
<1> USE DEF IInv
<1>1. PICK d \in net : inbox' = Append(inbox, Whole(d)) /\ net' \in {net, net \ {d}}
  BY DEF Deliver
<1>2. d \in Datagram /\ Known(d)
  BY DEF TypeOK, AllKnown
<1>3. /\ Whole(d) \in Seq(Piece)
      /\ \A j \in DOMAIN Whole(d) : Whole(d)[j].of = d
  BY <1>2, WholeIsPieces
<1>4. UNCHANGED <<pc, trial, returner, votes, output, attempt, random, buffer, elapsed, external,
                  symmetric, remaps, strays, since>>
  BY DEF Deliver, probe, world
<1>5. TypeOK'
  <2>1. inbox' \in Seq(Seq(Piece)) /\ Len(inbox') <= MaxInbox
    BY <1>1, <1>3, BoundsAssumption DEF TypeOK, Deliver
  <2>2. \A e \in net' : e \in Datagram
    BY <1>1 DEF TypeOK
  <2>3. QED
    BY <1>4, <2>1, <2>2 DEF TypeOK
<1>6. ASSUME NEW i \in DOMAIN inbox', NEW j \in DOMAIN inbox'[i]
      PROVE  Known(inbox'[i][j].of)
  <2>1. CASE i \in DOMAIN inbox
    BY <1>1, <1>6, <2>1 DEF TypeOK, AllKnown
  <2>2. CASE i = Len(inbox) + 1
    BY <1>1, <1>2, <1>3, <1>6, <2>2 DEF TypeOK
  <2>3. QED BY <1>1, <2>1, <2>2 DEF TypeOK
<1>7. AllKnown'
  BY <1>1, <1>4, <1>6 DEF AllKnown, Known
<1>8. Phases' /\ DrawsCounted' /\ VotesCounted'
  BY <1>4 DEF Phases, DrawsCounted, Asked, Drawn, VotesCounted, Latest
<1>9. QED BY <1>5, <1>7, <1>8

\* A stranger's datagram is nobody's answer.
LEMMA StrayStep == ASSUME IInv, Stray PROVE IInv'
<1> USE DEF IInv, Stray
<1>1. UNCHANGED <<pc, trial, returner, votes, output, attempt, random, buffer, elapsed, external,
                  net, symmetric, remaps, since>>
  BY DEF probe
<1>2. /\ Short \in Seq(Piece) /\ Len(Short) = 1
      /\ Short[1].of.random = 0 /\ Short[1].of.from = 0
  BY AttemptsAssumption, TrialsAssumption, BoundsAssumption
     DEF Short, Question, Stranger, Nowhere, Piece, Datagram, Endpoint, Draw, ResponseSize
<1>3. TypeOK'
  <2>1. inbox' \in Seq(Seq(Piece)) /\ Len(inbox') <= MaxInbox
    BY <1>2, BoundsAssumption DEF TypeOK
  <2>2. strays' \in 0 .. MaxStrays
    BY BoundsAssumption DEF TypeOK
  <2>3. QED
    BY <1>1, <2>1, <2>2 DEF TypeOK
<1>4. Known(Short[1].of)
  BY <1>2 DEF Known, Returner, TypeOK, Draw
<1>5. ASSUME NEW i \in DOMAIN inbox', NEW j \in DOMAIN inbox'[i]
      PROVE  Known(inbox'[i][j].of)
  <2>1. CASE i \in DOMAIN inbox
    BY <1>5, <2>1 DEF TypeOK, AllKnown
  <2>2. CASE i = Len(inbox) + 1
    BY <1>2, <1>4, <1>5, <2>2 DEF TypeOK
  <2>3. QED BY <2>1, <2>2 DEF TypeOK
<1>6. AllKnown'
  BY <1>1, <1>5 DEF AllKnown, Known
<1>7. Phases' /\ DrawsCounted' /\ VotesCounted'
  BY <1>1 DEF Phases, DrawsCounted, Asked, Drawn, VotesCounted, Latest
<1>8. QED BY <1>3, <1>6, <1>7

\* When the mapping changes, what has been seen is still in the range.
LEMMA RemapStep == ASSUME IInv, Remap PROVE IInv'
<1> USE DEF IInv, Remap
<1>1. UNCHANGED <<pc, trial, returner, votes, output, attempt, random, buffer, elapsed, external,
                  inbox, net, symmetric, strays, since>>
  BY DEF probe
<1>2. TypeOK'
  BY <1>1, BoundsAssumption DEF TypeOK
<1>3. remaps' \in Nat /\ remaps' >= remaps /\ remaps \in Nat /\ since \in Nat
  BY BoundsAssumption DEF TypeOK
<1>4. AllKnown'
  BY <1>1, <1>3, KnownStable DEF AllKnown
<1>5. Phases' /\ DrawsCounted'
  BY <1>1 DEF Phases, DrawsCounted, Asked, Drawn
<1>6. VotesCounted'
  <2>1. Latest.mapping \in Nat
    BY DEF Latest, TypeOK, Endpoint, Returner
  <2>2. QED
    BY <1>1, <1>3, <2>1 DEF VotesCounted, Latest
<1>7. QED BY <1>2, <1>4, <1>5, <1>6

\* A socket that was opened again has received nothing.
LEMMA ReopenStep == ASSUME IInv, Reopen PROVE IInv'
<1> USE DEF IInv
<1>1. UNCHANGED <<trial, returner, votes, output, random, buffer, elapsed, external, net,
                  symmetric, remaps, strays, since>>
  BY DEF Reopen, probe, world
<1>2. /\ pc = "reopen" /\ pc' \in {"attempt", "thrown"}
      /\ pc' = "attempt" => attempt' = 0
      /\ attempt' \in {0, attempt} /\ inbox' \in {<< >>, inbox}
  BY DEF Reopen
<1>3. TypeOK'
  <2>1. attempt' \in 0 .. MaxAttempts
    BY <1>2, AttemptsAssumption DEF TypeOK
  <2>2. inbox' \in Seq(Seq(Piece)) /\ Len(inbox') <= MaxInbox
    <3>1. CASE inbox' = << >>
      BY <3>1, BoundsAssumption
    <3>2. CASE inbox' = inbox
      BY <3>2 DEF TypeOK
    <3>3. QED BY <1>2, <3>1, <3>2
  <2>3. QED
    BY <1>1, <1>2, <2>1, <2>2 DEF TypeOK
<1>4. AllKnown'
  BY <1>1, <1>2 DEF AllKnown, Known
<1>5. Phases'
  BY <1>1, <1>2 DEF Phases
<1>6. DrawsCounted'
  BY <1>1, <1>2 DEF DrawsCounted, Asked, Drawn
<1>7. VotesCounted'
  BY <1>1, <1>2 DEF VotesCounted, Latest
<1>8. QED BY <1>3, <1>4, <1>5, <1>6, <1>7

\* An attempt draws random data that no datagram has, or is the last one.
LEMMA AttemptStep == ASSUME IInv, Attempt PROVE IInv'
<1> USE DEF IInv
<1>1. UNCHANGED <<trial, returner, votes, output, external, inbox, symmetric, remaps, strays>>
  BY DEF Attempt, probe, world
<1>2. CASE ~ AttemptsLeft
  <2>1. pc = "attempt" /\ pc' = "failed"
        /\ UNCHANGED <<attempt, random, net, buffer, elapsed, since>>
    BY <1>2 DEF Attempt
  <2>2. TypeOK'
    BY <1>1, <2>1 DEF TypeOK
  <2>3. AllKnown'
    BY <1>1, <2>1 DEF AllKnown, Known
  <2>4. Phases' /\ DrawsCounted' /\ VotesCounted'
    BY <1>1, <2>1 DEF Phases, DrawsCounted, Asked, Drawn, VotesCounted, Latest
  <2>5. QED BY <2>2, <2>3, <2>4
<1>3. CASE AttemptsLeft
  <2>1. pc = "attempt" /\ attempt < MaxAttempts /\ random' = random + 1
    BY <1>3 DEF Attempt, AttemptsLeft
  <2>2. random \in Nat /\ attempt \in Nat /\ attempt + 1 <= MaxAttempts
    BY <2>1, AttemptsAssumption DEF TypeOK, Draw
  <2>3. Asked \in Nat /\ Asked + 1 <= 2 * Trials /\ random <= Asked * MaxAttempts + attempt
    BY <2>1, TrialsAssumption DEF TypeOK, Phases, DrawsCounted, Asked, Drawn, Returner
  <2>4. random' <= Asked * MaxAttempts + (attempt + 1)
    BY <2>1, <2>2, <2>3, AttemptsAssumption
  <2>5. random' \in Draw
    BY <2>1, <2>2, <2>3, <2>4, DrawsEnd
  <2> DEFINE Older(d) == d.random \in Nat /\ d.random < random'
  <2>6. \A d \in Datagram : Known(d) => Older(d)
    BY <2>1, <2>2 DEF Known, Datagram, Draw
  \* Whatever was known before is about data drawn earlier.
  <2>7. /\ \A d \in net : Older(d)
        /\ \A i \in DOMAIN inbox : \A j \in DOMAIN inbox[i] : Older(inbox[i][j].of)
        /\ \A j \in DOMAIN buffer : Older(buffer[j].of)
    <3> HIDE DEF Older
    <3> QED BY <2>6, HeardAreDatagrams DEF AllKnown
  <2>8. \A d : Older(d) => Known(d)'
    BY <2>1, <2>2 DEF Known
  <2> HIDE DEF Older
  <2>9. CASE pc' = "receive"
    <3>0. PICK q : q = Question(returner, random')
      OBVIOUS
    <3>1. PICK kept \in SUBSET net : net' = kept \cup {q}
      BY <1>3, <2>9, <3>0 DEF Attempt, Retry
    <3>2. buffer' = << >> /\ elapsed' = FALSE /\ since' = remaps /\ attempt' = attempt
      BY <1>3, <2>9 DEF Attempt, Retry
    <3>3. q \in Datagram /\ q.from \notin Returner /\ q.random = random'
      BY <2>5, <3>0, BoundsAssumption
         DEF Question, Datagram, Nowhere, Endpoint, Stranger, Returner, TypeOK
    <3>4. Known(q)'
      BY <2>1, <2>2, <3>3 DEF Known
    <3>5. AllKnown'
      BY <1>1, <2>7, <2>8, <3>1, <3>2, <3>4 DEF AllKnown
    <3>6. TypeOK'
      <4>1. \A d \in net' : d \in Datagram
        BY <3>1, <3>3 DEF TypeOK
      <4>2. buffer' \in Seq(Piece) /\ Len(buffer') <= ResponseSize
        BY <3>2 DEF ResponseSize
      <4>3. since' \in 0 .. remaps'
        BY <1>1, <3>2, BoundsAssumption DEF TypeOK
      <4>4. {elapsed', symmetric'} \subseteq BOOLEAN
        BY Zenon, <1>1, <3>2 DEF TypeOK
      <4>5. QED
        BY <1>1, <2>5, <2>9, <3>2, <4>1, <4>2, <4>3, <4>4 DEF TypeOK
    <3>7. Phases'
      BY <1>1, <2>1, <2>9, <3>2 DEF Phases
    <3>8. DrawsCounted'
      BY <1>1, <2>4, <2>9, <3>2 DEF DrawsCounted, Asked, Drawn
    <3>9. VotesCounted'
      BY <1>1, <2>1, <2>9, <3>2 DEF VotesCounted, Latest
    <3>10. QED BY <3>5, <3>6, <3>7, <3>8, <3>9
  <2>10. CASE Retry /\ UNCHANGED <<net, elapsed, since>>
    <3>1. pc' = "attempt" /\ attempt' = attempt + 1 /\ buffer' = << >>
          /\ UNCHANGED <<net, elapsed, since>>
      BY <2>10 DEF Retry
    <3>2. AllKnown'
      BY <1>1, <2>7, <2>8, <3>1 DEF AllKnown
    <3>3. TypeOK'
      <4>1. buffer' \in Seq(Piece) /\ Len(buffer') <= ResponseSize
        BY <3>1 DEF ResponseSize
      <4>2. attempt' \in 0 .. MaxAttempts
        BY <2>2, <3>1, AttemptsAssumption
      <4>3. QED
        BY <1>1, <2>5, <3>1, <4>1, <4>2 DEF TypeOK
    <3>4. Phases'
      BY <1>1, <2>1, <3>1 DEF Phases
    <3>5. DrawsCounted'
      BY <1>1, <2>4, <3>1 DEF DrawsCounted, Asked, Drawn
    <3>6. VotesCounted'
      BY <1>1, <2>1, <3>1 DEF VotesCounted, Latest
    <3>7. QED BY <3>2, <3>3, <3>4, <3>5, <3>6
  <2>11. QED
    BY <1>3, <2>9, <2>10 DEF Attempt
<1>4. QED BY <1>2, <1>3

\* Time changes nothing but the clock.
LEMMA ElapseStep == ASSUME IInv, Elapse PROVE IInv'
<1> USE DEF IInv
<1>1. UNCHANGED <<pc, trial, returner, votes, output, attempt, random, buffer, external, inbox,
                  net, symmetric, remaps, strays, since>>
  BY DEF Elapse, probe, world
<1>2. TypeOK'
  <2>1. {elapsed', symmetric'} \subseteq BOOLEAN
    BY Zenon, <1>1 DEF TypeOK, Elapse
  <2>2. QED
    BY <1>1, <2>1 DEF TypeOK
<1>3. AllKnown'
  BY <1>1 DEF AllKnown, Known
<1>4. Phases' /\ DrawsCounted' /\ VotesCounted'
  BY <1>1 DEF Phases, DrawsCounted, Asked, Drawn, VotesCounted, Latest
<1>5. QED BY <1>2, <1>3, <1>4

\* The vote.
LEMMA VoteStep == ASSUME IInv, Vote PROVE IInv'
<1> USE DEF IInv
<1>1. /\ pc = "vote" /\ pc' = "succeeded"
      /\ output' = IF Wins(votes, Trials - votes) THEN "symmetric" ELSE "non_symmetric"
      /\ UNCHANGED <<trial, returner, votes, attempt, random, buffer, elapsed, external, inbox,
                     net, symmetric, remaps, strays, since>>
  BY DEF Vote, world
<1>2. TypeOK'
  BY <1>1 DEF TypeOK
<1>3. AllKnown'
  BY <1>1 DEF AllKnown, Known
<1>4. Phases'
  BY <1>1 DEF Phases, Wins
<1>5. DrawsCounted' /\ VotesCounted'
  BY <1>1 DEF DrawsCounted, Asked, Drawn, VotesCounted, Latest
<1>6. QED BY <1>2, <1>3, <1>4, <1>5

\* A turn of the receive loop moves pieces from the socket to the buffer.
LEMMA ReceiveStep == ASSUME IInv, Receive PROVE IInv'
<1> USE DEF IInv
<1> DEFINE room == ResponseSize - Len(buffer)
           datagram == IF inbox = << >> THEN << >> ELSE Head(inbox)
           read == SubSeq(datagram, 1, IF Len(datagram) <= room THEN Len(datagram) ELSE room)
<1>1. UNCHANGED <<trial, returner, votes, output, random, elapsed, external, net, symmetric,
                  remaps, strays, since>>
  BY DEF Receive, probe, world
<1>2. /\ pc = "receive"
      /\ inbox' = IF inbox = << >> THEN << >> ELSE Tail(inbox)
      /\ \/ Retry
         \/ /\ buffer' = buffer \o read
            /\ pc' = IF Len(buffer') = ResponseSize THEN "check" ELSE "receive"
            /\ UNCHANGED attempt
  BY DEF Receive
<1>3. inbox \in Seq(Seq(Piece)) /\ Len(inbox) <= MaxInbox
      /\ buffer \in Seq(Piece) /\ Len(buffer) <= ResponseSize
  BY DEF TypeOK
<1>4. attempt \in Nat /\ attempt < MaxAttempts
  BY <1>2, AttemptsAssumption DEF TypeOK, Phases
<1>5. inbox' \in Seq(Seq(Piece)) /\ Len(inbox') <= MaxInbox
      /\ \A i \in DOMAIN inbox' : \A j \in DOMAIN inbox'[i] : Known(inbox'[i][j].of)
  <2>1. CASE inbox = << >>
    BY <1>2, <1>3, <2>1
  <2>2. CASE inbox # << >>
    <3>1. inbox' \in Seq(Seq(Piece)) /\ Len(inbox') = Len(inbox) - 1
          /\ \A i \in DOMAIN inbox' : i + 1 \in DOMAIN inbox /\ inbox'[i] = inbox[i + 1]
      BY <1>2, <1>3, <2>2
    <3>2. ASSUME NEW i \in DOMAIN inbox', NEW j \in DOMAIN inbox'[i]
          PROVE  Known(inbox'[i][j].of)
      BY <3>1, <3>2 DEF AllKnown
    <3>3. QED
      BY <1>3, <3>1, <3>2, BoundsAssumption
  <2>3. QED BY <2>1, <2>2
<1>6. datagram \in Seq(Piece) /\ \A j \in DOMAIN datagram : Known(datagram[j].of)
  <2>1. CASE inbox = << >>
    BY <2>1
  <2>2. CASE inbox # << >>
    BY <1>3, <2>2 DEF AllKnown
  <2>3. QED BY <2>1, <2>2
<1>7. /\ read \in Seq(Piece) /\ Len(read) <= room
      /\ \A j \in DOMAIN read : j \in DOMAIN datagram /\ read[j] = datagram[j]
  <2> HIDE DEF datagram
  <2>1. room \in Nat
    BY <1>3 DEF ResponseSize
  <2>2. CASE Len(datagram) <= room
    BY <1>6, <2>1, <2>2
  <2>3. CASE Len(datagram) > room
    BY <1>6, <2>1, <2>3
  <2>4. QED BY <1>6, <2>1, <2>2, <2>3
<1>8. CASE Retry
  <2>1. pc' = "attempt" /\ attempt' = attempt + 1 /\ buffer' = << >>
    BY <1>8 DEF Retry
  <2>2. AllKnown'
    BY <1>1, <1>5, <2>1 DEF AllKnown, Known
  <2>3. TypeOK'
    <3>1. buffer' \in Seq(Piece) /\ Len(buffer') <= ResponseSize
      BY <2>1 DEF ResponseSize
    <3>2. attempt' \in 0 .. MaxAttempts
      BY <1>4, <2>1, AttemptsAssumption
    <3>3. QED
      BY <1>1, <1>5, <2>1, <3>1, <3>2 DEF TypeOK
  <2>4. Phases'
    BY <1>1, <1>2, <2>1 DEF Phases
  <2>5. DrawsCounted'
    BY <1>1, <1>2, <2>1 DEF DrawsCounted, Asked, Drawn
  <2>6. VotesCounted'
    BY <1>1, <1>2, <2>1, BoundsAssumption
       DEF VotesCounted, Latest, TypeOK, Endpoint, Returner
  <2>7. QED BY <2>2, <2>3, <2>4, <2>5, <2>6
<1>9. CASE /\ buffer' = buffer \o read
           /\ pc' = IF Len(buffer') = ResponseSize THEN "check" ELSE "receive"
           /\ UNCHANGED attempt
  <2> HIDE DEF read
  <2>1. buffer' \in Seq(Piece) /\ Len(buffer') <= ResponseSize
    BY <1>3, <1>7, <1>9 DEF ResponseSize
  <2>2. ASSUME NEW j \in DOMAIN buffer'
        PROVE  Known(buffer'[j].of)
    <3>1. CASE j \in DOMAIN buffer
      BY <1>3, <1>7, <1>9, <2>2, <3>1 DEF AllKnown
    <3>2. CASE j \notin DOMAIN buffer
      <4>1. j - Len(buffer) \in DOMAIN read /\ buffer'[j] = read[j - Len(buffer)]
        BY <1>3, <1>7, <1>9, <2>2, <3>2
      <4>2. QED
        BY <1>6, <1>7, <4>1
    <3>3. QED BY <3>1, <3>2
  <2>3. AllKnown'
    BY <1>1, <1>5, <2>2 DEF AllKnown, Known
  <2>4. TypeOK'
    BY <1>1, <1>5, <1>9, <2>1 DEF TypeOK
  <2>5. Phases'
    BY <1>1, <1>2, <1>9 DEF Phases
  <2>6. DrawsCounted' /\ VotesCounted'
    BY <1>1, <1>2, <1>9 DEF DrawsCounted, Asked, Drawn, VotesCounted, Latest
  <2>7. QED BY <2>3, <2>4, <2>5, <2>6
<1>10. QED BY <1>2, <1>8, <1>9

\* What Check stores is what the returner that was asked has seen since the
\* attempt began.
LEMMA FoundIsFresh ==
    ASSUME IInv, pc = "check", Believes(buffer[1].of)
    PROVE  /\ buffer[1].of.endpoint \in Endpoint
           /\ buffer[1].of.endpoint.mapping \in since .. remaps
           /\ buffer[1].of.endpoint.port = IF symmetric THEN returner ELSE 1
<1>1. buffer \in Seq(Piece) /\ 1 \in DOMAIN buffer
  BY DEF IInv, TypeOK, Phases, ResponseSize
<1>2. buffer[1].of \in Datagram /\ Known(buffer[1].of)
  BY <1>1, HeardAreDatagrams DEF IInv, AllKnown
<1>3. buffer[1].of.random = random /\ buffer[1].of.from = returner /\ returner \in Returner
  BY DEF Believes, IInv, TypeOK
<1>4. QED
  BY <1>2, <1>3 DEF Known, Datagram

\* A check that does not believe the buffer costs an attempt; one that does
\* stores an endpoint, and the second endpoint of a trial votes.
LEMMA CheckStep == ASSUME IInv, Check PROVE IInv'
<1> USE DEF IInv
<1> DEFINE endpoint == buffer[1].of.endpoint
<1>1. /\ pc = "check" /\ attempt \in Nat /\ attempt < MaxAttempts /\ trial \in 1 .. Trials
      /\ returner \in {1, 2} /\ random \in Nat
      /\ UNCHANGED <<output, random, elapsed, inbox, net, symmetric, remaps, strays, since>>
  BY AttemptsAssumption, TrialsAssumption DEF Check, world, Phases, TypeOK, Returner, Draw
<1>2. buffer' = << >>
  BY DEF Check, Retry
<1>3. AllKnown'
  BY <1>1, <1>2 DEF AllKnown, Known
<1>4. buffer' \in Seq(Piece) /\ Len(buffer') <= ResponseSize
  BY <1>2 DEF ResponseSize
<1>5. CASE Retry /\ UNCHANGED <<external, returner, trial, votes>>
  <2>1. pc' = "attempt" /\ attempt' = attempt + 1
    BY <1>5 DEF Retry
  <2>2. attempt' \in 0 .. MaxAttempts
    BY <1>1, <2>1, AttemptsAssumption
  <2>3. TypeOK'
    BY <1>1, <1>4, <1>5, <2>1, <2>2 DEF TypeOK
  <2>4. Phases' /\ DrawsCounted'
    BY <1>1, <1>5, <2>1 DEF Phases, DrawsCounted, Asked, Drawn
  <2>5. VotesCounted'
    BY <1>1, <1>5, <2>1, BoundsAssumption
       DEF VotesCounted, Latest, TypeOK, Endpoint, Returner
  <2>6. QED BY <1>3, <2>3, <2>4, <2>5
<1>6. CASE Believes(buffer[1].of) /\ Found(endpoint) /\ UNCHANGED attempt
  <2>1. endpoint \in Endpoint /\ endpoint.mapping \in since .. remaps
        /\ endpoint.port = IF symmetric THEN returner ELSE 1
    BY <1>1, <1>6, FoundIsFresh
  <2> HIDE DEF endpoint
  <2>2. external' = [external EXCEPT ![returner] = endpoint]
        /\ external \in [Returner -> Endpoint] /\ external' \in [Returner -> Endpoint]
    BY <1>6, <2>1 DEF Found, TypeOK
  <2>3. external'[returner] = endpoint
        /\ \A r \in Returner \ {returner} : external'[r] = external[r]
    BY <2>2 DEF TypeOK
  <2>4. since \in Nat /\ remaps \in Nat /\ since <= remaps /\ Latest.mapping <= since
        /\ external[1].mapping \in Nat /\ external[2].mapping \in Nat /\ votes \in Nat
    BY <1>1, <2>2, BoundsAssumption, TrialsAssumption
       DEF TypeOK, VotesCounted, Returner, Endpoint
  \* The draws of this returner are over.
  <2>5. random <= (Asked + 1) * MaxAttempts /\ Asked \in Nat
    <3>1. Asked \in Nat /\ random <= Asked * MaxAttempts + (attempt + 1)
      BY <1>1 DEF DrawsCounted, Asked, Drawn
    <3>2. QED
      BY <1>1, <3>1, NextAsked, AttemptsAssumption
  <2>6. CASE returner = 1
    <3>1. returner' = 2 /\ pc' = "reopen" /\ UNCHANGED <<trial, votes>>
      BY <1>6, <2>6 DEF Found
    <3>2. TypeOK'
      BY <1>1, <1>4, <1>6, <2>2, <3>1 DEF TypeOK, Returner
    <3>3. Phases'
      BY <1>1, <3>1 DEF Phases
    <3>4. DrawsCounted'
      <4>1. Asked' = Asked + 1 /\ Drawn' = 0
        BY <1>1, <2>6, <3>1 DEF Asked, Drawn
      <4>2. QED
        BY <1>1, <2>5, <4>1, AttemptsAssumption DEF DrawsCounted
    <3>5. VotesCounted'
      <4>1. Latest' = endpoint /\ Latest = external[2]
        BY <2>3, <2>6, <3>1 DEF Latest
      <4>2. endpoint.port = 1
        BY <2>1, <2>6
      <4>3. QED
        BY <1>1, <2>1, <2>3, <2>4, <2>6, <3>1, <4>1, <4>2 DEF VotesCounted
    <3>6. QED BY <1>3, <3>2, <3>3, <3>4, <3>5
  <2>7. CASE returner = 2
    <3>1. /\ returner' = 1 /\ trial' = trial + 1
          /\ votes' = IF external'[1] # external'[2] THEN votes + 1 ELSE votes
          /\ pc' = IF trial < Trials THEN "reopen" ELSE "vote"
      BY <1>6, <2>7 DEF Found
    <3>2. Phases'
      BY <1>1, <3>1, TrialsAssumption DEF Phases
    <3>3. DrawsCounted'
      <4>1. Asked' = Asked + 1 /\ Drawn' = 0
        BY <1>1, <2>7, <3>1 DEF Asked, Drawn
      <4>2. QED
        BY <1>1, <2>5, <4>1, AttemptsAssumption DEF DrawsCounted
    <3>4. external'[1] = external[1] /\ external'[2] = endpoint
          /\ external[1].port = 1 /\ external[1] \in Endpoint
      BY <2>2, <2>3, <2>7 DEF Returner, VotesCounted
    <3>5. Latest = external[1] /\ Latest' = endpoint
      BY <2>7, <3>1, <3>4 DEF Latest
    <3>6. symmetric => votes' = votes + 1
      BY <2>1, <2>7, <3>1, <3>4
    <3>7. ~ symmetric => votes' <= endpoint.mapping
      <4> SUFFICES ASSUME ~ symmetric PROVE votes' <= endpoint.mapping
        OBVIOUS
      <4>1. endpoint.port = 1 /\ votes <= external[1].mapping
            /\ external[1].mapping <= since
        BY <2>1, <2>4, <3>5 DEF VotesCounted
      <4>2. external[1] # endpoint => external[1].mapping # endpoint.mapping
        BY <2>1, <3>4, <4>1 DEF Endpoint
      <4>3. QED
        BY <2>1, <2>4, <3>1, <3>4, <4>1, <4>2
    <3>8. VotesCounted'
      BY <1>1, <2>1, <2>4, <3>1, <3>5, <3>6, <3>7, TrialsAssumption DEF VotesCounted
    <3>9. TypeOK'
      <4>1. votes' \in 0 .. Trials
        BY <1>1, <2>4, <3>1, TrialsAssumption DEF VotesCounted
      <4>2. trial' \in 1 .. Trials + 1 /\ returner' \in Returner
            /\ pc' \in {"reopen", "vote"}
        BY <1>1, <3>1, TrialsAssumption DEF Returner
      <4>3. QED
        BY <1>1, <1>4, <1>6, <2>2, <4>1, <4>2 DEF TypeOK
    <3>10. QED BY <1>3, <3>2, <3>3, <3>8, <3>9
  <2>8. QED BY <1>1, <2>6, <2>7
<1>7. QED
  BY <1>5, <1>6 DEF Check

\* Every step of the call, the network and the NAT preserves the invariant.
LEMMA StepInvariant == IInv /\ [Next]_vars => IInv'
<1> SUFFICES ASSUME IInv, [Next]_vars PROVE IInv'
  OBVIOUS
<1>1. CASE UNCHANGED vars
  <2> USE <1>1 DEF IInv, vars, probe, world
  <2>1. TypeOK'
    BY DEF TypeOK
  <2>2. AllKnown'
    BY DEF AllKnown, Known
  <2>3. Phases' /\ DrawsCounted' /\ VotesCounted'
    BY DEF Phases, DrawsCounted, Asked, Drawn, VotesCounted, Latest
  <2>4. QED BY <2>1, <2>2, <2>3
<1>2. CASE Next
  BY <1>2, ReopenStep, AttemptStep, ReceiveStep, CheckStep, VoteStep, ElapseStep, AnswerStep,
     DeliverStep, StrayStep, RemapStep DEF Next, Call
<1>3. QED BY <1>1, <1>2

-----------------------------------------------------------------------------
(* The theorems *)

\* The invariant holds whatever the network delivers, and whenever.
THEOREM InvariantHolds == Spec => []IInv
<1>1. Init => IInv
  BY InitInvariant
<1>2. IInv /\ [Next]_vars => IInv'
  BY StepInvariant
<1>3. QED
  BY <1>1, <1>2, PTL DEF Spec

\* An endpoint that socket_external_ip() stores was seen, by the returner that
\* was asked, after this attempt began: no late, repeated or reordered answer
\* to an earlier question is taken for the answer to this one.
THEOREM FreshAddressHolds == Spec => FreshAddress
<1>1. ASSUME IInv, [Next]_vars, external' # external
      PROVE  /\ external'[returner].mapping \in since .. remaps
             /\ external'[returner].port = IF symmetric THEN returner ELSE 1
  <2>1. Check
    BY <1>1 DEF Next, Call, vars, Reopen, Attempt, Receive, Vote, Elapse, Answer, Deliver, Stray,
                Remap
  <2>2. pc = "check" /\ Believes(buffer[1].of) /\ Found(buffer[1].of.endpoint)
    BY <1>1, <2>1 DEF Check
  <2>3. external'[returner] = buffer[1].of.endpoint
    BY <1>1, <2>2 DEF Found, IInv, TypeOK
  <2>4. QED
    BY <1>1, <2>2, <2>3, FoundIsFresh
<1>2. QED
  BY <1>1, InvariantHolds, PTL DEF Spec, FreshAddress

\* The vote of socket_nat_type() is right if the NAT changed its mapping in no
\* more than half of the trials.
THEOREM MajorityDecidesHolds == Spec => []MajorityDecides
<1>1. ASSUME IInv PROVE MajorityDecides
  <2>1. TypeOK
    BY <1>1 DEF IInv
  <2> SUFFICES ASSUME pc = "succeeded", 2 * remaps <= Trials
               PROVE  output = IF symmetric THEN "symmetric" ELSE "non_symmetric"
    BY <2>1 DEF MajorityDecides
  <2>2. /\ trial = Trials + 1
        /\ output = IF votes > Trials - votes THEN "symmetric" ELSE "non_symmetric"
    BY <1>1 DEF IInv, Phases, Wins
  <2>3. votes \in Nat /\ remaps \in Nat /\ Latest.mapping \in Nat
    BY <2>1, TrialsAssumption, BoundsAssumption DEF TypeOK, Latest, Returner, Endpoint
  <2>4. CASE symmetric
    <3>1. votes = Trials
      BY <1>1, <2>2, <2>4, TrialsAssumption DEF IInv, VotesCounted
    <3>2. QED
      BY <2>2, <2>4, <3>1, TrialsAssumption
  <2>5. CASE ~ symmetric
    <3>1. votes <= Latest.mapping /\ Latest.mapping <= remaps
      BY <1>1, <2>5 DEF IInv, VotesCounted
    <3>2. ~ (votes > Trials - votes)
      BY <2>3, <3>1, TrialsAssumption
    <3>3. QED
      BY <2>2, <2>5, <3>2
  <2>6. QED BY <2>4, <2>5
<1>2. QED
  BY <1>1, InvariantHolds, PTL

=============================================================================
