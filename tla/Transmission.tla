---------------------------- MODULE Transmission ----------------------------
(***************************************************************************)
(* affix_base::networking::socket_send and socket_receive and their async_ *)
(* forms (transmission.cpp): messages framed on one direction of a TCP     *)
(* stream.  A frame is the size of the message in SizeLen bytes, least     *)
(* significant first, then the message.  Both ends move at most MaxBuffer  *)
(* bytes at a time and go on from their offset, so a frame is written and  *)
(* read in pieces that need not coincide.                                  *)
(*                                                                         *)
(* The blocking functions loop where the asynchronous ones call themselves *)
(* in the completion handler; a turn of the loop and a completion are the  *)
(* same step here.  Each end does one operation at a time, as              *)
(* SocketIoGuard's OneOperation provides.                                  *)
(***************************************************************************)
EXTENDS Serialize, SequencesExt

CONSTANTS
    MaxBuffer,     \* MAX_BUFFER_SIZE (128)
    Messages,      \* the messages that may be sent: sequences of bytes
    MaxOps,        \* bound on the operations begun at each end
    MayFail        \* whether operations on the socket may fail

ASSUME BoundsAssumption == MaxBuffer \in Nat \ {0} /\ MaxOps \in Nat

\* What is sent fits the size prefix (a size_t is narrowed to uint32_t).
ASSUME MessagesAssumption ==
    Messages \subseteq Seq(Byte) /\ \A m \in Messages : Len(m) < Power[SizeLen]

VARIABLES
    out,          \* the send under way: what is left of its size, then of its data
    stream,       \* the bytes written and not yet read
    in,           \* the receive under way: what it has of the size, then of the data
    begun,        \* history: the messages whose send has begun
    sent,         \* history: how many sends have succeeded
    asked,        \* history: how many receives have begun
    received,     \* history: the messages that receives have answered with
    cut,          \* history: the ends whose last operation failed inside a frame
    torn          \* history: an end was used again after it was cut

history == <<begun, sent, asked, received, cut, torn>>
vars == <<out, stream, in, history>>

Idle == [phase |-> "idle"]

\* The size_t of a message's length becomes a uint32_t.
Wrap(n) == n % Power[SizeLen]

TypeOK ==
    /\ out \in {Idle} \cup [phase : {"size", "data"}, left : Seq(Byte)]
    /\ stream \in Seq(Byte)
    /\ in \in {Idle} \cup [phase : {"size", "data"}, size : Nat, got : Seq(Byte)]
    /\ begun \in Seq(Messages)
    /\ sent \in 0 .. MaxOps /\ asked \in 0 .. MaxOps
    /\ received \in Seq(Seq(Byte))
    /\ cut \subseteq {"out", "in"}
    /\ torn \in BOOLEAN

Init ==
    /\ out = Idle /\ stream = << >> /\ in = Idle
    /\ begun = << >> /\ sent = 0 /\ asked = 0 /\ received = << >>
    /\ cut = {} /\ torn = FALSE

-----------------------------------------------------------------------------
(* The sending end *)

\* socket_async_send(): the size is sent first.
BeginSend(m) ==
    /\ out = Idle /\ Len(begun) < MaxOps
    /\ begun' = Append(begun, m)
    /\ out' = [phase |-> "size", left |-> serialize(Wrap(Len(m)), SizeLen)]
    /\ torn' = (torn \/ "out" \in cut)
    /\ UNCHANGED <<stream, in, sent, asked, received, cut>>

\* After the size comes the data; a message of no bytes is done at once.
AfterWrite(left) ==
    LET m == Last(begun) IN
    IF left # << >> THEN [out EXCEPT !.left = left]
    ELSE IF out.phase = "size" /\ m # << >> THEN [phase |-> "data", left |-> m]
    ELSE Idle

\* Bug: a short write is taken for a complete one.
WriteSomeAssumingAll ==
    /\ out # Idle
    /\ \E n \in 1 .. MaxBuffer :
          LET piece == IF Len(out.left) < MaxBuffer THEN Len(out.left) ELSE MaxBuffer IN
          /\ n <= piece
          /\ stream' = stream \o SubSeq(out.left, 1, n)
          /\ out' = AfterWrite(SubSeq(out.left, piece + 1, Len(out.left)))
    /\ sent' = IF out' = Idle THEN sent + 1 ELSE sent
    /\ UNCHANGED <<in, begun, asked, received, cut, torn>>

\* write_some of the next piece completed with n bytes.
WriteSome ==
    /\ out # Idle
    /\ \E n \in 1 .. MaxBuffer :
          /\ n <= Len(out.left)
          /\ stream' = stream \o SubSeq(out.left, 1, n)
          /\ out' = AfterWrite(SubSeq(out.left, n + 1, Len(out.left)))
    /\ sent' = IF out' = Idle THEN sent + 1 ELSE sent
    /\ UNCHANGED <<in, begun, asked, received, cut, torn>>

\* The callback is told; the bytes written so far stay in the stream.
WriteFails ==
    LET unstarted == out.phase = "size" /\ Len(out.left) = SizeLen IN
    /\ MayFail /\ out # Idle
    /\ out' = Idle
    /\ begun' = IF unstarted THEN Front(begun) ELSE begun
    /\ cut' = IF unstarted THEN cut ELSE cut \cup {"out"}
    /\ UNCHANGED <<stream, in, sent, asked, received, torn>>

-----------------------------------------------------------------------------
(* The receiving end *)

BeginReceive ==
    /\ in = Idle /\ asked < MaxOps
    /\ asked' = asked + 1
    /\ in' = [phase |-> "size", size |-> SizeLen, got |-> << >>]
    /\ torn' = (torn \/ "in" \in cut)
    /\ UNCHANGED <<out, stream, begun, sent, received, cut>>

\* Bug: the data of an empty message is read with read_some all the same.
AfterReadEager(got) ==
    IF Len(got) < in.size THEN [in EXCEPT !.got = got]
    ELSE IF in.phase = "size"
         THEN [phase |-> "data", size |-> deserialize(got), got |-> << >>]
    ELSE Idle

\* When the size is complete a_data is resized to it; no bytes, no read.
AfterRead(got) ==
    IF Len(got) < in.size THEN [in EXCEPT !.got = got]
    ELSE IF in.phase = "size" /\ deserialize(got) > 0
         THEN [phase |-> "data", size |-> deserialize(got), got |-> << >>]
    ELSE Idle

\* Bug: a piece is read without regard to how much of the buffer is left.
ReadSomeUnbounded ==
    /\ in # Idle
    /\ \E n \in 1 .. MaxBuffer :
          LET got == in.got \o SubSeq(stream, 1, n) IN
          /\ n <= Len(stream)
          /\ stream' = SubSeq(stream, n + 1, Len(stream))
          /\ in' = AfterRead(got)
          /\ received' = IF in' # Idle THEN received
                         ELSE Append(received, IF in.phase = "data" THEN got ELSE << >>)
    /\ UNCHANGED <<out, begun, sent, asked, cut, torn>>

\* read_some into the next piece completed with n bytes.
ReadSome ==
    /\ in # Idle
    /\ \E n \in 1 .. MaxBuffer :
          LET got == in.got \o SubSeq(stream, 1, n) IN
          /\ n <= in.size - Len(in.got) /\ n <= Len(stream)
          /\ stream' = SubSeq(stream, n + 1, Len(stream))
          /\ in' = AfterRead(got)
          /\ received' = IF in' # Idle THEN received
                         ELSE Append(received, IF in.phase = "data" THEN got ELSE << >>)
    /\ UNCHANGED <<out, begun, sent, asked, cut, torn>>

ReadFails ==
    LET unstarted == in.phase = "size" /\ in.got = << >> IN
    /\ MayFail /\ in # Idle
    /\ in' = Idle
    /\ cut' = IF unstarted THEN cut ELSE cut \cup {"in"}
    /\ UNCHANGED <<out, stream, begun, sent, asked, received, torn>>

-----------------------------------------------------------------------------
Next ==
    \/ \E m \in Messages : BeginSend(m)
    \/ WriteSome \/ WriteFails
    \/ BeginReceive \/ ReadSome \/ ReadFails

Spec == Init /\ [][Next]_vars

\* Both ends go on with what they have begun, and the stream delivers.
FairSpec == Spec /\ WF_vars(WriteSome) /\ WF_vars(ReadSome)

-----------------------------------------------------------------------------
(* Properties *)

\* The messages that are received are the ones that were sent, in order and
\* undivided, however the two ends cut the stream into pieces and whenever an
\* operation fails; unless an end that failed inside a frame is used again:
\* the code neither closes the socket nor refuses the call.
Framing == ~torn => IsPrefix(received, begun)

\* What is on its way is exactly what has been written and not been read: the
\* rest of the frame being read, whole frames, and the frame being written.
Frame(m) == serialize(Wrap(Len(m)), SizeLen) \o m
Frames(ms) == FlattenSeq([i \in DOMAIN ms |-> Frame(ms[i])])
Read ==
    CASE in = Idle -> << >>
      [] in # Idle /\ in.phase = "size" -> in.got
      [] in # Idle /\ in.phase = "data" -> serialize(in.size, SizeLen) \o in.got
Unwritten ==
    CASE out = Idle -> << >>
      [] out # Idle /\ out.phase = "size" -> out.left \o Last(begun)
      [] out # Idle /\ out.phase = "data" -> out.left
NothingLostInTheStream ==
    TypeOK /\ (cut = {} => Frames(begun) = Frames(received) \o Read \o stream \o Unwritten)

\* A receive for which a whole message has been sent ends, also when the
\* message is empty, unless an operation has failed inside a frame.
EveryMessageArrives ==
    in # Idle /\ Len(received) < sent ~> in = Idle \/ cut # {}

=============================================================================
