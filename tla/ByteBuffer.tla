----------------------------- MODULE ByteBuffer -----------------------------
(***************************************************************************)
(* affix_base::data::byte_buffer (byte_buffer.h): a deque of bytes that    *)
(* objects of any type are pushed to and popped from, at both ends.        *)
(*                                                                         *)
(* The bytes do not say what they are: the application pops the type that  *)
(* it knows to lie at that end.  A buffer may travel as a vector of bytes  *)
(* (data(), and the constructor at the other side) and arrive cut short;   *)
(* it is then read from the front, and given up when a pop fails, as every *)
(* caller of the library does but one (rsa_decrypt_in_chunks, see Chunks). *)
(***************************************************************************)
EXTENDS Encoding

CONSTANTS
    Values,       \* Values[kind]: the objects of a type that are pushed
    FrontKinds,   \* the types that are pushed at the front
    MaxItems,     \* bound on the objects in a buffer
    NoItem

\* uint8_t, std::string, std::vector<uint8_t>, a vector of those, and
\* std::tuple<uint8_t, std::string>.
Kind == {"byte", "string", "vector", "vectors", "tuple"}

ASSUME BufferAssumption ==
    /\ DOMAIN Values = Kind
    /\ FrontKinds \subseteq Kind
    /\ MaxItems \in Nat

\* Objects of the five types: a byte, elements that the sizes can count and,
\* what the values must see to, the int of the loops; and tuples of these.
Chars == [1 .. 1 -> Byte]
IsList(elements, len, v) == v \in Seq(elements) /\ Len(v) < Power[len]
IsVector(v) == IsList(Chars, SizeLen, v)
ASSUME ValuesAssumption ==
    /\ Values["byte"] \subseteq Chars
    /\ \A v \in Values["string"] : IsList(Chars, WideLen, v)
    /\ \A v \in Values["vector"] : IsVector(v)
    /\ \A v \in Values["vectors"] :
          IsList(Seq(Chars), SizeLen, v) /\ \A i \in DOMAIN v : IsVector(v[i])
    /\ \A v \in Values["tuple"] :
          v \in Chars \X Seq(Chars) /\ IsList(Chars, WideLen, v[2])

VARIABLES
    m_body,
    items,      \* history, the objects in the body, from front to back
    popped,     \* history, what the last pop gave
    missing     \* what was cut off first, if the buffer was cut

bufferVars == <<m_body, items, popped, missing>>

\* Nothing is missing from a buffer that was not cut; and a cut one is given up
\* when a pop has failed.
Nothing == "nothing"
GivenUp == "given up"

Item == UNION {{[kind |-> k, value |-> v] : v \in Values[k]} : k \in Kind}

Push(kind, end, body, value) ==
    CASE kind = "byte" -> PushBytes(end, body, value)
      [] kind = "string" -> PushString(end, body, value)
      [] kind = "vector" -> PushVector(end, body, value)
      [] kind = "vectors" -> PushVectors(end, body, value)
      [] kind = "tuple" -> PushTuple(end, body, value)

Pop(kind, end, body) ==
    CASE kind = "byte" -> PopBytes(end, body, <<0>>)
      [] kind = "string" -> PopString(end, body, << >>)
      [] kind = "vector" -> PopVector(end, body, << >>)
      [] kind = "vectors" -> PopVectors(end, body, << >>)
      [] kind = "tuple" -> PopTuple(end, body, <<<<0>>, << >>>>)

BufferInit == m_body = << >> /\ items = << >> /\ popped = NoItem /\ missing = Nothing

-----------------------------------------------------------------------------
(* The bytes of an object, written down once for both ends *)

Between(len, list) ==
    serialize(Len(list), len) \o FlattenSeq(list) \o serialize(Len(list), len)
Encoded(item) ==
    LET v == item.value
    IN  CASE item.kind = "byte" -> v
          [] item.kind = "string" -> Between(WideLen, v)
          [] item.kind = "vector" -> Between(SizeLen, v)
          [] item.kind = "vectors" ->
                Between(SizeLen, [i \in DOMAIN v |-> Between(SizeLen, v[i])])
          [] item.kind = "tuple" -> v[1] \o Between(WideLen, v[2])

AllEncoded(list) == FlattenSeq([i \in DOMAIN list |-> Encoded(list[i])])

\* The objects that lie whole in the first n bytes.
WholeIn(n) ==
    CHOOSE p \in Prefixes(items) :
        /\ Len(AllEncoded(p)) <= n
        /\ \A q \in Prefixes(items) : Len(AllEncoded(q)) <= n => Len(q) <= Len(p)

-----------------------------------------------------------------------------
(* The operations *)

PushBack(item) ==
    /\ missing = Nothing /\ Len(items) < MaxItems
    /\ m_body' = Push(item.kind, "back", m_body, item.value)
    /\ items' = Append(items, item)
    /\ UNCHANGED <<popped, missing>>

PushFront(item) ==
    /\ missing = Nothing /\ Len(items) < MaxItems
    /\ item.kind \in FrontKinds
    /\ m_body' = Push(item.kind, "front", m_body, item.value)
    /\ items' = <<item>> \o items
    /\ UNCHANGED <<popped, missing>>

Take(kind, end) ==
    LET r == Pop(kind, end, m_body)
    IN  /\ m_body' = r.body
        /\ popped' = IF r.ok THEN [kind |-> kind, value |-> r.value] ELSE NoItem

\* A buffer that is empty, and always was whole, is popped for any type.
PopBack(kind) ==
    /\ missing = Nothing
    /\ items # << >> => kind = Last(items).kind
    /\ Take(kind, "back")
    /\ items' = IF items = << >> THEN items ELSE Front(items)
    /\ UNCHANGED missing

PopFront(kind) ==
    /\ missing # GivenUp
    /\ IF items # << >> THEN kind = Head(items).kind
                        ELSE missing \in {Nothing, kind}
    /\ Take(kind, "front")
    /\ items' = IF items = << >> THEN items ELSE Tail(items)
    /\ missing' = IF items = << >> /\ missing = kind THEN GivenUp ELSE missing

\* The bytes travel, and only the first n of them arrive.
Receive(n) ==
    /\ missing = Nothing
    /\ m_body' = SubSeq(m_body, 1, n)
    /\ items' = WholeIn(n)
    /\ missing' = items[Len(WholeIn(n)) + 1].kind
    /\ UNCHANGED popped

\* A new buffer, for one that was given up.
Discard ==
    /\ missing = GivenUp
    /\ m_body' = << >> /\ items' = << >> /\ missing' = Nothing
    /\ UNCHANGED popped

BufferNext ==
    \/ \E item \in Item : PushBack(item) \/ PushFront(item)
    \/ \E kind \in Kind : PopBack(kind) \/ PopFront(kind)
    \/ \E n \in 0 .. Len(m_body) - 1 : Receive(n)
    \/ Discard

BufferSpec == BufferInit /\ [][BufferNext]_bufferVars

-----------------------------------------------------------------------------
(* Properties *)

BufferTypeOK ==
    /\ m_body \in Seq(Byte)
    /\ items \in Seq(Item) /\ Len(items) <= MaxItems
    /\ popped \in Item \cup {NoItem}
    /\ missing \in Kind \cup {Nothing, GivenUp}

\* Whichever mix of pushes and pops at the two ends led here, the body is the
\* encodings of the objects in order, each readable from both of its ends: no
\* push leaves its elements or its sizes the wrong way round, and no pop leaves
\* bytes behind or takes bytes of its neighbour.
BodyHoldsItems == BufferTypeOK /\ (missing = Nothing => m_body = AllEncoded(items))

\* A byte_buffer is a deque of whole objects: every pop gives what the deque
\* gives, and of a buffer that was cut anywhere, in a size, between elements or
\* inside the second part of a tuple, no pop makes an object up.
Deque == INSTANCE TypedDeque
ImplementsTypedDeque == Deque!Spec

\* "ALWAYS PUSH TUPLE IN FRONT-FACING ORDER" (byte_buffer.h): what push_front()
\* has just pushed is what pop_front() gives, a tuple too.
FrontGivesWhatItWasGiven ==
    [][\A item \in Item : PushFront(item) =>
          LET r == Pop(item.kind, "front", m_body') IN r.ok /\ r.value = item.value]_bufferVars

=============================================================================
