------------------------------ MODULE Encoding ------------------------------
(***************************************************************************)
(* How affix_base::data::byte_buffer (byte_buffer.h) lays objects out in   *)
(* its body, and how it takes them off again, at either end.               *)
(*                                                                         *)
(* A body is a sequence of bytes, an object of a standard layout type the  *)
(* sequence of its bytes, a string or a vector the sequence of its         *)
(* elements.  A push maps a body to the new body.  A pop maps a body and   *)
(* what its reference argument holds to a record: whether it succeeded,    *)
(* what is left of the body and what the argument then holds, for a pop    *)
(* that fails half way has changed both.                                   *)
(***************************************************************************)
EXTENDS Integers, Serialize, SequencesExt

CONSTANT
    WideLen     \* sizeof(size_t)

ASSUME WideAssumption == WideLen \in Nat \ {0}

\* The integers 1 .. n in the order in which elements are pushed or popped.
Upwards(n) == [i \in 1 .. n |-> i]
Downwards(n) == [i \in 1 .. n |-> n + 1 - i]

-----------------------------------------------------------------------------
(* Objects of a standard layout *)

PushBytes(end, body, bytes) == IF end = "back" THEN body \o bytes ELSE bytes \o body

\* `old` is the object the reference refers to: as many bytes as its type has.
PopBytes(end, body, old) ==
    LET size == Len(body)
        n == Len(old)
    IN  IF size < n THEN [ok |-> FALSE, body |-> body, value |-> old]
        ELSE IF end = "back"
             THEN [ok |-> TRUE, body |-> SubSeq(body, 1, size - n),
                   value |-> SubSeq(body, size - n + 1, size)]
             ELSE [ok |-> TRUE, body |-> SubSeq(body, n + 1, size),
                   value |-> SubSeq(body, 1, n)]

-----------------------------------------------------------------------------
(* Strings and vectors: the elements between two copies of their number *)

\* Bug: the elements are pushed in the same order at both ends.
PushOrderUpwards(end, n) == Upwards(n)

\* The elements lie in the same order whichever end they are pushed to.
PushOrder(end, n) == IF end = "back" THEN Upwards(n) ELSE Downwards(n)

\* Bug: the elements are popped in the same order at both ends.
PopOrderUpwards(end, n) == Upwards(n)

PopOrder(end, n) == IF end = "back" THEN Downwards(n) ELSE Upwards(n)

\* Every element is pushed between the two sizes.
PushList(Push(_, _, _), len, end, body, list) ==
    LET n == Len(list)
        size == serialize(n, len)
        filled[i \in 0 .. n] ==
            IF i = 0 THEN PushBytes(end, body, size)
            ELSE Push(end, filled[i - 1], list[PushOrder(end, n)[i]])
    IN  PushBytes(end, filled[n], size)

\* The list with n elements, blank ones behind those it has.
Resized(list, n, blank) == [i \in 1 .. n |-> IF i <= Len(list) THEN list[i] ELSE blank]

\* Element i of the list is what its pop left in it.
Filled(r, i, e) == [e EXCEPT !.value = [r.value EXCEPT ![i] = e.value]]

\* The list is resized to the number found first; then it is filled until an
\* element, or the other number, is not there.
PopList(Pop(_, _, _), blank, len, end, body, old) ==
    LET size == PopBytes(end, body, serialize(0, len))
        n == deserialize(size.value)
        filled[i \in 0 .. n] ==
            IF i = 0 THEN [size EXCEPT !.value = Resized(old, n, blank)]
            ELSE LET r == filled[i - 1]
                     j == PopOrder(end, n)[i]
                 IN  IF r.ok THEN Filled(r, j, Pop(end, r.body, r.value[j])) ELSE r
        other == PopBytes(end, filled[n].body, size.value)
    IN  IF ~ size.ok THEN [ok |-> FALSE, body |-> body, value |-> old]
        ELSE IF ~ filled[n].ok THEN filled[n]
        ELSE [other EXCEPT !.value = filled[n].value]

\* Their elements are bytes; a string and a vector store sizes of another width.
PushChars(len, end, body, list) == PushList(PushBytes, len, end, body, list)
PopChars(len, end, body, old) == PopList(PopBytes, <<0>>, len, end, body, old)

PushString(end, body, s) == PushChars(WideLen, end, body, s)
PopString(end, body, old) == PopChars(WideLen, end, body, old)

PushVector(end, body, v) == PushChars(SizeLen, end, body, v)
PopVector(end, body, old) == PopChars(SizeLen, end, body, old)

\* A vector of vectors.
PushVectors(end, body, v) == PushList(PushVector, SizeLen, end, body, v)
PopVectors(end, body, old) == PopList(PopVector, << >>, SizeLen, end, body, old)

-----------------------------------------------------------------------------
(* Tuples of two, here of an object and a string *)

\* At the front, too, both parts are pushed to the back.
PushTuple(end, body, tuple) ==
    IF end = "back"
    THEN PushString("back", PushBytes("back", body, tuple[1]), tuple[2])
    ELSE PushBytes("back", PushString("back", body, tuple[2]), tuple[1])

PopTuple(end, body, old) ==
    LET one == IF end = "back" THEN PopString(end, body, old[2])
                               ELSE PopBytes(end, body, old[1])
        two == IF end = "back" THEN PopBytes(end, one.body, old[1])
                               ELSE PopString(end, one.body, old[2])
        Pair(a, b) == IF end = "back" THEN <<b, a>> ELSE <<a, b>>
        untouched == IF end = "back" THEN old[1] ELSE old[2]
    IN  IF one.ok THEN [two EXCEPT !.value = Pair(one.value, two.value)]
                  ELSE [one EXCEPT !.value = Pair(one.value, untouched)]

=============================================================================
