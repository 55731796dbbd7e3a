----------------------------- MODULE TypedDeque -----------------------------
(***************************************************************************)
(* What a byte_buffer promises: a deque of whole objects.  What is pushed  *)
(* at one end is what is popped there next, and what is popped at the      *)
(* other end when it is the last one.  A deque that travels may lose       *)
(* objects at its back, and only whole ones: a pop says so when there is   *)
(* none left to give.                                                      *)
(***************************************************************************)
EXTENDS Sequences, SequencesExt

CONSTANTS
    Item,       \* objects
    NoItem      \* what a pop of an empty deque gives

VARIABLES items, popped
vars == <<items, popped>>

Init == items = << >> /\ popped = NoItem

PushBack(x) == items' = Append(items, x) /\ UNCHANGED popped
PushFront(x) == items' = <<x>> \o items /\ UNCHANGED popped

PopBack ==
    IF items = << >> THEN popped' = NoItem /\ UNCHANGED items
    ELSE popped' = Last(items) /\ items' = Front(items)

PopFront ==
    IF items = << >> THEN popped' = NoItem /\ UNCHANGED items
    ELSE popped' = Head(items) /\ items' = Tail(items)

Lose == items' \in Prefixes(items) /\ UNCHANGED popped

Next ==
    \/ \E x \in Item : PushBack(x) \/ PushFront(x)
    \/ PopBack \/ PopFront \/ Lose

Spec == Init /\ [][Next]_vars

=============================================================================
