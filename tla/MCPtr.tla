------------------------------- MODULE MCPtr -------------------------------
(***************************************************************************)
(* Instances of Ptr for TLC: the layout of the objects and the operations  *)
(* the application performs.                                               *)
(***************************************************************************)
EXTENDS Ptr

CONSTANTS
    t1, t2,              \* threads
    p1, p2, p3,          \* ptrs of the application
    m1, m2,              \* ptrs that are members of objects
    a1, a2, a3           \* addresses

Operation(t, op, p, q) == [t |-> t, op |-> op, p |-> p, q |-> q]

\* Objects that link to one another: a1 has a member, and so has a2.
ChainMembers == [a \in {a1, a2, a3} |->
    IF a = a1 THEN <<m1>> ELSE IF a = a2 THEN <<m2>> ELSE << >>]
\* p1 is linked before the threads begin.
SharedLinked == [a \in {a1, a2, a3} |-> IF a = a1 THEN <<p1>> ELSE << >>]
\* Ownership is acyclic: members own objects further down.
ChainMayOwn == [p \in {p1, p2, p3, m1, m2} |->
    IF p = m1 THEN {a2, a3} ELSE IF p = m2 THEN {a3} ELSE {a1, a2, a3}]
\* One thread does everything, copying from ptrs that outlive the call.
ChainOps ==
    {Operation(t1, op, p, q) :
        op \in {"new", "copy", "reset", "group_new", "group_copy", "group_reset"},
        p \in {p1, p2, p3, m1, m2}, q \in {p1, p2, p3}}
    \ {Operation(t1, op, p, p) : op \in {"copy", "group_copy"}, p \in {p1, p2, p3}}

\* p1 = p1->next
NextLinked == [a \in {a1, a2} |-> << >>]
NextMembers == [a \in {a1, a2} |-> IF a = a1 THEN <<m1>> ELSE << >>]
NextMayOwn == [p \in {p1, m1} |-> IF p = m1 THEN {a2} ELSE {a1, a2}]
NextOps ==
    {Operation(t1, "new", p1, p1), Operation(t1, "new", m1, m1), Operation(t1, "copy", p1, m1)}

\* Two threads copy p1, which is linked before they start; t1 links the group
\* of its copy to where p1 points, and also owns objects of its own.
SharedOps ==
    {Operation(t1, "copy", p2, p1), Operation(t1, "group_copy", p2, p1),
     Operation(t1, "reset", p2, p2), Operation(t1, "new", p2, p2),
     Operation(t2, "copy", p3, p1), Operation(t2, "reset", p3, p3)}

\* An application does one or the other, see MCPtrWorkloads.
AnyOps == ChainOps \cup SharedOps

=============================================================================
