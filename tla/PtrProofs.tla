----------------------------- MODULE PtrProofs -----------------------------
(***************************************************************************)
(* Shared ownership, for any objects, any acyclic ownership, any number of *)
(* threads and any operations a disciplined application calls.             *)
(*                                                                         *)
(* Between two operations the map and the ptrs agree.  Within one they     *)
(* need not: deleting an object runs the destructors of its members, each  *)
(* of which may be the last owner of another object.  The invariant says   *)
(* what the stack of tasks then looks like: every task below another one   *)
(* is about ptrs and objects that lie higher in the order of ownership, so *)
(* that no cascade comes back to what is being deleted; a resource that is *)
(* doomed has one ptr left, which is cleared next; a member is reset       *)
(* before its object is freed; and what is still to be linked has an owner *)
(* that no task on the stack makes leave (Anchored).                       *)
(***************************************************************************)
EXTENDS Ptr, TLAPS, FiniteSetTheorems, SequenceTheorems

\* The tasks about a ptr; of these, those by which it leaves its group; those
\* that link to an address; those about a whole group; those that delete.
OnPtr == {"link", "join", "unlink", "clear", "group_link", "group_unlink"}
Leaving == {"link", "unlink", "clear", "group_link", "group_unlink"}
Linking == {"link", "join", "group_link", "each_link"}
Grouping == {"group_link", "group_unlink"}
Looping == {"each_link", "each_unlink"}
Deleting == {"delete", "free"}

\* One thread makes all the calls.
Solo == \A o, u \in Ops : o.t = u.t

\* The height of an object in the order of ownership.
Rank == CHOOSE rank \in [Addr -> 0 .. Cardinality(Addr)] : Acyclic(rank)

\* What the thread that holds the mutex has still to do.
stack == IF holder = Nobody THEN << >> ELSE work[holder]

\* What is being deleted, and the ptrs that have left a group and point to it yet.
Doomed == {a \in Addr : \E j \in DOMAIN stack : stack[j].op \in Deleting /\ stack[j].a = a}
Clearing == {p \in Ptr : \E j \in DOMAIN stack : stack[j].op = "clear" /\ stack[j].p = p}

Owns(p, a) == Contains(s_res_map[a], p)

\* The object that p is a member of, if any, lies higher than b.
Above(p, b) == \A x \in Addr : Contains(Members[x], p) => Rank[b] < Rank[x]

\* The task may make b lose its last owner.
Frees(T, b) ==
    \/ T.op \in Deleting /\ T.a = b
    \/ T.op \in Looping /\ T.key = b
    \/ T.op \in Leaving /\ m_raw[T.p] = b

-----------------------------------------------------------------------------
(* The threads *)

\* Only the thread that holds the mutex has tasks, and it has no call to begin.
Threads ==
    /\ \A t \in Thread : work[t] # << >> => holder = t
    /\ \A t \in Thread : call[t] # NoCall => holder # t
    /\ \A t \in Thread : call[t] # NoCall \/ holder = t => \E o \in Ops : o.t = t

\* Threads that share ptrs work on variables that are theirs to assign.
Targeted ==
    Solo \/ \A j \in DOMAIN stack :
        /\ stack[j].op \notin Grouping \cup Looping
        /\ stack[j].op \in OnPtr /\ stack[j].p \in AppPtr =>
               \E o \in Ops : o.t = holder /\ o.p = stack[j].p

-----------------------------------------------------------------------------
(* The heap *)

\* The map and the ptrs agree, but for the ptrs that are still to be cleared.
MapAgrees == \A a \in Addr, p \in Ptr : Owns(p, a) <=> m_raw[p] = a /\ p \notin Clearing

\* No ptr is twice in a group.
ListedOnce ==
    \A a \in Addr : \A i, j \in DOMAIN s_res_map[a] : s_res_map[a][i] = s_res_map[a][j] => i = j

\* Whatever points to an object exists, and may own it.
OwnersLive == \A p \in Ptr : m_raw[p] # Null => Lives(p) /\ m_raw[p] \in MayOwn[p]

\* What is owned is there; what is being deleted is there and has no owner.
OwnedIsAlive == \A a \in Addr : s_res_map[a] # << >> => a \in alive
DoomedIsUnowned == \A a \in Doomed : a \in alive /\ s_res_map[a] = << >>

\* t is on its way to link a ptr to a.
Wants(t, a) ==
    \/ call[t].op \in Linking /\ call[t].a = a
    \/ \E j \in DOMAIN work[t] : work[t][j].op \in Linking /\ work[t][j].a = a

\* What is there is owned, wanted or being deleted.
NothingLeaks ==
    \A a \in alive \ Doomed : s_res_map[a] # << >> \/ \E t \in Thread : Wants(t, a)

\* What nobody owns yet only the thread that allocated it wants.
FreshOnce ==
    \A t, u \in Thread, a \in Addr : t # u /\ Wants(t, a) /\ Wants(u, a) => s_res_map[a] # << >>

-----------------------------------------------------------------------------
(* The stack *)

\* T may be done before U: what T frees lies below what U is about; a ptr is
\* unlinked or cleared once; under link() there is only the loop it is a turn of.
Before(T, U) ==
    /\ U.op \in OnPtr => \A b \in Addr : Frees(T, b) => Above(U.p, b)
    /\ U.op \in Deleting => \A b \in Addr : Frees(T, b) => Rank[b] < Rank[U.a]
    /\ T.op \in {"unlink", "clear"} /\ U.op \in {"unlink", "clear"} => T.p # U.p
    /\ T.op \in {"link", "join"} => U.op = "each_link" /\ U.a = T.a /\ Above(T.p, U.key)
    /\ T.op \notin Looping \cup Grouping
    /\ U.op \notin {"link", "delete"} \cup Grouping
StackOrder == \A j, k \in DOMAIN stack : j < k => Before(stack[j], stack[k])

\* What comes right after T: after a deletion, the last owner is cleared.
Adjacent(T, U) ==
    /\ T.op \in Deleting => U.op = "clear" /\ m_raw[U.p] = T.a
    /\ U.op = "clear" => T.op \in Deleting
    /\ U.op = "each_link" => T.op \in {"link", "join"}
StackAdjacent ==
    \A j \in DOMAIN stack : j + 1 \in DOMAIN stack => Adjacent(stack[j], stack[j + 1])

\* The one ptr that still points to a doomed object is cleared next.
LastPointer ==
    \A j \in DOMAIN stack : stack[j].op \in Deleting =>
        /\ j + 1 \in DOMAIN stack
        /\ \A q \in Ptr : m_raw[q] = stack[j].a => stack[j + 1].p = q

\* A ptr that joins a group, or goes with its object, points to nothing by then.
Resets(T, p) ==
    \/ T.op = "join" /\ T.p = p
    \/ T.op = "free" /\ Contains(Members[T.a], p)
StackResets ==
    \A k \in DOMAIN stack : \A p \in Ptr :
        Resets(stack[k], p) =>
            \/ m_raw[p] = Null
            \/ \E j \in DOMAIN stack :
                   j < k /\ stack[j].op \in {"unlink", "clear"} /\ stack[j].p = p

\* Of the tasks below the first only destructors of members leave a group.
StackNested ==
    \A j \in DOMAIN stack : j # 1 /\ stack[j].op = "unlink" =>
        \E k \in DOMAIN stack : j < k /\ stack[k].op = "free"

\* T makes h leave no group, and frees no object that h is a part of.
Stays(h, T) ==
    /\ T.op \in Leaving => T.p # h
    /\ \A b \in Addr : Frees(T, b) => Above(h, b)

\* An address that is still to be linked: new, or kept by an owner that stays.
Anchored(a) ==
    /\ a \in alive /\ a \notin Doomed
    /\ \/ s_res_map[a] = << >>
       \/ \E h \in Ptr : Owns(h, a) /\ \A j \in DOMAIN stack : Stays(h, stack[j])

\* The ptr of the task exists, and may own what it is to own.
Ready(T) ==
    /\ T.op \in OnPtr => Lives(T.p)
    /\ T.op \in {"link", "join"} => T.a \in MayOwn[T.p] \cup {Null}
    /\ T.op \in Grouping => m_raw[T.p] # Null
    /\ T.op = "group_link" =>
          \A h \in Ptr : m_raw[h] = m_raw[T.p] => T.a \in MayOwn[h] \cup {Null}
    /\ T.op = "each_link" =>
          \A h \in Ptr : m_raw[h] = T.key => T.a \in MayOwn[h] \cup {Null}
StackReady ==
    \A j \in DOMAIN stack :
        /\ Ready(stack[j])
        /\ stack[j].op \in Linking /\ stack[j].a # Null => Anchored(stack[j].a)

\* The turn of the loop has not left the group yet.
Awaits(key) ==
    stack[1].op \in {"link", "unlink"} /\ Owns(stack[1].p, key)

\* What is left of a loop is what is left of its group; a group that is linked
\* to its own address keeps its size.
Turn(e) ==
    LET left == IF Awaits(e.key) THEN e.i + 1 ELSE e.i
        size == Len(s_res_map[e.key]) IN
    /\ IF e.op = "each_link" /\ e.a = e.key
       THEN /\ left <= size /\ size >= 1 /\ Doomed = {}
            /\ Len(stack) = 1 => size >= 2
       ELSE left = size
    /\ \A j \in DOMAIN stack :
          j # 1 => ~ (stack[j].op \in {"link", "unlink"} /\ Owns(stack[j].p, e.key))
    /\ stack[1].op \in {"link", "unlink"} /\ Doomed = {} => Owns(stack[1].p, e.key)
    /\ Doomed # {} => size = 0
    /\ Len(stack) = 1 /\ e.op = "each_link" /\ e.i = 0 /\ e.a # Null => s_res_map[e.a] # << >>
LoopsAgree == \A j \in DOMAIN stack : stack[j].op \in Looping => Turn(stack[j])

-----------------------------------------------------------------------------
(* The calls *)

\* An address in a call that waits for the mutex: new, or kept by a variable
\* that neither the call nor any other thread assigns to.
CallAnchored(t, a) ==
    /\ a \in alive /\ a \notin Doomed
    /\ \/ s_res_map[a] = << >>
       \/ \E h \in AppPtr : /\ Owns(h, a) /\ h # call[t].p
                            /\ \A o \in Ops : o.t # t => o.p # h
CallsReady ==
    \A t \in Thread : call[t] # NoCall =>
        /\ call[t].op \in {"link", "unlink"} \cup Grouping
        /\ Ready(call[t])
        /\ call[t].op \in Linking /\ call[t].a # Null => CallAnchored(t, call[t].a)
        /\ Solo \/ (/\ call[t].op \in {"link", "unlink"} /\ call[t].p \in AppPtr
                    /\ \E o \in Ops : o.t = t /\ o.p = call[t].p)

\* The inductive invariant.
IInv ==
    /\ TypeOK /\ ~ broken
    /\ Threads /\ Targeted
    /\ MapAgrees /\ ListedOnce /\ OwnersLive /\ OwnedIsAlive /\ DoomedIsUnowned
    /\ NothingLeaks /\ FreshOnce
    /\ StackOrder /\ StackAdjacent /\ LastPointer /\ StackResets /\ StackNested
    /\ StackReady /\ LoopsAgree
    /\ CallsReady

-----------------------------------------------------------------------------
(* The operators *)

\* What the fields of a task are.
LEMMA TaskShape ==
    ASSUME NEW T \in Task
    PROVE  /\ T.op \in OnPtr \cup Deleting \cup Looping
           /\ T.op \in OnPtr => T.p \in Ptr
           /\ T.op \in Linking => T.a \in Addr \cup {Null}
           /\ T.op \in Deleting => T.a \in Addr
           /\ T.op \in Looping => T.key \in Addr /\ T.i \in Nat
           /\ T.op # "none"
           /\ T.op \notin Linking \cup Deleting => "a" \notin DOMAIN T
BY DEF Task, OnPtr, Deleting, Looping, Linking

\* The tasks about a ptr are tasks.
LEMMA TaskMade ==
    ASSUME NEW p \in Ptr
    PROVE  /\ \A a \in Addr \cup {Null} :
                 /\ [op |-> "link", p |-> p, a |-> a] \in Task
                 /\ [op |-> "join", p |-> p, a |-> a] \in Task
                 /\ [op |-> "group_link", p |-> p, a |-> a] \in Task
           /\ [op |-> "unlink", p |-> p] \in Task
           /\ [op |-> "clear", p |-> p] \in Task
           /\ [op |-> "group_unlink", p |-> p] \in Task
BY DEF Task

\* So are those about an object and a group.
LEMMA TaskMadeFor ==
    ASSUME NEW key \in Addr
    PROVE  /\ [op |-> "delete", a |-> key] \in Task
           /\ [op |-> "free", a |-> key] \in Task
           /\ \A i \in Nat : [op |-> "each_unlink", key |-> key, i |-> i] \in Task
           /\ \A i \in Nat, a \in Addr \cup {Null} :
                 [op |-> "each_link", key |-> key, i |-> i, a |-> a] \in Task
BY DEF Task

\* The order of ownership goes down from an object to what its members own.
LEMMA RankWorks ==
    /\ \A a \in Addr : Rank[a] \in Nat
    /\ Acyclic(Rank)
<1>1. Rank \in [Addr -> 0 .. Cardinality(Addr)] /\ Acyclic(Rank)
  BY OwnershipAssumption DEF Rank
<1>2. Cardinality(Addr) \in Nat
  BY OwnershipAssumption, FS_CardinalityType
<1> QED BY <1>1, <1>2

\* A ptr that may own an address lies above it.
LEMMA AboveOwn ==
    ASSUME NEW p \in Ptr, NEW b \in MayOwn[p]
    PROVE  Above(p, b)
<1> SUFFICES ASSUME NEW x \in Addr, Contains(Members[x], p)
             PROVE  Rank[b] < Rank[x]
  BY DEF Above
<1>1. PICK i \in DOMAIN Members[x] : Members[x][i] = p
  BY LayoutAssumption DEF Contains
<1> QED BY <1>1, RankWorks DEF Acyclic

\* A variable of the application lies above everything.
LEMMA AppAbove ==
    ASSUME NEW p \in AppPtr, NEW b
    PROVE  Above(p, b)
<1>1. ASSUME NEW x \in Addr, Contains(Members[x], p) PROVE FALSE
  <2>1. PICK i \in DOMAIN Members[x] : Members[x][i] = p
    BY <1>1, LayoutAssumption DEF Contains
  <2> QED BY <2>1, LayoutAssumption DEF MemberPtr
<1> QED BY <1>1 DEF Above

\* A member lives only while its object does.
LEMMA MemberOf ==
    ASSUME NEW p \in Ptr
    PROVE  /\ p \in AppPtr \/ \E x \in Addr : Contains(Members[x], p)
           /\ \A x, y \in Addr : Contains(Members[x], p) /\ Contains(Members[y], p) => x = y
           /\ \A x \in Addr : Contains(Members[x], p) => p \notin AppPtr
<1>1. ASSUME p \notin AppPtr PROVE \E x \in Addr : Contains(Members[x], p)
  BY <1>1, LayoutAssumption DEF Ptr, MemberPtr, Contains
<1>2. ASSUME NEW x \in Addr, NEW y \in Addr, Contains(Members[x], p), Contains(Members[y], p)
      PROVE  x = y
  BY <1>2, LayoutAssumption DEF Contains
<1>3. ASSUME NEW x \in Addr, Contains(Members[x], p) PROVE p \notin AppPtr
  <2>1. PICK i \in DOMAIN Members[x] : Members[x][i] = p
    BY <1>3, LayoutAssumption DEF Contains
  <2> QED BY <2>1, LayoutAssumption DEF MemberPtr
<1> QED BY <1>1, <1>2, <1>3

\* The tasks of S with `new` in the place of the first.
LEMMA Spliced ==
    ASSUME NEW S \in Seq(Task), S # << >>, NEW new \in Seq(Task)
    PROVE  LET R == new \o Tail(S) IN
           /\ R \in Seq(Task)
           /\ Len(R) = Len(new) + Len(S) - 1
           /\ \A k \in DOMAIN new : k \in DOMAIN R /\ R[k] = new[k]
           /\ \A k \in DOMAIN S : k # 1 =>
                 k + Len(new) - 1 \in DOMAIN R /\ R[k + Len(new) - 1] = S[k]
           /\ \A k \in DOMAIN R : k > Len(new) =>
                 /\ k - Len(new) + 1 \in DOMAIN S /\ k - Len(new) + 1 # 1
                 /\ R[k] = S[k - Len(new) + 1]
OBVIOUS

\* A sequence without the first, and only, occurrence of p.
LEMMA Removed ==
    ASSUME NEW s \in Seq(Ptr), NEW p \in Ptr, Contains(s, p),
           \A i, j \in DOMAIN s : s[i] = s[j] => i = j
    PROVE  LET r == RemoveFirst(s, p) IN
           /\ r \in Seq(Ptr)
           /\ Len(r) = Len(s) - 1
           /\ \A q \in Ptr : Contains(r, q) <=> Contains(s, q) /\ q # p
           /\ \A i, j \in DOMAIN r : r[i] = r[j] => i = j
<1>1. PICK n \in 1 .. Len(s) : s[n] = p
  BY DEF Contains
<1>2. {i \in 1 .. Len(s) : s[i] = p} = {n}
  BY <1>1
<1>3. SelectInSeq(s, LAMBDA v : v = p) = n
  BY <1>1, <1>2 DEF SelectInSeq, Min
<1>4. RemoveFirst(s, p) = SubSeq(s, 1, n - 1) \o SubSeq(s, n + 1, Len(s))
  BY <1>1, <1>3 DEF RemoveFirst, RemoveAt
<1> DEFINE r == RemoveFirst(s, p)
<1>5. /\ r \in Seq(Ptr)
      /\ Len(r) = Len(s) - 1
      /\ \A i \in 1 .. Len(s) - 1 : r[i] = IF i < n THEN s[i] ELSE s[i + 1]
  <2> DEFINE u == SubSeq(s, 1, n - 1)
  <2> DEFINE v == SubSeq(s, n + 1, Len(s))
  <2>1. /\ u \in Seq(Ptr) /\ Len(u) = n - 1
        /\ \A i \in 1 .. n - 1 : u[i] = s[i]
    BY <1>1
  <2>2. /\ v \in Seq(Ptr) /\ Len(v) = Len(s) - n
        /\ \A i \in 1 .. Len(s) - n : v[i] = s[n + i]
    BY <1>1
  <2>3. r = u \o v
    BY <1>4
  <2> HIDE DEF u, v, r
  <2>4. r \in Seq(Ptr) /\ Len(r) = Len(s) - 1
    BY <2>1, <2>2, <2>3, <1>1
  <2>5. ASSUME NEW i \in 1 .. Len(s) - 1, i < n PROVE r[i] = s[i]
    BY <2>1, <2>2, <2>3, <2>5, <1>1
  <2>6. ASSUME NEW i \in 1 .. Len(s) - 1, ~ i < n PROVE r[i] = s[i + 1]
    <3>1. r[i] = v[i - n + 1] /\ i - n + 1 \in 1 .. Len(s) - n
      BY <2>1, <2>2, <2>3, <2>6, <1>1
    <3> QED BY <3>1, <2>2, <1>1, n + (i - n + 1) = i + 1
  <2> QED BY <2>4, <2>5, <2>6
<1> HIDE DEF r
<1>6. ASSUME NEW q \in Ptr PROVE Contains(r, q) <=> Contains(s, q) /\ q # p
  <2>1. ASSUME Contains(r, q) PROVE Contains(s, q) /\ q # p
    BY <1>1, <1>5, <2>1 DEF Contains
  <2>2. ASSUME Contains(s, q), q # p PROVE Contains(r, q)
    <3>1. PICK i \in 1 .. Len(s) : s[i] = q
      BY <2>2 DEF Contains
    <3>2. CASE i < n
      BY <1>1, <1>5, <3>1, <3>2 DEF Contains
    <3>3. CASE i > n
      <4>1. i - 1 \in 1 .. Len(r) /\ r[i - 1] = q
        BY <1>1, <1>5, <3>1, <3>3
      <4> QED BY <4>1 DEF Contains
    <3>4. i # n
      BY <1>1, <3>1, <2>2
    <3> QED BY <1>1, <3>1, <3>2, <3>3, <3>4
  <2> QED BY <2>1, <2>2
<1>7. \A i, j \in DOMAIN r : r[i] = r[j] => i = j
  <2> SUFFICES ASSUME NEW i \in 1 .. Len(s) - 1, NEW j \in 1 .. Len(s) - 1, r[i] = r[j]
               PROVE  i = j
    BY <1>5
  <2> DEFINE at(k) == IF k < n THEN k ELSE k + 1
  <2>1. \A k \in 1 .. Len(s) - 1 : at(k) \in DOMAIN s /\ r[k] = s[at(k)]
    BY <1>1, <1>5
  <2>2. at(i) = at(j)
    BY <2>1
  <2> QED BY <2>2, <1>1
<1> QED BY <1>5, <1>6, <1>7 DEF r
-----------------------------------------------------------------------------
(* A step of the thread that holds the mutex: `new` takes the place of the   *)
(* task on top of its stack.                                                 *)

Continues(new) ==
    /\ stack \in Seq(Task) /\ stack # << >>
    /\ stack' \in Seq(Task)
    /\ Len(stack') = Len(new) + Len(stack) - 1
    /\ \A k \in DOMAIN new : k \in DOMAIN stack' /\ stack'[k] = new[k]
    /\ \A k \in DOMAIN stack : k # 1 =>
          k + Len(new) - 1 \in DOMAIN stack' /\ stack'[k + Len(new) - 1] = stack[k]
    /\ \A k \in DOMAIN stack' : k > Len(new) =>
          /\ k - Len(new) + 1 \in DOMAIN stack /\ k - Len(new) + 1 # 1
          /\ stack'[k] = stack[k - Len(new) + 1]

\* What Continue() does to the stack and to the threads.
LEMMA Continued ==
    ASSUME TypeOK, Threads, NEW t \in Thread, holder = t, work[t] # << >>,
           NEW new \in Seq(Task), Continue(t, new)
    PROVE  /\ Continues(new)
           /\ stack = work[t] /\ stack[1] = Head(work[t])
           /\ holder' = holder /\ call' = call /\ broken' = broken
           /\ work' \in [Thread -> Seq(Task)]
           /\ \A u \in Thread : u # t => work[u] = << >> /\ work'[u] = << >>
           /\ Threads'
<1>1. t # Nobody
  BY NullAssumption
<1>2. stack = work[t] /\ work[t] \in Seq(Task)
  BY <1>1 DEF stack, TypeOK
<1>3. work' = [work EXCEPT ![t] = new \o Tail(work[t])]
  BY DEF Continue, TypeOK
<1>4. stack' = new \o Tail(stack) /\ holder' = holder /\ call' = call /\ broken' = broken
  BY <1>1, <1>2, <1>3 DEF stack, Continue, TypeOK
<1>5. Continues(new)
  <2>1. stack \in Seq(Task) /\ stack # << >>
    BY <1>2
  <2> QED BY <2>1, <1>4, Spliced DEF Continues
<1>6. new \o Tail(work[t]) \in Seq(Task)
  BY <1>2, <1>4, <1>5 DEF Continues
<1>7. work' \in [Thread -> Seq(Task)]
  BY <1>3, <1>6 DEF TypeOK
<1>8. \A u \in Thread : u # t => work[u] = << >> /\ work'[u] = << >>
  BY <1>3 DEF Threads, TypeOK
<1>9. Threads'
  BY <1>4, <1>8 DEF Threads
<1> QED BY <1>2, <1>4, <1>5, <1>7, <1>8, <1>9

\* What the tasks below the first say.
DoomedBelow ==
    {a \in Addr : \E k \in DOMAIN stack : k # 1 /\ stack[k].op \in Deleting /\ stack[k].a = a}
ClearingBelow ==
    {p \in Ptr : \E k \in DOMAIN stack : k # 1 /\ stack[k].op = "clear" /\ stack[k].p = p}

\* The doomed and the ptrs to clear, before a step and after it.
LEMMA Below ==
    ASSUME NEW new, Continues(new)
    PROVE  /\ Doomed = DoomedBelow
                   \cup {a \in Addr : stack[1].op \in Deleting /\ stack[1].a = a}
           /\ Clearing = ClearingBelow
                   \cup {p \in Ptr : stack[1].op = "clear" /\ stack[1].p = p}
           /\ Doomed' = DoomedBelow
                   \cup {a \in Addr : \E i \in DOMAIN new : new[i].op \in Deleting /\ new[i].a = a}
           /\ Clearing' = ClearingBelow
                   \cup {p \in Ptr : \E i \in DOMAIN new : new[i].op = "clear" /\ new[i].p = p}
<1>1. 1 \in DOMAIN stack
  BY DEF Continues
<1>2. \A k \in DOMAIN stack' : k \in DOMAIN new \/ k > Len(new)
  BY DEF Continues
<1>3. ASSUME NEW a \in Addr
      PROVE  /\ a \in Doomed <=> \/ a \in DoomedBelow
                                 \/ stack[1].op \in Deleting /\ stack[1].a = a
             /\ a \in Doomed' <=> \/ a \in DoomedBelow
                                  \/ \E i \in DOMAIN new : new[i].op \in Deleting /\ new[i].a = a
  BY <1>1, <1>2 DEF Doomed, DoomedBelow, Continues
<1>4. ASSUME NEW p \in Ptr
      PROVE  /\ p \in Clearing <=> \/ p \in ClearingBelow
                                   \/ stack[1].op = "clear" /\ stack[1].p = p
             /\ p \in Clearing' <=> \/ p \in ClearingBelow
                                    \/ \E i \in DOMAIN new : new[i].op = "clear" /\ new[i].p = p
  BY <1>1, <1>2 DEF Clearing, ClearingBelow, Continues
<1>5. /\ Doomed \subseteq Addr /\ Doomed' \subseteq Addr /\ DoomedBelow \subseteq Addr
      /\ Clearing \subseteq Ptr /\ Clearing' \subseteq Ptr /\ ClearingBelow \subseteq Ptr
  BY DEF Doomed, DoomedBelow, Clearing, ClearingBelow
<1> QED BY <1>3, <1>4, <1>5

\* A step that neither starts nor ends a deletion or a clearing.
LEMMA BelowKept ==
    ASSUME NEW new \in Seq(Task), Continues(new),
           \A a \in Addr : (stack[1].op \in Deleting /\ stack[1].a = a)
                              <=> \E i \in DOMAIN new : new[i].op \in Deleting /\ new[i].a = a,
           stack[1].op # "clear", \A i \in DOMAIN new : new[i].op # "clear"
    PROVE  Doomed' = Doomed /\ Clearing' = Clearing
<1>1. {a \in Addr : stack[1].op \in Deleting /\ stack[1].a = a}
          = {a \in Addr : \E i \in DOMAIN new : new[i].op \in Deleting /\ new[i].a = a}
  OBVIOUS
<1>2. /\ {p \in Ptr : stack[1].op = "clear" /\ stack[1].p = p} = {}
      /\ {p \in Ptr : \E i \in DOMAIN new : new[i].op = "clear" /\ new[i].p = p} = {}
  OBVIOUS
<1> QED BY <1>1, <1>2, Below

\* A step of a task that is neither a deletion nor a clearing may start some.
LEMMA BelowGrown ==
    ASSUME NEW new \in Seq(Task), Continues(new), stack[1].op \notin Deleting \cup {"clear"}
    PROVE  /\ \A b : b \in Doomed' <=>
                 b \in Doomed \/ \E i \in DOMAIN new : new[i].op \in Deleting /\ new[i].a = b
           /\ \A q : q \in Clearing' <=>
                 q \in Clearing \/ \E i \in DOMAIN new : new[i].op = "clear" /\ new[i].p = q
<1>1. /\ {a \in Addr : stack[1].op \in Deleting /\ stack[1].a = a} = {}
      /\ {q \in Ptr : stack[1].op = "clear" /\ stack[1].p = q} = {}
  OBVIOUS
<1>2. \A i \in DOMAIN new : /\ new[i].op \in Deleting => new[i].a \in Addr
                            /\ new[i].op = "clear" => new[i].p \in Ptr
  BY TaskShape DEF OnPtr
<1> QED BY <1>1, <1>2, Below

\* The thread keeps to its targets.
LEMMA TargetedKept ==
    ASSUME Targeted, holder' = holder, NEW new \in Seq(Task), Continues(new),
           Solo \/ \A i \in DOMAIN new :
               /\ new[i].op \notin Grouping \cup Looping
               /\ new[i].op \in OnPtr /\ new[i].p \in AppPtr =>
                      \E o \in Ops : o.t = holder /\ o.p = new[i].p
    PROVE  Targeted'
<1>1. \A k \in DOMAIN stack' : k \in DOMAIN new \/ k > Len(new)
  BY DEF Continues
<1> QED BY <1>1 DEF Targeted, Continues, Solo

\* An order of two tasks lasts while ptrs are only cleared.
LEMMA BeforeKept ==
    ASSUME \A p \in Ptr : m_raw'[p] \in {m_raw[p], Null},
           NEW T \in Task, NEW U \in Task, Before(T, U)
    PROVE  Before(T, U)'
<1>1. \A b \in Addr : Frees(T, b)' => Frees(T, b)
  BY TaskShape, NullAssumption DEF Frees, Leaving, OnPtr
<1> QED BY <1>1 DEF Before, Above

\* So does the order of the stack, when the new tasks are in order.
LEMMA OrderKept ==
    ASSUME StackOrder, NEW new \in Seq(Task), Continues(new),
           \A p \in Ptr : m_raw'[p] \in {m_raw[p], Null},
           \A i, j \in DOMAIN new : i < j => Before(new[i], new[j]),
           \A i \in DOMAIN new, k \in DOMAIN stack : k # 1 => Before(new[i], stack[k])
    PROVE  StackOrder'
<1> SUFFICES ASSUME NEW j \in DOMAIN stack', NEW k \in DOMAIN stack', j < k,
                    NEW T \in Task, NEW U \in Task, T = stack'[j], U = stack'[k]
             PROVE  Before(T, U)'
  BY DEF StackOrder, Before, Frees, Continues
<1> SUFFICES Before(T, U)
  BY BeforeKept
<1>1. CASE j \in DOMAIN new /\ k \in DOMAIN new
  BY <1>1 DEF Continues
<1>2. CASE j \in DOMAIN new /\ k > Len(new)
  BY <1>2 DEF Continues
<1>3. CASE j > Len(new) /\ k > Len(new)
  <2>1. /\ j - Len(new) + 1 \in DOMAIN stack /\ T = stack[j - Len(new) + 1]
        /\ k - Len(new) + 1 \in DOMAIN stack /\ U = stack[k - Len(new) + 1]
        /\ j - Len(new) + 1 < k - Len(new) + 1
    BY <1>3 DEF Continues
  <2> QED BY <2>1 DEF StackOrder
<1> QED BY <1>1, <1>2, <1>3 DEF Continues

\* A task below the first, and the one after it.
LEMMA Shifted ==
    ASSUME NEW new \in Seq(Task), Continues(new), NEW j \in DOMAIN stack', j > Len(new)
    PROVE  \E k \in DOMAIN stack :
               /\ k # 1 /\ k + 1 # 1 /\ stack'[j] = stack[k]
               /\ k + 1 \in DOMAIN stack <=> j + 1 \in DOMAIN stack'
               /\ k + 1 \in DOMAIN stack => stack'[j + 1] = stack[k + 1]
<1>0. Len(new) \in Nat /\ j \in Nat
  BY DEF Continues
<1>1. PICK k \in DOMAIN stack : k = j - Len(new) + 1 /\ k # 1 /\ stack'[j] = stack[k]
  BY DEF Continues
<1>2. k \in Nat /\ k # 0
  BY DEF Continues
<1>3. k \in Nat /\ k + 1 # 1 /\ k + 1 = (j + 1) - Len(new) + 1 /\ j + 1 = (k + 1) + Len(new) - 1
      /\ j + 1 > Len(new)
  BY <1>0, <1>1, <1>2
<1>4. ASSUME k + 1 \in DOMAIN stack
      PROVE  j + 1 \in DOMAIN stack' /\ stack'[j + 1] = stack[k + 1]
  BY <1>3, <1>4 DEF Continues
<1>5. ASSUME j + 1 \in DOMAIN stack' PROVE k + 1 \in DOMAIN stack
  BY <1>3, <1>5 DEF Continues
<1> QED BY <1>1, <1>3, <1>4, <1>5

\* Tasks that were next to each other still fit.
LEMMA AdjacentKept ==
    ASSUME StackAdjacent, NEW new \in Seq(Task), Continues(new),
           \A k \in DOMAIN stack : k # 1 /\ stack[k].op = "clear" =>
               m_raw'[stack[k].p] = m_raw[stack[k].p],
           new # << >> => m_raw' = m_raw,
           \A i \in DOMAIN new : i + 1 \in DOMAIN new => Adjacent(new[i], new[i + 1]),
           new # << >> /\ 2 \in DOMAIN stack => Adjacent(new[Len(new)], stack[2])
    PROVE  StackAdjacent'
<1> SUFFICES ASSUME NEW j \in DOMAIN stack', j + 1 \in DOMAIN stack',
                    NEW T \in Task, NEW U \in Task, T = stack'[j], U = stack'[j + 1]
             PROVE  Adjacent(T, U)'
  BY DEF StackAdjacent, Adjacent, Continues
<1>1. CASE j + 1 \in DOMAIN new
  <2>1. Adjacent(T, U) /\ m_raw' = m_raw
    BY <1>1 DEF Continues
  <2> QED BY <2>1 DEF Adjacent
<1>2. CASE j = Len(new)
  <2>0. Len(new) \in Nat /\ j \in DOMAIN new /\ new # << >>
    BY <1>2 DEF Continues
  <2>1. T = new[Len(new)]
    BY <1>2, <2>0 DEF Continues
  <2>2. (j + 1) - Len(new) + 1 = 2 /\ j + 1 > Len(new)
    BY <1>2, <2>0
  <2>3. 2 \in DOMAIN stack /\ U = stack[2]
    BY <2>2 DEF Continues
  <2>4. Adjacent(T, U) /\ m_raw' = m_raw
    BY <2>0, <2>1, <2>3
  <2> QED BY <2>4 DEF Adjacent
<1>3. CASE j > Len(new)
  <2>1. PICK k \in DOMAIN stack : /\ T = stack[k] /\ k + 1 # 1
                                  /\ k + 1 \in DOMAIN stack /\ U = stack[k + 1]
    BY <1>3, Shifted
  <2>2. Adjacent(T, U)
    BY <2>1 DEF StackAdjacent
  <2>3. U.op = "clear" => m_raw'[U.p] = m_raw[U.p]
    BY <2>1
  <2> QED BY <2>2, <2>3 DEF Adjacent
<1> QED BY <1>1, <1>2, <1>3 DEF Continues

\* The last ptr to a doomed object stays the last.
LEMMA LastPointerKept ==
    ASSUME LastPointer, NEW new \in Seq(Task), Continues(new),
           \A p \in Ptr : m_raw'[p] \in {m_raw[p], Null},
           \A i \in DOMAIN new : new[i].op \in Deleting =>
               \/ /\ i + 1 \in DOMAIN new
                  /\ \A q \in Ptr : m_raw[q] = new[i].a => new[i + 1].p = q
               \/ /\ i = Len(new) /\ 2 \in DOMAIN stack
                  /\ \A q \in Ptr : m_raw[q] = new[i].a => stack[2].p = q
    PROVE  LastPointer'
<1> SUFFICES ASSUME NEW j \in DOMAIN stack',
                    NEW T \in Task, T = stack'[j], T.op \in Deleting
             PROVE  /\ j + 1 \in DOMAIN stack'
                    /\ \A q \in Ptr : m_raw'[q] = T.a => stack'[j + 1].p = q
  BY DEF LastPointer, Continues
<1>0. \A q \in Ptr : m_raw'[q] = T.a => m_raw[q] = T.a
  BY TaskShape, NullAssumption
<1>1. CASE j \in DOMAIN new
  <2>1. new[j] = T
    BY <1>1 DEF Continues
  <2>2. CASE /\ j + 1 \in DOMAIN new
             /\ \A q \in Ptr : m_raw[q] = T.a => new[j + 1].p = q
    BY <1>0, <2>2 DEF Continues
  <2>3. CASE /\ j = Len(new) /\ 2 \in DOMAIN stack
             /\ \A q \in Ptr : m_raw[q] = T.a => stack[2].p = q
    <3>1. Len(new) \in Nat /\ 2 + Len(new) - 1 = j + 1
      BY <2>3
    <3>2. j + 1 \in DOMAIN stack' /\ stack'[j + 1] = stack[2]
      BY <2>3, <3>1 DEF Continues
    <3> QED BY <1>0, <2>3, <3>2
  <2> QED BY <1>1, <2>1, <2>2, <2>3
<1>2. CASE j > Len(new)
  <2>1. PICK k \in DOMAIN stack :
            /\ T = stack[k]
            /\ k + 1 \in DOMAIN stack <=> j + 1 \in DOMAIN stack'
            /\ k + 1 \in DOMAIN stack => stack'[j + 1] = stack[k + 1]
    BY <1>2, Shifted
  <2>2. k + 1 \in DOMAIN stack /\ \A q \in Ptr : m_raw[q] = T.a => stack[k + 1].p = q
    BY <2>1 DEF LastPointer
  <2> QED BY <1>0, <2>1, <2>2
<1> QED BY <1>1, <1>2 DEF Continues

\* Members are still reset in time.
LEMMA ResetsKept ==
    ASSUME StackResets, NEW new \in Seq(Task), Continues(new),
           \A p \in Ptr : m_raw'[p] \in {m_raw[p], Null},
           \A p \in Ptr : stack[1].op \in {"unlink", "clear"} /\ stack[1].p = p =>
               \/ m_raw'[p] = Null
               \/ \E i \in DOMAIN new : new[i].op \in {"unlink", "clear"} /\ new[i].p = p,
           \A i \in DOMAIN new, p \in Ptr : Resets(new[i], p) =>
               \/ m_raw'[p] = Null
               \/ \E j \in DOMAIN new :
                      j < i /\ new[j].op \in {"unlink", "clear"} /\ new[j].p = p
    PROVE  StackResets'
<1> SUFFICES ASSUME NEW k \in DOMAIN stack', NEW p \in Ptr, Resets(stack'[k], p), m_raw'[p] # Null
             PROVE  \E j \in DOMAIN stack' :
                        j < k /\ stack'[j].op \in {"unlink", "clear"} /\ stack'[j].p = p
  BY DEF StackResets, Resets
<1>1. CASE k \in DOMAIN new
  BY <1>1 DEF Continues
<1>2. CASE k > Len(new)
  <2> DEFINE l == k - Len(new) + 1
  <2>1. l \in DOMAIN stack /\ l # 1 /\ stack'[k] = stack[l]
    BY <1>2 DEF Continues
  <2>2. PICK j \in DOMAIN stack :
            j < l /\ stack[j].op \in {"unlink", "clear"} /\ stack[j].p = p
    BY <2>1 DEF StackResets
  <2>3. CASE j = 1
    BY <1>2, <2>2, <2>3 DEF Continues
  <2>4. CASE j # 1
    <3>1. j + Len(new) - 1 \in DOMAIN stack' /\ stack'[j + Len(new) - 1] = stack[j]
          /\ j + Len(new) - 1 < k
      BY <2>1, <2>2, <2>4 DEF Continues
    <3> QED BY <2>2, <3>1
  <2> QED BY <2>3, <2>4
<1> QED BY <1>1, <1>2 DEF Continues

\* Destructors stay under the object they belong to.
LEMMA NestedKept ==
    ASSUME StackNested, NEW new \in Seq(Task), Continues(new),
           \A i \in DOMAIN new : i # 1 /\ new[i].op = "unlink" =>
               \E k \in DOMAIN new : i < k /\ new[k].op = "free"
    PROVE  StackNested'
<1> SUFFICES ASSUME NEW j \in DOMAIN stack', j # 1, stack'[j].op = "unlink"
             PROVE  \E k \in DOMAIN stack' : j < k /\ stack'[k].op = "free"
  BY DEF StackNested
<1>1. CASE j \in DOMAIN new
  BY <1>1 DEF Continues
<1>2. CASE j > Len(new)
  <2> DEFINE l == j - Len(new) + 1
  <2>1. l \in DOMAIN stack /\ l # 1 /\ stack'[j] = stack[l]
    BY <1>2 DEF Continues
  <2>2. PICK k \in DOMAIN stack : l < k /\ stack[k].op = "free"
    BY <2>1 DEF StackNested
  <2>3. k + Len(new) - 1 \in DOMAIN stack' /\ stack'[k + Len(new) - 1] = stack[k]
        /\ j < k + Len(new) - 1
    BY <2>1, <2>2, k # 1 DEF Continues
  <2> QED BY <2>2, <2>3
<1> QED BY <1>1, <1>2 DEF Continues

\* A step that leaves the heap, the doomed and the ptrs to clear alone.
LEMMA HeapKept ==
    ASSUME MapAgrees, ListedOnce, OwnersLive, OwnedIsAlive, DoomedIsUnowned,
           UNCHANGED heap, Doomed' = Doomed, Clearing' = Clearing
    PROVE  MapAgrees' /\ ListedOnce' /\ OwnersLive' /\ OwnedIsAlive' /\ DoomedIsUnowned'
BY DEF heap, MapAgrees, ListedOnce, OwnersLive, OwnedIsAlive, DoomedIsUnowned, Owns, Lives

\* A step that changes one group.
LEMMA ListedOnceKept ==
    ASSUME ListedOnce, NEW a \in Addr,
           \A b \in Addr : b # a => s_res_map'[b] = s_res_map[b],
           \A i, j \in DOMAIN s_res_map'[a] : s_res_map'[a][i] = s_res_map'[a][j] => i = j
    PROVE  ListedOnce'
<1> SUFFICES ASSUME NEW b \in Addr
             PROVE  \A i, j \in DOMAIN s_res_map'[b] : s_res_map'[b][i] = s_res_map'[b][j] => i = j
  BY DEF ListedOnce
<1>1. CASE b = a
  BY <1>1
<1>2. CASE b # a
  BY <1>2 DEF ListedOnce
<1> QED BY <1>1, <1>2

\* A loop over a group is the last task of its thread.
LEMMA LoopLast ==
    ASSUME StackOrder, stack \in Seq(Task), NEW j \in DOMAIN stack,
           stack[j].op \in Looping \cup Grouping
    PROVE  j = Len(stack)
<1>1. Len(stack) \in DOMAIN stack
  OBVIOUS
<1>2. ~ j < Len(stack)
  BY <1>1 DEF StackOrder, Before
<1> QED BY <1>2

\* While a thread holds the mutex the calls of the others assign to variables.
LEMMA OthersCall ==
    ASSUME Threads, CallsReady, holder \in Thread, NEW u \in Thread, call[u] # NoCall
    PROVE  /\ u # holder /\ ~ Solo
           /\ call[u].op \in {"link", "unlink"} /\ call[u].p \in AppPtr
           /\ \E o \in Ops : o.t = u /\ o.p = call[u].p
<1>1. u # holder
  BY DEF Threads
<1>2. ~ Solo
  BY <1>1 DEF Threads, Solo
<1> QED BY <1>1, <1>2 DEF CallsReady

\* The calls that wait stay ready while their addresses are kept.
LEMMA CallsKept ==
    ASSUME Threads, CallsReady, holder \in Thread, call' = call,
           \A u \in Thread, a \in Addr :
               call[u] # NoCall /\ call[u].op \in Linking /\ call[u].a = a /\ CallAnchored(u, a)
                   => CallAnchored(u, a)',
           TypeOK
    PROVE  CallsReady'
<1> SUFFICES ASSUME NEW u \in Thread, call[u] # NoCall
             PROVE  /\ Ready(call[u])'
                    /\ call[u].op \in Linking /\ call[u].a # Null =>
                           \E a \in Addr : a = call[u].a /\ CallAnchored(u, a)'
  BY OthersCall DEF CallsReady, Ready, CallAnchored
<1>1. /\ call[u].op \in {"link", "unlink"} /\ call[u].p \in AppPtr
      /\ call[u] \in Task
  BY OthersCall DEF TypeOK
<1>2. Ready(call[u])'
  BY <1>1 DEF CallsReady, Ready, Lives, Grouping
<1>3. ASSUME call[u].op \in Linking, call[u].a # Null
      PROVE  \E a \in Addr : a = call[u].a /\ CallAnchored(u, a)'
  <2>1. PICK a \in Addr : a = call[u].a
    BY <1>1, <1>3, TaskShape
  <2>2. CallAnchored(u, a)
    BY <1>3, <2>1 DEF CallsReady
  <2> QED BY <1>3, <2>1, <2>2
<1> QED BY <1>2, <1>3

\* The owner that keeps an address for a call is out of reach of the thread
\* that holds the mutex.
LEMMA CallAnchoredKept ==
    ASSUME TypeOK, Threads, Targeted, CallsReady, holder \in Thread, call' = call,
           NEW u \in Thread, NEW a \in Addr, call[u] # NoCall, CallAnchored(u, a),
           a \in alive', a \notin Doomed',
           s_res_map[a] = << >> => s_res_map'[a] = << >>,
           \A h \in AppPtr :
               (\A j \in DOMAIN stack : stack[j].op \in OnPtr => stack[j].p # h) /\ Owns(h, a)
                   => Owns(h, a)'
    PROVE  CallAnchored(u, a)'
<1>1. CASE s_res_map[a] = << >>
  BY <1>1 DEF CallAnchored
<1>2. CASE s_res_map[a] # << >>
  <2>1. PICK h \in AppPtr : /\ Owns(h, a) /\ h # call[u].p
                            /\ \A o \in Ops : o.t # u => o.p # h
    BY <1>2 DEF CallAnchored
  <2>2. \A j \in DOMAIN stack : stack[j].op \in OnPtr => stack[j].p # h
    BY <2>1, OthersCall DEF Targeted
  <2>3. Owns(h, a)'
    BY <2>1, <2>2
  <2> QED BY <2>1, <2>3 DEF CallAnchored
<1> QED BY <1>1, <1>2

\* An owner that stays still stays when ptrs are only cleared.
LEMMA StaysKept ==
    ASSUME \A p \in Ptr : m_raw'[p] \in {m_raw[p], Null},
           NEW h, NEW T \in Task, Stays(h, T)
    PROVE  Stays(h, T)'
<1>1. \A b \in Addr : Frees(T, b)' => Frees(T, b)
  BY TaskShape, NullAssumption DEF Frees, Leaving, OnPtr
<1> QED BY <1>1 DEF Stays, Above

\* An address keeps its owner when the new tasks leave that owner alone.
LEMMA AnchoredKept ==
    ASSUME NEW new \in Seq(Task), Continues(new),
           \A p \in Ptr : m_raw'[p] \in {m_raw[p], Null},
           NEW a \in Addr, Anchored(a), a \in alive', a \notin Doomed',
           s_res_map[a] = << >> => s_res_map'[a] = << >>,
           \A h \in Ptr : Owns(h, a) /\ (\A j \in DOMAIN stack : Stays(h, stack[j])) =>
               Owns(h, a)' /\ \A i \in DOMAIN new : Stays(h, new[i])
    PROVE  Anchored(a)'
<1>1. CASE s_res_map[a] = << >>
  BY <1>1 DEF Anchored
<1>2. CASE s_res_map[a] # << >>
  <2>1. PICK h \in Ptr : Owns(h, a) /\ \A j \in DOMAIN stack : Stays(h, stack[j])
    BY <1>2 DEF Anchored
  <2>2. Owns(h, a)' /\ \A i \in DOMAIN new : Stays(h, new[i])
    BY <2>1
  <2>3. ASSUME NEW j \in DOMAIN stack', NEW T \in Task, T = stack'[j]
        PROVE  Stays(h, T)'
    <3>1. CASE j \in DOMAIN new
      BY <2>2, <2>3, <3>1, StaysKept DEF Continues
    <3>2. CASE j > Len(new)
      BY <2>1, <2>3, <3>2, StaysKept DEF Continues
    <3> QED BY <3>1, <3>2 DEF Continues
  <2>4. \A j \in DOMAIN stack' : Stays(h, stack[j])'
    BY <2>3 DEF Continues, Stays, Frees
  <2> QED BY <2>2, <2>4 DEF Anchored
<1> QED BY <1>1, <1>2

\* The tasks that stay are still ready.
LEMMA ReadyKept ==
    ASSUME StackReady, StackOrder, NEW new \in Seq(Task), Continues(new),
           \A p \in Ptr : m_raw'[p] \in {m_raw[p], Null},
           \A p \in Ptr :
               (\E k \in DOMAIN stack : k # 1 /\ stack[k].op \in OnPtr /\ stack[k].p = p)
                   => Lives(p)',
           \A i \in DOMAIN new :
               /\ Ready(new[i]) /\ new[i].op \notin Grouping
               /\ new[i].op \in OnPtr => Lives(new[i].p)'
               /\ new[i].op \in Linking => stack[1].op \in Linking /\ stack[1].a = new[i].a,
           \A a \in Addr :
               (\E k \in DOMAIN stack : stack[k].op \in Linking /\ stack[k].a = a) /\ Anchored(a)
                   => Anchored(a)'
    PROVE  StackReady'
<1>0. 1 \in DOMAIN stack
  BY DEF Continues
<1> SUFFICES ASSUME NEW j \in DOMAIN stack', NEW T \in Task, T = stack'[j]
             PROVE  /\ Ready(T)'
                    /\ T.op \in Linking /\ T.a # Null =>
                           \E a \in Addr : a = T.a /\ Anchored(a)'
  BY DEF StackReady, Ready, Anchored, Continues
<1>1. /\ Ready(T) /\ T.op \notin Grouping
      /\ T.op \in OnPtr => Lives(T.p)'
      /\ T.op \in Linking => \E k \in DOMAIN stack : stack[k].op \in Linking /\ stack[k].a = T.a
  <2>1. CASE j \in DOMAIN new
    BY <2>1, <1>0 DEF Continues
  <2>2. CASE j > Len(new)
    <3>1. PICK k \in DOMAIN stack : k # 1 /\ T = stack[k]
      BY <2>2 DEF Continues
    <3>2. T.op \notin Grouping
      BY <1>0, <3>1 DEF StackOrder, Before, Continues
    <3>3. T.op \in OnPtr => Lives(T.p)'
      BY <3>1, TaskShape
    <3>4. Ready(T)
      BY <3>1 DEF StackReady
    <3> QED BY <3>1, <3>2, <3>3, <3>4
  <2> QED BY <2>1, <2>2 DEF Continues
<1>2. Ready(T)'
  BY <1>1, TaskShape, NullAssumption DEF Ready, Looping, Linking, Grouping
<1>3. ASSUME T.op \in Linking, T.a # Null PROVE \E a \in Addr : a = T.a /\ Anchored(a)'
  <2>1. PICK a \in Addr : a = T.a
    BY <1>3, TaskShape
  <2>2. Anchored(a)
    BY <1>1, <1>3, <2>1 DEF StackReady
  <2> QED BY <1>1, <1>3, <2>1, <2>2
<1> QED BY <1>2, <1>3

\* Who wants an address before the step and who does after it.
LEMMA Wanted ==
    ASSUME TypeOK, Threads, NEW t \in Thread, holder = t, work[t] # << >>,
           NEW new \in Seq(Task), Continue(t, new), NEW a \in Addr
    PROVE  /\ \A u \in Thread : u # t =>
                 /\ Wants(u, a)' <=> Wants(u, a)
                 /\ Wants(u, a) <=> call[u].op \in Linking /\ call[u].a = a
           /\ Wants(t, a) <=> \E k \in DOMAIN stack : stack[k].op \in Linking /\ stack[k].a = a
           /\ Wants(t, a)' <=>
                 \/ \E i \in DOMAIN new : new[i].op \in Linking /\ new[i].a = a
                 \/ \E k \in DOMAIN stack : k # 1 /\ stack[k].op \in Linking /\ stack[k].a = a
<1>1. /\ Continues(new) /\ stack = work[t] /\ holder' = holder /\ call' = call
      /\ \A u \in Thread : u # t => work[u] = << >> /\ work'[u] = << >>
  BY Continued
<1>2. ASSUME NEW u \in Thread, u # t
      PROVE  /\ Wants(u, a)' <=> Wants(u, a)
             /\ Wants(u, a) <=> call[u].op \in Linking /\ call[u].a = a
  BY <1>1, <1>2 DEF Wants
<1>3. call[t] = NoCall /\ stack' = work'[t]
  BY <1>1, NullAssumption DEF Threads, stack
<1>4. Wants(t, a) <=> \E k \in DOMAIN stack : stack[k].op \in Linking /\ stack[k].a = a
  BY <1>1, <1>3 DEF Wants, NoCall, Linking
<1>5. Wants(t, a)' <=> \E k \in DOMAIN stack' : stack'[k].op \in Linking /\ stack'[k].a = a
  BY <1>1, <1>3 DEF Wants, NoCall, Linking
<1>6. \A k \in DOMAIN stack' : k \in DOMAIN new \/ k > Len(new)
  BY <1>1 DEF Continues
<1>7. Wants(t, a)' <=>
          \/ \E i \in DOMAIN new : new[i].op \in Linking /\ new[i].a = a
          \/ \E k \in DOMAIN stack : k # 1 /\ stack[k].op \in Linking /\ stack[k].a = a
  BY <1>1, <1>5, <1>6 DEF Continues
<1> QED BY <1>2, <1>4, <1>7

\* Nothing leaks in a step that keeps what was owned or wanted so.
LEMMA LeaksKept ==
    ASSUME TypeOK, Threads, NEW t \in Thread, holder = t, work[t] # << >>,
           NEW new \in Seq(Task), Continue(t, new),
           NothingLeaks, FreshOnce,
           alive' \ Doomed' \subseteq alive \ Doomed,
           \A i \in DOMAIN new : new[i].op \in Linking =>
               stack[1].op \in Linking /\ stack[1].a = new[i].a,
           \A a \in Addr : stack[1].op \in Linking /\ stack[1].a = a =>
               \/ \E i \in DOMAIN new : new[i].op \in Linking /\ new[i].a = a
               \/ s_res_map'[a] # << >>,
           \A a \in Addr : s_res_map[a] # << >> =>
               \/ s_res_map'[a] # << >>
               \/ a \notin alive' \ Doomed' /\ \A u \in Thread : ~ Wants(u, a)
    PROVE  NothingLeaks' /\ FreshOnce'
<1>0. Continues(new) /\ 1 \in DOMAIN stack
  BY Continued DEF Continues
<1>1. ASSUME NEW u \in Thread, NEW a \in Addr, Wants(u, a)' PROVE Wants(u, a)
  BY <1>0, <1>1, Wanted
<1>2. ASSUME NEW u \in Thread, NEW a \in Addr, Wants(u, a), s_res_map'[a] = << >>
      PROVE  Wants(u, a)'
  BY <1>0, <1>2, Wanted
<1>3. NothingLeaks'
  <2> SUFFICES ASSUME NEW a \in alive' \ Doomed', s_res_map'[a] = << >>
               PROVE  \E u \in Thread : Wants(u, a)'
    BY DEF NothingLeaks
  <2>1. a \in alive \ Doomed /\ a \in Addr
    BY DEF TypeOK
  <2> QED BY <1>2, <2>1 DEF NothingLeaks
<1>4. FreshOnce'
  <2> SUFFICES ASSUME NEW u \in Thread, NEW v \in Thread, NEW a \in Addr,
                      u # v, Wants(u, a)', Wants(v, a)'
               PROVE  s_res_map'[a] # << >>
    BY DEF FreshOnce
  <2> QED BY <1>1 DEF FreshOnce
<1> QED BY <1>3, <1>4

\* A group that its last owner leaves is wanted by nobody.
LEMMA NotWanted ==
    ASSUME IInv, holder \in Thread, stack \in Seq(Task), stack # << >>,
           stack[1].op = "unlink", NEW a \in Addr,
           \A h \in Ptr : Owns(h, a) => h = stack[1].p, s_res_map[a] # << >>,
           NEW u \in Thread
    PROVE  ~ Wants(u, a)
<1>1. stack = work[holder]
  BY NullAssumption DEF stack
<1>2. 1 \in DOMAIN stack
  OBVIOUS
<1>3. ASSUME NEW j \in DOMAIN stack, stack[j].op \in Linking, stack[j].a = a
      PROVE  FALSE
  <2>1. Anchored(a)
    BY <1>3, NullAssumption DEF IInv, StackReady
  <2>2. PICK h \in Ptr : Owns(h, a) /\ Stays(h, stack[1])
    BY <1>2, <2>1 DEF Anchored
  <2> QED BY <2>2 DEF Stays, Leaving
<1>4. ASSUME call[u].op \in Linking, call[u].a = a
      PROVE  FALSE
  <2>1. call[u] # NoCall
    BY <1>4 DEF NoCall, Linking
  <2>2. CallAnchored(u, a)
    BY <1>4, <2>1, NullAssumption DEF IInv, CallsReady
  <2>3. PICK h \in AppPtr : Owns(h, a) /\ \A o \in Ops : o.t # u => o.p # h
    BY <2>2 DEF CallAnchored
  <2>4. u # holder /\ ~ Solo
    BY <2>1, OthersCall DEF IInv
  <2>5. h = stack[1].p
    BY <2>3 DEF Ptr
  <2> QED BY <1>2, <2>3, <2>4, <2>5 DEF IInv, Targeted, OnPtr
<1>5. u # holder => work[u] = << >>
  BY DEF IInv, Threads
<1> QED BY <1>1, <1>3, <1>4, <1>5 DEF Wants

\* The loop below a cascade of destructors has come to its end.
LEMMA LoopStaysDoomed ==
    ASSUME TypeOK, LoopsAgree, StackOrder, NEW new \in Seq(Task), Continues(new),
           Doomed # {}, Doomed' # {},
           \A a \in Addr : s_res_map[a] = << >> => s_res_map'[a] = << >>,
           \A i \in DOMAIN new : new[i].op \notin Looping
    PROVE  LoopsAgree'
<1> SUFFICES ASSUME NEW j \in DOMAIN stack', NEW e \in Task, e = stack'[j], e.op \in Looping
             PROVE  Turn(e)'
  BY DEF LoopsAgree, Turn, Awaits, Continues
<1>1. PICK k \in DOMAIN stack : e = stack[k]
  BY DEF Continues
<1>2. Turn(e)
  BY <1>1 DEF LoopsAgree
<1>3. e.key \in Addr /\ s_res_map[e.key] = << >>
  BY <1>2, TaskShape DEF Turn, TypeOK
<1>4. s_res_map'[e.key] = << >>
  BY <1>3
<1>5. \A p : ~ Contains(s_res_map[e.key], p) /\ ~ Contains(s_res_map'[e.key], p)
  BY <1>3, <1>4 DEF Contains
<1>6. e.i = 0
  BY <1>2, <1>3, <1>5, TaskShape DEF Turn, Awaits, Owns
<1>7. Len(stack') # 1
  BY DEF Doomed, Deleting, Looping, Continues
<1>8. ~ Awaits(e.key)'
  BY <1>5 DEF Awaits, Owns
<1>9. ~ (e.op = "each_link" /\ e.a = e.key)
  BY <1>2 DEF Turn
<1> QED BY <1>4, <1>5, <1>6, <1>7, <1>8, <1>9 DEF Turn, Owns

\* What the invariant says of the task on top.
LEMMA Doing ==
    ASSUME IInv, NEW t \in Thread, NEW op, Does(t, op)
    PROVE  /\ holder = t /\ holder \in Thread /\ work[t] # << >>
           /\ stack = work[t] /\ stack \in Seq(Task) /\ stack # << >>
           /\ 1 \in DOMAIN stack
           /\ stack[1] = Head(work[t]) /\ stack[1] \in Task /\ stack[1].op = op
           /\ Ready(stack[1])
           /\ \A k \in DOMAIN stack : stack[k] \in Task
           /\ \A k \in DOMAIN stack : k # 1 => Before(stack[1], stack[k])
           /\ 2 \in DOMAIN stack => Adjacent(stack[1], stack[2])
<1>1. holder = t /\ work[t] # << >> /\ Head(work[t]).op = op
  BY DEF Does
<1>2. stack = work[t] /\ stack \in Seq(Task) /\ 1 \in DOMAIN stack
  BY <1>1, NullAssumption DEF stack, IInv, TypeOK
<1>3. stack[1] = Head(work[t]) /\ stack[1] \in Task
  BY <1>1, <1>2
<1>4. \A k \in DOMAIN stack : stack[k] \in Task
  BY <1>2
<1>5. \A k \in DOMAIN stack : k # 1 => Before(stack[1], stack[k])
  BY <1>2 DEF IInv, StackOrder
<1>6. 2 \in DOMAIN stack => Adjacent(stack[1], stack[2])
  BY <1>2, 1 + 1 = 2 DEF IInv, StackAdjacent
<1> QED BY <1>1, <1>2, <1>3, <1>4, <1>5, <1>6 DEF IInv, StackReady

\* What the thread targets it may target.
LEMMA Target ==
    ASSUME IInv, stack \in Seq(Task), stack # << >>, ~ Solo
    PROVE  /\ stack[1].op \notin Grouping \cup Looping
           /\ stack[1].op \in OnPtr /\ stack[1].p \in AppPtr =>
                  \E o \in Ops : o.t = holder /\ o.p = stack[1].p
<1>1. 1 \in DOMAIN stack
  OBVIOUS
<1> QED BY <1>1 DEF IInv, Targeted

USE DEF OnPtr, Leaving, Linking, Grouping, Looping, Deleting

\* A step that leaves the heap alone.
LEMMA StackStep ==
    ASSUME IInv, NEW t \in Thread, holder = t, work[t] # << >>,
           NEW new \in Seq(Task), Continue(t, new), UNCHANGED heap,
           \A i \in DOMAIN new :
               /\ Ready(new[i]) /\ new[i].op \notin Grouping \cup {"clear"}
               /\ new[i].op \in Linking => stack[1].op \in Linking /\ stack[1].a = new[i].a
               /\ new[i].op \in Deleting => stack[1].op \in Deleting /\ stack[1].a = new[i].a,
           Solo \/ \A i \in DOMAIN new :
               /\ new[i].op \notin Looping
               /\ new[i].op \in OnPtr /\ new[i].p \in AppPtr =>
                      \E o \in Ops : o.t = holder /\ o.p = new[i].p,
           stack[1].op # "clear",
           \A a \in Addr : stack[1].op \in Deleting /\ stack[1].a = a =>
               \E i \in DOMAIN new : new[i].op \in Deleting /\ new[i].a = a,
           \A a \in Addr : stack[1].op \in Linking /\ stack[1].a = a =>
               \/ \E i \in DOMAIN new : new[i].op \in Linking /\ new[i].a = a
               \/ s_res_map[a] # << >>,
           \A i, j \in DOMAIN new : i < j => Before(new[i], new[j]),
           \A i \in DOMAIN new, k \in DOMAIN stack : k # 1 => Before(new[i], stack[k]),
           \A i \in DOMAIN new : i + 1 \in DOMAIN new => Adjacent(new[i], new[i + 1]),
           new # << >> /\ 2 \in DOMAIN stack => Adjacent(new[Len(new)], stack[2]),
           \A i \in DOMAIN new : new[i].op \in Deleting =>
               /\ i = Len(new) /\ 2 \in DOMAIN stack
               /\ \A q \in Ptr : m_raw[q] = new[i].a => stack[2].p = q,
           \A p \in Ptr : stack[1].op = "unlink" /\ stack[1].p = p => m_raw[p] = Null,
           \A i \in DOMAIN new, p \in Ptr : Resets(new[i], p) =>
               \E j \in DOMAIN new :
                  j < i /\ new[j].op \in {"unlink", "clear"} /\ new[j].p = p,
           \A i \in DOMAIN new : i # 1 /\ new[i].op = "unlink" =>
               \E k \in DOMAIN new : i < k /\ new[k].op = "free",
           \A a \in Addr :
               (\E k \in DOMAIN stack : stack[k].op \in Linking /\ stack[k].a = a) /\ Anchored(a)
                   => Anchored(a)',
           LoopsAgree'
    PROVE  IInv'
<1>1. /\ Continues(new) /\ holder' = holder /\ call' = call /\ broken' = broken
      /\ work' \in [Thread -> Seq(Task)] /\ Threads'
      /\ holder \in Thread /\ 1 \in DOMAIN stack
  BY Continued DEF IInv, Continues
<1>2. s_res_map' = s_res_map /\ m_raw' = m_raw /\ alive' = alive
  BY DEF heap
<1>3. Doomed' = Doomed /\ Clearing' = Clearing
  <2>1. \A a \in Addr : (stack[1].op \in Deleting /\ stack[1].a = a)
                           <=> \E i \in DOMAIN new : new[i].op \in Deleting /\ new[i].a = a
    OBVIOUS
  <2>2. \A i \in DOMAIN new : new[i].op # "clear"
    OBVIOUS
  <2> QED BY <1>1, <2>1, <2>2, BelowKept
<1>4. TypeOK'
  BY <1>1, <1>2 DEF IInv, TypeOK
<1>5. Targeted'
  BY <1>1, TargetedKept DEF IInv
<1>6. MapAgrees' /\ ListedOnce' /\ OwnersLive' /\ OwnedIsAlive' /\ DoomedIsUnowned'
  BY <1>3, HeapKept DEF IInv
<1>7. NothingLeaks' /\ FreshOnce'
  BY <1>2, <1>3, LeaksKept DEF IInv
<1>8. StackOrder'
  BY <1>1, <1>2, OrderKept DEF IInv
<1>9. StackAdjacent'
  BY <1>1, <1>2, AdjacentKept DEF IInv
<1>10. LastPointer'
  BY <1>1, <1>2, LastPointerKept DEF IInv
<1>11. StackResets'
  BY <1>1, <1>2, ResetsKept DEF IInv
<1>12. StackNested'
  BY <1>1, NestedKept DEF IInv
<1>13. StackReady'
  <2>1. \A q \in Ptr : Lives(q) => Lives(q)'
    BY <1>2 DEF Lives
  <2>2. \A q \in Ptr :
            (\E k \in DOMAIN stack : k # 1 /\ stack[k].op \in OnPtr /\ stack[k].p = q) => Lives(q)'
    BY <2>1 DEF IInv, StackReady, Ready
  <2>3. \A i \in DOMAIN new : new[i].op \in OnPtr => Lives(new[i].p)'
    BY <1>2 DEF Ready, Lives
  <2> QED BY <1>1, <1>2, <2>2, <2>3, ReadyKept DEF IInv
<1>14. CallsReady'
  <2>1. \A u \in Thread, b \in Addr :
            call[u] # NoCall /\ CallAnchored(u, b) => CallAnchored(u, b)'
    BY <1>1, <1>2, <1>3 DEF CallAnchored, Owns
  <2> QED BY <1>1, <2>1, CallsKept DEF IInv
<1> QED BY <1>1, <1>4, <1>5, <1>6, <1>7, <1>8, <1>9, <1>10, <1>11, <1>12, <1>13, <1>14 DEF IInv

-----------------------------------------------------------------------------
(* link() *)

\* Below link() there is at most the loop of a group_link().
LEMMA BelowLink ==
    ASSUME StackOrder, stack \in Seq(Task), 1 \in DOMAIN stack, stack[1].op \in {"link", "join"}
    PROVE  /\ \A k \in DOMAIN stack : k # 1 => k = 2
           /\ 2 \in DOMAIN stack => /\ stack[2].op = "each_link" /\ stack[2].a = stack[1].a
                                    /\ Above(stack[1].p, stack[2].key)
                                    /\ Len(stack) = 2
<1>1. \A k \in DOMAIN stack : k # 1 => Before(stack[1], stack[k])
  BY DEF StackOrder
<1>2. ASSUME NEW k \in DOMAIN stack, k > 2 PROVE FALSE
  <2>1. 2 \in DOMAIN stack /\ Before(stack[2], stack[k])
    BY <1>2 DEF StackOrder
  <2> QED BY <1>1, <2>1 DEF Before
<1>3. /\ \A k \in DOMAIN stack : k # 1 => k = 2
      /\ 2 \in DOMAIN stack => Len(stack) = 2
  <2>1. DOMAIN stack = 1 .. Len(stack) /\ Len(stack) \in Nat
    OBVIOUS
  <2>2. ~ Len(stack) > 2
    BY <1>2, <2>1
  <2> QED BY <2>1, <2>2
<1> QED BY <1>1, <1>3 DEF Before

\* link() puts unlink() and the rest of itself on the stack.
LEMMA LinkStep ==
    ASSUME IInv, NEW t \in Thread, Link(t)
    PROVE  IInv'
<1> DEFINE T == stack[1]
<1>1. /\ Does(t, "link")
      /\ UNCHANGED heap
      /\ Continue(t, <<[op |-> "unlink", p |-> Head(work[t]).p],
                       [op |-> "join", p |-> Head(work[t]).p, a |-> Head(work[t]).a]>>)
  BY DEF Link
<1>2. /\ holder = t /\ holder \in Thread /\ work[t] # << >>
      /\ stack \in Seq(Task) /\ stack # << >> /\ 1 \in DOMAIN stack
      /\ T = Head(work[t]) /\ T \in Task /\ T.op = "link" /\ Ready(T)
      /\ \A k \in DOMAIN stack : stack[k] \in Task
      /\ \A k \in DOMAIN stack : k # 1 => Before(T, stack[k])
      /\ 2 \in DOMAIN stack => Adjacent(T, stack[2])
  BY <1>1, Doing
<1>3. PICK p \in Ptr, a \in Addr \cup {Null} : T.p = p /\ T.a = a
  BY <1>2, TaskShape
<1> DEFINE U == [op |-> "unlink", p |-> p]
           J == [op |-> "join", p |-> p, a |-> a]
           new == <<U, J>>
<1>4. U \in Task /\ J \in Task /\ new \in Seq(Task)
  <2>1. U \in Task /\ J \in Task
    BY TaskMade
  <2> HIDE DEF U, J
  <2> QED BY <2>1
<1>5. Continue(t, new)
  BY <1>1, <1>2, <1>3
<1>6. /\ U.op = "unlink" /\ U.p = p /\ J.op = "join" /\ J.p = p /\ J.a = a
      /\ DOMAIN new = {1, 2} /\ Len(new) = 2 /\ new[1] = U /\ new[2] = J
  OBVIOUS
<1> HIDE DEF T, U, J, new
<1>7. Continues(new)
  BY <1>2, <1>4, <1>5, Continued DEF IInv
<1>8. s_res_map' = s_res_map /\ m_raw' = m_raw /\ alive' = alive
  BY <1>1 DEF heap
<1>9. Doomed' = Doomed
  <2>1. stack[1].op \notin Deleting /\ \A i \in DOMAIN new : new[i].op \notin Deleting
    BY <1>2, <1>6 DEF T
  <2> QED BY <1>7, <2>1, Below
<1>10. Solo \/ \A i \in DOMAIN new : new[i].op \in OnPtr /\ new[i].p \in AppPtr =>
                   \E o \in Ops : o.t = holder /\ o.p = new[i].p
  BY <1>2, <1>3, <1>6, Target DEF T
<1>11. Before(U, J)
  <2>1. \A b \in Addr : m_raw[p] = b => Above(p, b)
    BY AboveOwn, NullAssumption DEF IInv, OwnersLive
  <2> QED BY <1>6, <2>1 DEF Before, Frees
<1>12. ASSUME NEW k \in DOMAIN stack, k # 1 PROVE Before(U, stack[k]) /\ Before(J, stack[k])
  <2>1. Before(T, stack[k])
    BY <1>2, <1>12
  <2> QED BY <1>2, <1>3, <1>6, <2>1 DEF Before
<1>13. /\ \A i \in DOMAIN new : i + 1 \in DOMAIN new => Adjacent(new[i], new[i + 1])
       /\ 2 \in DOMAIN stack => Adjacent(J, stack[2])
  <2>1. Adjacent(U, J)
    BY <1>6 DEF Adjacent
  <2>2. 2 \in DOMAIN stack => stack[2].op = "each_link"
    BY <1>2 DEF Before
  <2> QED BY <1>6, <2>1, <2>2 DEF Adjacent
<1>14. \A i \in DOMAIN new, q \in Ptr : Resets(new[i], q) =>
           \E j \in DOMAIN new : j < i /\ new[j].op \in {"unlink", "clear"} /\ new[j].p = q
  <2>1. \A i \in DOMAIN new, q \in Ptr : Resets(new[i], q) => i = 2 /\ q = p
    BY <1>6 DEF Resets
  <2> QED BY <1>6, <2>1
<1>15. ASSUME NEW b \in Addr, Anchored(b) PROVE Anchored(b)'
  <2>1. ASSUME NEW h \in Ptr, \A j \in DOMAIN stack : Stays(h, stack[j])
        PROVE  \A i \in DOMAIN new : Stays(h, new[i])
    <3>1. Stays(h, T)
      BY <1>2, <2>1 DEF T
    <3> QED BY <1>2, <1>3, <1>6, <3>1 DEF Stays, Frees
  <2>2. b \in alive' /\ b \notin Doomed'
    BY <1>8, <1>9, <1>15 DEF Anchored
  <2> QED BY <1>4, <1>7, <1>8, <1>15, <2>1, <2>2, AnchoredKept DEF Owns
<1>16. \A i \in DOMAIN new : Ready(new[i])
  BY <1>2, <1>3, <1>6 DEF Ready
<1>17. LoopsAgree'
  <2> SUFFICES ASSUME NEW j \in DOMAIN stack', NEW e \in Task, e = stack'[j], e.op \in Looping
               PROVE  Turn(e)'
    BY <1>7 DEF LoopsAgree, Turn, Awaits, Continues
  <2>1. stack' \in Seq(Task) /\ stack'[1] = U /\ stack'[2] = J /\ j > 2
    BY <1>6, <1>7 DEF Continues
  <2>2. 2 \in DOMAIN stack /\ Len(stack) = 2 /\ e = stack[2]
    BY <1>2, <1>6, <1>7, <2>1, BelowLink DEF Continues, IInv, T
  <2>3. Len(stack') = 3 /\ stack'[3] = e
    BY <1>6, <1>7, <2>2 DEF Continues
  <2>4. Turn(e)
    BY <2>2 DEF IInv, LoopsAgree
  <2>5. Awaits(e.key)' <=> Awaits(e.key)
    BY <1>2, <1>3, <1>6, <1>8, <2>1 DEF Awaits, Owns, T
  <2> QED BY <1>2, <1>3, <1>6, <1>8, <1>9, <2>1, <2>2, <2>3, <2>4, <2>5 DEF Turn, Owns, T
<1>18. \A i \in DOMAIN new : /\ new[i].op \in {"unlink", "join"}
                             /\ new[i].op = "join" => new[i].a = stack[1].a
  BY <1>3, <1>6 DEF T
<1>19. \A b \in Addr : stack[1].a = b => \E i \in DOMAIN new : new[i].op = "join" /\ new[i].a = b
  BY <1>3, <1>6 DEF T
<1>20. /\ \A i, j \in DOMAIN new : i < j => Before(new[i], new[j])
       /\ \A i \in DOMAIN new, k \in DOMAIN stack : k # 1 => Before(new[i], stack[k])
       /\ \A i \in DOMAIN new : i # 1 => new[i].op # "unlink"
  BY <1>6, <1>11, <1>12
<1>21. stack[1].op = "link" /\ new[Len(new)] = J
  BY <1>2, <1>6 DEF T
<1> QED BY <1>1, <1>2, <1>4, <1>5, <1>10, <1>13, <1>14, <1>15, <1>16, <1>17, <1>18, <1>19, <1>20,
           <1>21, StackStep

-----------------------------------------------------------------------------
(* The rest of link() *)

\* A ptr that is linked to nullptr joins no group.
LEMMA JoinNullStep ==
    ASSUME IInv, NEW t \in Thread, Does(t, "join"), Head(work[t]).a = Null,
           Continue(t, << >>), UNCHANGED heap
    PROVE  IInv'
<1> DEFINE T == stack[1]
           new == << >>
<1>1. /\ holder = t /\ holder \in Thread /\ work[t] # << >>
      /\ stack \in Seq(Task) /\ stack # << >> /\ 1 \in DOMAIN stack
      /\ T = Head(work[t]) /\ T \in Task /\ T.op = "join" /\ Ready(T) /\ T.a = Null
      /\ \A k \in DOMAIN stack : stack[k] \in Task
  BY Doing
<1>2. new \in Seq(Task) /\ DOMAIN new = {} /\ Len(new) = 0 /\ new = << >> /\ Continue(t, new)
  OBVIOUS
<1> HIDE DEF T, new
<1>3. Continues(new)
  BY <1>1, <1>2, Continued DEF IInv
<1>4. s_res_map' = s_res_map /\ m_raw' = m_raw /\ alive' = alive
  BY DEF heap
<1>5. Doomed' = Doomed
  BY <1>1, <1>2, <1>3, Below DEF T
<1>6. ASSUME NEW b \in Addr, Anchored(b) PROVE Anchored(b)'
  <2>1. b \in alive' /\ b \notin Doomed'
    BY <1>4, <1>5, <1>6 DEF Anchored
  <2> QED BY <1>2, <1>3, <1>4, <1>6, <2>1, AnchoredKept DEF Owns
<1>7. LoopsAgree'
  <2> SUFFICES ASSUME NEW j \in DOMAIN stack', NEW e \in Task, e = stack'[j], e.op \in Looping
               PROVE  Turn(e)'
    BY <1>3 DEF LoopsAgree, Turn, Awaits, Continues
  <2>1. 2 \in DOMAIN stack /\ Len(stack) = 2 /\ e = stack[2] /\ e.op = "each_link" /\ e.a = Null
    BY <1>1, <1>2, <1>3, BelowLink DEF Continues, IInv, T
  <2>2. stack' \in Seq(Task) /\ Len(stack') = 1 /\ stack'[1] = e
    BY <1>2, <1>3, <2>1 DEF Continues
  <2>3. Turn(e)
    BY <2>1 DEF IInv, LoopsAgree
  <2>4. ~ Awaits(e.key)' /\ ~ Awaits(e.key)
    BY <1>1, <2>1, <2>2 DEF Awaits, Owns, T
  <2>5. e.key # Null
    BY <2>1, TaskShape, NullAssumption
  <2> QED BY <1>1, <1>4, <1>5, <2>1, <2>2, <2>3, <2>4, <2>5 DEF Turn, Owns, T
<1>8. stack[1].op = "join" /\ \A b \in Addr : stack[1].a # b
  BY <1>1, NullAssumption DEF T
<1> QED BY <1>1, <1>2, <1>6, <1>7, <1>8, StackStep

\* A ptr joins the group of an address that is there.
LEMMA JoinGroupStep ==
    ASSUME IInv, NEW t \in Thread, Does(t, "join"), NEW p \in Ptr, NEW a \in Addr,
           Head(work[t]).p = p, Head(work[t]).a = a, Lives(p),
           Continue(t, << >>),
           s_res_map' = [s_res_map EXCEPT ![a] = Append(@, p)],
           m_raw' = [m_raw EXCEPT ![p] = a],
           alive' = alive
    PROVE  IInv'
<1> DEFINE T == stack[1]
           new == << >>
<1>1. /\ holder = t /\ holder \in Thread /\ work[t] # << >>
      /\ stack \in Seq(Task) /\ stack # << >> /\ 1 \in DOMAIN stack
      /\ T = Head(work[t]) /\ T \in Task /\ T.op = "join" /\ Ready(T) /\ T.p = p /\ T.a = a
      /\ \A k \in DOMAIN stack : stack[k] \in Task
  BY Doing
<1>2. new \in Seq(Task) /\ DOMAIN new = {} /\ Len(new) = 0 /\ new = << >> /\ Continue(t, new)
  OBVIOUS
<1> HIDE DEF T, new
<1>3. /\ Continues(new) /\ holder' = holder /\ call' = call /\ broken' = broken
      /\ work' \in [Thread -> Seq(Task)] /\ Threads'
  BY <1>1, <1>2, Continued DEF IInv
<1>4. /\ \A k \in DOMAIN stack : k # 1 => k = 2
      /\ 2 \in DOMAIN stack => /\ stack[2].op = "each_link" /\ stack[2].a = a
                               /\ Above(p, stack[2].key) /\ Len(stack) = 2
      /\ \A k \in DOMAIN stack : stack[k].op \in {"join", "each_link"}
  BY <1>1, BelowLink DEF IInv, T
<1>5. /\ \A k \in DOMAIN stack' : k = 1 /\ stack'[k] = stack[2] /\ Len(stack') = 1
                                  /\ 2 \in DOMAIN stack
      /\ stack' \in Seq(Task)
  BY <1>2, <1>3, <1>4 DEF Continues
<1>6. Doomed = {} /\ Clearing = {} /\ Doomed' = {} /\ Clearing' = {}
  BY <1>4, <1>5 DEF Doomed, Clearing
<1>7. a # Null /\ a \in alive /\ Anchored(a) /\ a \in MayOwn[p]
  BY <1>1, NullAssumption DEF IInv, StackReady, Anchored, Ready, T
<1>8. m_raw[p] = Null
  BY <1>1 DEF IInv, StackResets, Resets, T
<1>9. TypeOK'
  BY <1>3 DEF IInv, TypeOK
<1>10. /\ s_res_map[a] \in Seq(Ptr)
       /\ s_res_map'[a] = Append(s_res_map[a], p) /\ s_res_map'[a] # << >>
       /\ Len(s_res_map'[a]) = Len(s_res_map[a]) + 1
       /\ \A b \in Addr : b # a => s_res_map'[b] = s_res_map[b]
       /\ m_raw'[p] = a
       /\ \A q \in Ptr : q # p => m_raw'[q] = m_raw[q]
  BY DEF IInv, TypeOK
<1>11. \A b \in Addr, q \in Ptr : Owns(q, b)' <=> Owns(q, b) \/ (q = p /\ b = a)
  BY <1>10 DEF Owns, Contains
<1>12. \A b \in Addr, q \in Ptr : Owns(q, b) <=> m_raw[q] = b
  BY <1>6 DEF IInv, MapAgrees
<1>13. MapAgrees'
  BY <1>6, <1>8, <1>10, <1>11, <1>12, NullAssumption DEF MapAgrees
<1>14. ListedOnce'
  <2>1. ~ Owns(p, a)
    BY <1>7, <1>8, <1>12
  <2>2. \A i \in DOMAIN s_res_map[a] : s_res_map[a][i] # p
    BY <1>10, <2>1 DEF Owns, Contains
  <2>3. \A i, j \in DOMAIN s_res_map[a] : s_res_map[a][i] = s_res_map[a][j] => i = j
    BY DEF IInv, ListedOnce
  <2>4. \A i, j \in DOMAIN s_res_map'[a] : s_res_map'[a][i] = s_res_map'[a][j] => i = j
    BY <1>10, <2>2, <2>3
  <2> QED BY <1>10, <2>4, ListedOnceKept DEF IInv
<1>15. OwnersLive' /\ OwnedIsAlive' /\ DoomedIsUnowned'
  BY <1>6, <1>7, <1>10 DEF IInv, OwnersLive, OwnedIsAlive, DoomedIsUnowned, Lives
<1>16. NothingLeaks' /\ FreshOnce'
  <2>1. \A b \in Addr : s_res_map[b] # << >> => s_res_map'[b] # << >>
    BY <1>10
  <2>2. \A b \in Addr : stack[1].a = b => s_res_map'[b] # << >>
    BY <1>1, <1>10 DEF T
  <2> QED BY <1>1, <1>2, <1>6, <2>1, <2>2, LeaksKept DEF IInv
<1>17. Targeted'
  BY <1>2, <1>3, TargetedKept DEF IInv
<1>18. StackOrder' /\ StackAdjacent'
  BY <1>5 DEF StackOrder, StackAdjacent
<1>19. LastPointer' /\ StackResets' /\ StackNested'
  BY <1>4, <1>5 DEF LastPointer, StackResets, StackNested, Resets
<1>20. StackReady'
  <2> SUFFICES ASSUME NEW e \in Task, e = stack[2], 2 \in DOMAIN stack
               PROVE  Ready(e)' /\ Anchored(a)'
    BY <1>4, <1>5 DEF StackReady, Ready, Anchored
  <2>1. Ready(e)'
    <3>1. Ready(e) /\ e.op = "each_link" /\ e.a = a
      BY <1>4 DEF IInv, StackReady
    <3> QED BY <1>7, <1>10, <3>1 DEF Ready
  <2>2. Owns(p, a)'
    BY <1>11
  <2>3. \A j \in DOMAIN stack' : Stays(p, stack[j])'
    BY <1>4, <1>5 DEF Stays, Frees
  <2> QED BY <1>6, <1>7, <2>1, <2>2, <2>3 DEF Anchored
<1>21. LoopsAgree'
  <2> SUFFICES ASSUME NEW e \in Task, e = stack[2], 2 \in DOMAIN stack,
                      stack'[1] = e, Len(stack') = 1
               PROVE  Turn(e)'
    BY <1>5 DEF LoopsAgree, Turn, Awaits
  <2>1. e.op = "each_link" /\ e.a = a /\ e.key \in Addr /\ e.i \in Nat /\ s_res_map[e.key] \in Seq(Ptr)
    BY <1>4, TaskShape DEF IInv, TypeOK
  <2>2. Turn(e) /\ ~ Awaits(e.key) /\ ~ Awaits(e.key)'
    BY <1>1, <2>1 DEF IInv, LoopsAgree, Awaits, T
  <2>3. CASE e.key = a
    BY <1>6, <1>10, <2>1, <2>2, <2>3, <1>5 DEF Turn
  <2>4. CASE e.key # a
    BY <1>6, <1>10, <2>1, <2>2, <2>4, <1>5 DEF Turn
  <2> QED BY <2>3, <2>4
<1>22. CallsReady'
  <2>1. ASSUME NEW u \in Thread, NEW b \in Addr, call[u] # NoCall, call[u].op \in Linking,
               call[u].a = b, CallAnchored(u, b)
        PROVE  CallAnchored(u, b)'
    <3>1. b = a => s_res_map[b] # << >>
      <4>1. Wants(t, a)
        <5>1. work[t][1].op = "join" /\ work[t][1].a = a /\ 1 \in DOMAIN work[t]
          BY <1>1, Doing DEF T
        <5> QED BY <5>1 DEF Wants
      <4>2. Wants(u, b)
        BY <2>1 DEF Wants
      <4>3. u # t
        BY <1>1, <2>1 DEF IInv, Threads
      <4> QED BY <4>1, <4>2, <4>3 DEF IInv, FreshOnce
    <3>2. s_res_map[b] = << >> => s_res_map'[b] = << >>
      BY <1>10, <3>1
    <3>3. b \in alive' /\ b \notin Doomed'
      BY <1>6, <2>1 DEF CallAnchored
    <3>4. \A h \in AppPtr : Owns(h, b) => Owns(h, b)'
      BY <1>11 DEF Ptr
    <3> QED BY <1>1, <1>3, <2>1, <3>2, <3>3, <3>4, CallAnchoredKept DEF IInv
  <2> QED BY <1>1, <1>3, <2>1, CallsKept DEF IInv
<1> QED BY <1>3, <1>9, <1>13, <1>14, <1>15, <1>16, <1>17, <1>18, <1>19, <1>20, <1>21, <1>22 DEF IInv

\* The rest of link() finds its ptr, and what it is to own.
LEMMA JoinStep ==
    ASSUME IInv, NEW t \in Thread, Join(t)
    PROVE  IInv'
<1> DEFINE T == Head(work[t])
<1>1. Does(t, "join")
  BY DEF Join
<1>2. T \in Task /\ T.op = "join" /\ Ready(T)
  BY <1>1, Doing
<1>3. T.p \in Ptr /\ T.a \in Addr \cup {Null} /\ Lives(T.p)
  BY <1>2, TaskShape DEF Ready
<1>4. CASE T.a = Null
  BY <1>1, <1>4, JoinNullStep DEF Join
<1>5. CASE T.a # Null
  <2>1. PICK p \in Ptr, a \in Addr : T.p = p /\ T.a = a
    BY <1>3, <1>5
  <2>2. /\ Continue(t, << >>) /\ alive' = alive
        /\ s_res_map' = [s_res_map EXCEPT ![a] = Append(@, p)]
        /\ m_raw' = [m_raw EXCEPT ![p] = a]
    BY <1>3, <1>5, <2>1 DEF Join, Joined
  <2> QED BY <1>1, <1>3, <2>1, <2>2, JoinGroupStep
<1> QED BY <1>4, <1>5

-----------------------------------------------------------------------------
(* unlink() *)

\* A ptr that owns nothing leaves no group.
LEMMA UnlinkNullStep ==
    ASSUME IInv, NEW t \in Thread, Does(t, "unlink"), m_raw[Head(work[t]).p] = Null,
           Continue(t, << >>), UNCHANGED heap
    PROVE  IInv'
<1> DEFINE T == stack[1]
           new == << >>
<1>1. /\ holder = t /\ holder \in Thread /\ work[t] # << >>
      /\ stack \in Seq(Task) /\ stack # << >> /\ 1 \in DOMAIN stack
      /\ T = Head(work[t]) /\ T.op = "unlink" /\ m_raw[T.p] = Null
  BY Doing
<1>2. new \in Seq(Task) /\ DOMAIN new = {} /\ Len(new) = 0 /\ new = << >> /\ Continue(t, new)
  OBVIOUS
<1> HIDE DEF T, new
<1>3. Continues(new)
  BY <1>1, <1>2, Continued DEF IInv
<1>4. s_res_map' = s_res_map /\ m_raw' = m_raw /\ alive' = alive
  BY DEF heap
<1>5. Doomed' = Doomed
  BY <1>1, <1>2, <1>3, BelowKept DEF T
<1>6. ASSUME NEW b \in Addr, Anchored(b) PROVE Anchored(b)'
  <2>1. b \in alive' /\ b \notin Doomed'
    BY <1>4, <1>5, <1>6 DEF Anchored
  <2> QED BY <1>2, <1>3, <1>4, <1>6, <2>1, AnchoredKept DEF Owns
<1>7. LoopsAgree'
  <2>1. CASE Doomed # {}
    BY <1>2, <1>3, <1>4, <1>5, <2>1, LoopStaysDoomed DEF IInv
  <2>2. CASE Doomed = {}
    <3> SUFFICES ASSUME NEW j \in DOMAIN stack, NEW e \in Task, e = stack[j], e.op \in Looping
                 PROVE  FALSE
      BY <1>2, <1>3 DEF LoopsAgree, Continues
    <3>1. e.key \in Addr /\ Owns(T.p, e.key)
      BY <1>1, <2>2, TaskShape DEF IInv, LoopsAgree, Turn, T
    <3>2. T.p \in Ptr
      BY <1>1, TaskShape DEF T
    <3> QED BY <1>1, <3>1, <3>2, NullAssumption DEF IInv, MapAgrees
  <2> QED BY <2>1, <2>2
<1>8. stack[1].op = "unlink" /\ \A q \in Ptr : stack[1].p = q => m_raw[q] = Null
  BY <1>1 DEF T
<1> QED BY <1>1, <1>2, <1>6, <1>7, <1>8, StackStep

\* The ptr that leaves a group is in it.
LEMMA Leaver ==
    ASSUME IInv, stack \in Seq(Task), 1 \in DOMAIN stack, stack[1].op = "unlink",
           NEW p \in Ptr, NEW a \in Addr, stack[1].p = p, m_raw[p] = a
    PROVE  /\ p \notin Clearing /\ Owns(p, a)
           /\ s_res_map[a] \in Seq(Ptr) /\ s_res_map[a] # << >> /\ a \in alive /\ a \notin Doomed
           /\ a \in MayOwn[p] /\ a # Null /\ Lives(p)
           /\ \A b \in Addr : Owns(p, b) => b = a
<1>1. p \notin Clearing
  <2> SUFFICES ASSUME NEW k \in DOMAIN stack, stack[k].op = "clear", stack[k].p = p
               PROVE  FALSE
    BY DEF Clearing
  <2>1. k # 1 /\ Before(stack[1], stack[k])
    BY DEF IInv, StackOrder
  <2> QED BY <2>1 DEF Before
<1>2. Owns(p, a)
  BY <1>1 DEF IInv, MapAgrees
<1>3. s_res_map[a] \in Seq(Ptr) /\ s_res_map[a] # << >>
  BY <1>2 DEF IInv, TypeOK, Owns, Contains
<1>4. a \in alive /\ a \notin Doomed
  BY <1>3 DEF IInv, OwnedIsAlive, DoomedIsUnowned
<1>5. a # Null /\ a \in MayOwn[p] /\ Lives(p)
  BY NullAssumption DEF IInv, OwnersLive
<1>6. \A b \in Addr : Owns(p, b) => b = a
  BY DEF IInv, MapAgrees
<1> QED BY <1>1, <1>2, <1>3, <1>4, <1>5, <1>6

\* The map after the ptr has left.
LEMMA LeftMap ==
    ASSUME IInv, NEW p \in Ptr, NEW a \in Addr, m_raw[p] = a, m_raw' = m_raw, alive' = alive,
           \A b \in Addr : b # a => s_res_map'[b] = s_res_map[b],
           \A q \in Ptr : Owns(q, a)' <=> Owns(q, a) /\ q # p,
           \A i, j \in DOMAIN s_res_map'[a] : s_res_map'[a][i] = s_res_map'[a][j] => i = j,
           Clearing' = Clearing \cup {p}, a \in alive
    PROVE  MapAgrees' /\ ListedOnce' /\ OwnersLive' /\ OwnedIsAlive'
<1>1. MapAgrees'
  <2> SUFFICES ASSUME NEW b \in Addr, NEW q \in Ptr
               PROVE  Owns(q, b)' <=> m_raw[q] = b /\ q \notin Clearing /\ q # p
    BY DEF MapAgrees
  <2>1. CASE b = a
    BY <2>1 DEF IInv, MapAgrees
  <2>2. CASE b # a
    <3>1. Owns(q, b)' <=> Owns(q, b)
      BY <2>2 DEF Owns
    <3> QED BY <2>2, <3>1 DEF IInv, MapAgrees
  <2> QED BY <2>1, <2>2
<1>2. ListedOnce'
  BY ListedOnceKept DEF IInv
<1>3. OwnersLive' /\ OwnedIsAlive'
  BY DEF IInv, OwnersLive, OwnedIsAlive, Lives
<1> QED BY <1>1, <1>2, <1>3

\* One of several owners leaves, the others stay.
LEMMA UnlinkLeaveStep ==
    ASSUME IInv, NEW t \in Thread, Does(t, "unlink"), NEW p \in Ptr, NEW a \in Addr,
           Head(work[t]).p = p, m_raw[p] = a, Len(s_res_map[a]) # 1,
           NEW C, C = [op |-> "clear", p |-> p], Continue(t, <<C>>),
           s_res_map' = [s_res_map EXCEPT ![a] = RemoveFirst(s_res_map[a], p)],
           m_raw' = m_raw, alive' = alive
    PROVE  IInv'
<1> DEFINE T == stack[1]
           new == <<C>>
           r == RemoveFirst(s_res_map[a], p)
<1>1. /\ holder = t /\ holder \in Thread /\ work[t] # << >>
      /\ stack \in Seq(Task) /\ stack # << >> /\ 1 \in DOMAIN stack
      /\ T = Head(work[t]) /\ T \in Task /\ T.op = "unlink" /\ T.p = p /\ Ready(T)
      /\ \A k \in DOMAIN stack : stack[k] \in Task
      /\ \A k \in DOMAIN stack : k # 1 => Before(T, stack[k])
      /\ 2 \in DOMAIN stack => Adjacent(T, stack[2])
  BY Doing
<1>2. C \in Task /\ new \in Seq(Task)
  <2>1. C \in Task
    BY TaskMade
  <2> QED BY <2>1
<1>3. C.op = "clear" /\ C.p = p /\ DOMAIN new = {1} /\ Len(new) = 1 /\ new[1] = C /\ Continue(t, new)
  OBVIOUS
<1>4. /\ p \notin Clearing /\ Owns(p, a)
      /\ s_res_map[a] \in Seq(Ptr) /\ s_res_map[a] # << >> /\ a \in alive /\ a \notin Doomed
      /\ a \in MayOwn[p] /\ a # Null /\ Lives(p)
      /\ \A b \in Addr : Owns(p, b) => b = a
  BY <1>1, Leaver
<1>5. /\ r \in Seq(Ptr) /\ Len(r) = Len(s_res_map[a]) - 1
      /\ \A q \in Ptr : Contains(r, q) <=> Owns(q, a) /\ q # p
      /\ \A i, j \in DOMAIN r : r[i] = r[j] => i = j
  <2>1. Contains(s_res_map[a], p)
    BY <1>4 DEF Owns
  <2>2. \A i, j \in DOMAIN s_res_map[a] : s_res_map[a][i] = s_res_map[a][j] => i = j
    BY DEF IInv, ListedOnce
  <2> QED BY <1>4, <2>1, <2>2, Removed DEF Owns
<1> HIDE DEF T, new, r
<1>6. /\ s_res_map'[a] = r
      /\ \A b \in Addr : b # a => s_res_map'[b] = s_res_map[b]
      /\ s_res_map' \in [Addr -> Seq(Ptr)]
  BY <1>5 DEF IInv, TypeOK, r
<1>7. r # << >> /\ Len(s_res_map[a]) >= 2
  BY <1>4, <1>5
<1>8. /\ Continues(new) /\ holder' = holder /\ call' = call /\ broken' = broken
      /\ work' \in [Thread -> Seq(Task)] /\ Threads'
  BY <1>1, <1>2, <1>3, Continued DEF IInv
<1>9. Doomed' = Doomed /\ Clearing' = Clearing \cup {p}
  <2>1. stack[1].op = "unlink" /\ new[1] = C /\ C.op = "clear" /\ C.p = p /\ DOMAIN new = {1}
    BY <1>1, <1>3 DEF T
  <2>2. /\ \A b : b \in Doomed' <=>
              b \in Doomed \/ \E i \in DOMAIN new : new[i].op \in Deleting /\ new[i].a = b
        /\ \A q : q \in Clearing' <=>
              q \in Clearing \/ \E i \in DOMAIN new : new[i].op = "clear" /\ new[i].p = q
    BY <1>2, <1>8, <2>1, BelowGrown
  <2>3. \A b : b \in Doomed' <=> b \in Doomed
    BY <2>1, <2>2
  <2>4. \A q : q \in Clearing' <=> q \in Clearing \cup {p}
    BY <2>1, <2>2
  <2>5. Doomed' = Doomed
    BY <2>3, Zenon
  <2>6. Clearing' = Clearing \cup {p}
    BY <2>4, Zenon
  <2> QED BY <2>5, <2>6
<1>10. TypeOK'
  BY <1>6, <1>8 DEF IInv, TypeOK
<1>11. Targeted'
  BY <1>1, <1>2, <1>3, <1>8, Target, TargetedKept DEF IInv, T
<1>12. \A b \in Addr, q \in Ptr : Owns(q, b)' <=> Owns(q, b) /\ q # p
  BY <1>4, <1>5, <1>6 DEF Owns
<1>13. MapAgrees' /\ ListedOnce' /\ OwnersLive' /\ OwnedIsAlive'
  BY <1>4, <1>5, <1>6, <1>9, <1>12, LeftMap
<1>14. DoomedIsUnowned'
  BY <1>4, <1>6, <1>9 DEF IInv, DoomedIsUnowned
<1>15. NothingLeaks' /\ FreshOnce'
  <2>1. \A b \in Addr : s_res_map[b] # << >> => s_res_map'[b] # << >>
    BY <1>6, <1>7
  <2>2. stack[1].op = "unlink" /\ \A i \in DOMAIN new : new[i].op = "clear"
    BY <1>1, <1>3 DEF T
  <2> QED BY <1>1, <1>2, <1>3, <1>9, <2>1, <2>2, LeaksKept DEF IInv
<1>16. StackOrder'
  <2>1. ASSUME NEW k \in DOMAIN stack, k # 1 PROVE Before(C, stack[k])
    <3>1. Before(T, stack[k])
      BY <1>1, <2>1
    <3> QED BY <1>1, <1>3, <3>1 DEF Before, Frees
  <2> QED BY <1>2, <1>3, <1>8, <2>1, OrderKept DEF IInv
<1>17. StackAdjacent'
  <2>1. 2 \in DOMAIN stack => Adjacent(C, stack[2])
    BY <1>1, <1>3 DEF Adjacent
  <2> QED BY <1>2, <1>3, <1>8, <2>1, AdjacentKept DEF IInv
<1>18. LastPointer'
  BY <1>2, <1>3, <1>8, LastPointerKept DEF IInv
<1>19. StackResets'
  BY <1>1, <1>2, <1>3, <1>8, ResetsKept DEF IInv, Resets, T
<1>20. StackNested'
  BY <1>2, <1>3, <1>8, NestedKept DEF IInv
<1>21. ASSUME NEW b \in Addr, Anchored(b) PROVE Anchored(b)'
  <2>1. ASSUME NEW h \in Ptr, Owns(h, b), \A j \in DOMAIN stack : Stays(h, stack[j])
        PROVE  Owns(h, b)' /\ \A i \in DOMAIN new : Stays(h, new[i])
    <3>1. Stays(h, T)
      BY <1>1, <2>1 DEF T
    <3>2. h # p
      BY <1>1, <3>1 DEF Stays
    <3> QED BY <1>1, <1>3, <1>12, <2>1, <3>1, <3>2 DEF Stays, Frees
  <2>2. b \in alive' /\ b \notin Doomed'
    BY <1>9, <1>21 DEF Anchored
  <2>3. s_res_map[b] = << >> => s_res_map'[b] = << >>
    BY <1>4, <1>6
  <2> QED BY <1>2, <1>8, <1>21, <2>1, <2>2, <2>3, AnchoredKept
<1>22. StackReady'
  <2>1. \A q \in Ptr : Lives(q) => Lives(q)'
    BY DEF Lives
  <2>2. \A q \in Ptr :
            (\E k \in DOMAIN stack : k # 1 /\ stack[k].op \in OnPtr /\ stack[k].p = q) => Lives(q)'
    BY <2>1 DEF IInv, StackReady, Ready
  <2>3. Ready(C)
    BY <1>3, <1>4 DEF Ready
  <2>4. Lives(C.p)'
    BY <1>3, <1>4, <2>1
  <2> QED BY <1>2, <1>3, <1>8, <1>21, <2>2, <2>3, <2>4, ReadyKept DEF IInv
<1>23. LoopsAgree'
  <2>1. CASE Doomed # {}
    <3>1. \A b \in Addr : s_res_map[b] = << >> => s_res_map'[b] = << >>
      BY <1>4, <1>6
    <3>2. \A i \in DOMAIN new : new[i].op \notin Looping
      BY <1>3
    <3> QED BY <1>2, <1>8, <1>9, <2>1, <3>1, <3>2, LoopStaysDoomed DEF IInv
  <2>2. CASE Doomed = {}
    <3> SUFFICES ASSUME NEW j \in DOMAIN stack', NEW e \in Task, e = stack'[j], e.op \in Looping
                 PROVE  Turn(e)'
      BY <1>8 DEF LoopsAgree, Turn, Awaits, Continues
    <3>1. /\ stack' \in Seq(Task) /\ stack'[1] = C /\ j \in DOMAIN stack /\ e = stack[j] /\ j # 1
          /\ Len(stack') = Len(stack)
          /\ \A k \in DOMAIN stack' : k # 1 => k \in DOMAIN stack /\ stack'[k] = stack[k]
      BY <1>3, <1>8 DEF Continues
    <3>2. Turn(e) /\ e.key \in Addr /\ e.i \in Nat
      BY <3>1, TaskShape DEF IInv, LoopsAgree
    <3>3. e.key = a /\ Awaits(a)
      BY <1>1, <1>4, <2>2, <3>2 DEF Turn, Awaits, T
    <3>4. ~ Awaits(e.key)' /\ Len(stack') > 1
      BY <1>3, <3>1 DEF Awaits
    <3>5. \A k \in DOMAIN stack' :
              k # 1 => ~ (stack'[k].op \in {"link", "unlink"} /\ Contains(r, stack'[k].p))
      <4> SUFFICES ASSUME NEW k \in DOMAIN stack, k # 1, stack[k].op \in {"link", "unlink"},
                          Contains(r, stack[k].p)
                   PROVE  FALSE
        BY <3>1
      <4>1. stack[k].p \in Ptr
        BY <1>1, TaskShape
      <4> QED BY <1>5, <3>2, <3>3, <4>1 DEF Turn
    <3>6. IF e.op = "each_link" /\ e.a = e.key
          THEN e.i + 1 <= Len(s_res_map[a]) ELSE e.i + 1 = Len(s_res_map[a])
      BY <3>2, <3>3 DEF Turn
    <3>7. /\ s_res_map'[e.key] = r /\ Len(r) \in Nat /\ Len(r) >= 1
          /\ IF e.op = "each_link" /\ e.a = e.key THEN e.i <= Len(r) ELSE e.i = Len(r)
      <4> HIDE DEF r
      <4>1. Len(s_res_map[a]) \in Nat
        BY <1>4
      <4> QED BY <1>5, <1>6, <1>7, <3>2, <3>3, <3>6, <4>1
    <3>8. Doomed' = {}
      BY <1>9, <2>2
    <3>9. stack'[1].op = "clear" /\ Len(stack') # 1
      BY <1>3, <3>1, <3>4
    <3> QED BY <3>4, <3>5, <3>7, <3>8, <3>9 DEF Turn, Owns
  <2> QED BY <2>1, <2>2
<1>24. CallsReady'
  <2>1. ASSUME NEW u \in Thread, NEW b \in Addr, call[u] # NoCall, CallAnchored(u, b)
        PROVE  CallAnchored(u, b)'
    <3>1. s_res_map[b] = << >> => s_res_map'[b] = << >>
      BY <1>4, <1>6
    <3>2. b \in alive' /\ b \notin Doomed'
      BY <1>9, <2>1 DEF CallAnchored
    <3>3. ASSUME NEW h \in AppPtr, Owns(h, b),
                 \A j \in DOMAIN stack : stack[j].op \in OnPtr => stack[j].p # h
          PROVE  Owns(h, b)'
      BY <1>1, <1>12, <3>3 DEF Ptr, T
    <3> QED BY <1>1, <1>8, <2>1, <3>1, <3>2, <3>3, CallAnchoredKept DEF IInv
  <2> QED BY <1>1, <1>8, <2>1, CallsKept DEF IInv
<1> QED BY <1>8, <1>10, <1>11, <1>13, <1>14, <1>15, <1>16, <1>17, <1>18, <1>19, <1>20, <1>22,
           <1>23, <1>24 DEF IInv

\* The last owner leaves, and dooms what it owned.
LEMMA UnlinkLastStep ==
    ASSUME IInv, NEW t \in Thread, Does(t, "unlink"), NEW p \in Ptr, NEW a \in Addr,
           Head(work[t]).p = p, m_raw[p] = a, Len(s_res_map[a]) = 1,
           NEW D, D = [op |-> "delete", a |-> a],
           NEW C, C = [op |-> "clear", p |-> p], Continue(t, <<D, C>>),
           s_res_map' = [s_res_map EXCEPT ![a] = << >>],
           m_raw' = m_raw, alive' = alive
    PROVE  IInv'
<1> DEFINE T == stack[1]
           new == <<D, C>>
<1>1. /\ holder = t /\ holder \in Thread /\ work[t] # << >>
      /\ stack \in Seq(Task) /\ stack # << >> /\ 1 \in DOMAIN stack
      /\ T = Head(work[t]) /\ T \in Task /\ T.op = "unlink" /\ T.p = p /\ Ready(T)
      /\ \A k \in DOMAIN stack : stack[k] \in Task
      /\ \A k \in DOMAIN stack : k # 1 => Before(T, stack[k])
      /\ 2 \in DOMAIN stack => Adjacent(T, stack[2])
  BY Doing
<1>2. C \in Task /\ D \in Task /\ new \in Seq(Task)
  <2>1. C \in Task
    BY TaskMade
  <2>2. D \in Task
    BY TaskMadeFor
  <2> QED BY <2>1, <2>2
<1>3. /\ C.op = "clear" /\ C.p = p /\ D.op = "delete" /\ D.a = a
      /\ DOMAIN new = {1, 2} /\ Len(new) = 2 /\ new[1] = D /\ new[2] = C /\ Continue(t, new)
  OBVIOUS
<1>4. /\ p \notin Clearing /\ Owns(p, a)
      /\ s_res_map[a] \in Seq(Ptr) /\ s_res_map[a] # << >> /\ a \in alive /\ a \notin Doomed
      /\ a \in MayOwn[p] /\ a # Null /\ Lives(p)
      /\ \A b \in Addr : Owns(p, b) => b = a
  BY <1>1, Leaver
<1>5. \A q : Owns(q, a) => q = p
  BY <1>4 DEF Owns, Contains
<1> HIDE DEF T, new
<1>6. /\ s_res_map'[a] = << >>
      /\ \A b \in Addr : b # a => s_res_map'[b] = s_res_map[b]
      /\ s_res_map' \in [Addr -> Seq(Ptr)]
  BY DEF IInv, TypeOK
<1>7. \A u \in Thread : ~ Wants(u, a)
  BY <1>1, <1>4, <1>5, NotWanted DEF T
<1>8. /\ Continues(new) /\ holder' = holder /\ call' = call /\ broken' = broken
      /\ work' \in [Thread -> Seq(Task)] /\ Threads'
  BY <1>1, <1>2, <1>3, Continued DEF IInv
<1>9. Doomed' = Doomed \cup {a} /\ Clearing' = Clearing \cup {p}
  <2>1. stack[1].op = "unlink"
    BY <1>1 DEF T
  <2>2. /\ \A b : b \in Doomed' <=>
              b \in Doomed \/ \E i \in DOMAIN new : new[i].op \in Deleting /\ new[i].a = b
        /\ \A q : q \in Clearing' <=>
              q \in Clearing \/ \E i \in DOMAIN new : new[i].op = "clear" /\ new[i].p = q
    BY <1>2, <1>8, <2>1, BelowGrown
  <2>3. \A b : b \in Doomed' <=> b \in Doomed \cup {a}
    BY <1>3, <2>2
  <2>4. \A q : q \in Clearing' <=> q \in Clearing \cup {p}
    BY <1>3, <2>2
  <2>5. Doomed' = Doomed \cup {a}
    BY <2>3, Zenon
  <2>6. Clearing' = Clearing \cup {p}
    BY <2>4, Zenon
  <2> QED BY <2>5, <2>6
<1>10. TypeOK'
  BY <1>6, <1>8 DEF IInv, TypeOK
<1>11. Targeted'
  BY <1>1, <1>2, <1>3, <1>8, Target, TargetedKept DEF IInv, T
<1>12. /\ \A q : ~ Owns(q, a)'
       /\ \A b \in Addr : b # a => \A q : Owns(q, b)' <=> Owns(q, b)
  BY <1>6 DEF Owns, Contains
<1>13. MapAgrees' /\ ListedOnce' /\ OwnersLive' /\ OwnedIsAlive'
  <2>1. \A q \in Ptr : Owns(q, a)' <=> Owns(q, a) /\ q # p
    BY <1>5, <1>12
  <2>2. \A i, j \in DOMAIN s_res_map'[a] : s_res_map'[a][i] = s_res_map'[a][j] => i = j
    BY <1>6
  <2> QED BY <1>4, <1>6, <1>9, <2>1, <2>2, LeftMap
<1>14. DoomedIsUnowned'
  BY <1>4, <1>6, <1>9 DEF IInv, DoomedIsUnowned, Doomed
<1>15. NothingLeaks' /\ FreshOnce'
  <2>1. \A b \in Addr : s_res_map[b] # << >> =>
            s_res_map'[b] # << >> \/ (b \notin alive' \ Doomed' /\ \A u \in Thread : ~ Wants(u, b))
    BY <1>6, <1>7, <1>9
  <2>2. stack[1].op = "unlink" /\ \A i \in DOMAIN new : new[i].op \notin Linking
    BY <1>1, <1>3 DEF T
  <2>3. alive' \ Doomed' \subseteq alive \ Doomed
    BY <1>9
  <2> QED BY <1>1, <1>2, <1>3, <2>1, <2>2, <2>3, LeaksKept DEF IInv
<1>16. StackOrder'
  <2>1. ASSUME NEW k \in DOMAIN stack, k # 1 PROVE Before(D, stack[k]) /\ Before(C, stack[k])
    <3>1. Before(T, stack[k])
      BY <1>1, <2>1
    <3> QED BY <1>1, <1>3, <3>1 DEF Before, Frees
  <2>2. Before(D, C)
    BY <1>3, <1>4, AboveOwn DEF Before, Frees
  <2>3. \A i, j \in DOMAIN new : i < j => Before(new[i], new[j])
    BY <1>3, <2>2
  <2> QED BY <1>2, <1>3, <1>8, <2>1, <2>3, OrderKept DEF IInv
<1>17. StackAdjacent'
  <2>1. 2 \in DOMAIN stack => Adjacent(C, stack[2])
    BY <1>1, <1>3 DEF Adjacent
  <2>2. Adjacent(D, C)
    BY <1>3 DEF Adjacent
  <2>3. \A i \in DOMAIN new : i + 1 \in DOMAIN new => Adjacent(new[i], new[i + 1])
    BY <1>3, <2>2
  <2>4. new[Len(new)] = C
    BY <1>3
  <2> QED BY <1>2, <1>8, <2>1, <2>3, <2>4, AdjacentKept DEF IInv
<1>18. LastPointer'
  <2>1. ASSUME NEW q \in Ptr, m_raw[q] = a, q # p PROVE FALSE
    <3>1. q \in Clearing
      BY <1>5, <2>1 DEF IInv, MapAgrees
    <3>2. PICK k \in DOMAIN stack : stack[k].op = "clear" /\ stack[k].p = q
      BY <3>1 DEF Clearing
    <3>3. k # 1
      BY <1>1, <3>2 DEF T
    <3>4. k - 1 \in DOMAIN stack /\ (k - 1) + 1 = k
      BY <1>1, <3>3
    <3>5. Adjacent(stack[k - 1], stack[k])
      BY <3>4 DEF IInv, StackAdjacent
    <3>6. stack[k - 1].op \in Deleting /\ stack[k - 1].a = a
      BY <2>1, <3>2, <3>5 DEF Adjacent
    <3>7. a \in Doomed
      BY <3>4, <3>6 DEF Doomed
    <3> QED BY <1>4, <3>7
  <2>2. \A i \in DOMAIN new : new[i].op \in Deleting =>
            i + 1 \in DOMAIN new /\ \A q \in Ptr : m_raw[q] = new[i].a => new[i + 1].p = q
    BY <1>3, <2>1
  <2> QED BY <1>2, <1>8, <2>2, LastPointerKept DEF IInv
<1>19. StackResets'
  <2>1. \A i \in DOMAIN new, q \in Ptr : ~ Resets(new[i], q)
    BY <1>3 DEF Resets
  <2>2. \A q \in Ptr : stack[1].p = q => \E i \in DOMAIN new : new[i].op = "clear" /\ new[i].p = q
    BY <1>1, <1>3 DEF T
  <2> QED BY <1>2, <1>8, <2>1, <2>2, ResetsKept DEF IInv
<1>20. StackNested'
  BY <1>2, <1>3, <1>8, NestedKept DEF IInv
<1>21. ASSUME NEW b \in Addr, Anchored(b), b # a PROVE Anchored(b)'
  <2>1. ASSUME NEW h \in Ptr, Owns(h, b), \A j \in DOMAIN stack : Stays(h, stack[j])
        PROVE  Owns(h, b)' /\ \A i \in DOMAIN new : Stays(h, new[i])
    <3>1. Stays(h, T)
      BY <1>1, <2>1 DEF T
    <3>2. Stays(h, D) /\ Stays(h, C)
      BY <1>1, <1>3, <3>1 DEF Stays, Frees
    <3> QED BY <1>3, <1>12, <1>21, <2>1, <3>2
  <2>2. b \in alive' /\ b \notin Doomed'
    BY <1>9, <1>21 DEF Anchored
  <2>3. s_res_map[b] = << >> => s_res_map'[b] = << >>
    BY <1>6
  <2> QED BY <1>2, <1>8, <1>21, <2>1, <2>2, <2>3, AnchoredKept
<1>22. StackReady'
  <2>1. \A q \in Ptr : Lives(q) => Lives(q)'
    BY DEF Lives
  <2>2. \A q \in Ptr :
            (\E k \in DOMAIN stack : k # 1 /\ stack[k].op \in OnPtr /\ stack[k].p = q) => Lives(q)'
    BY <2>1 DEF IInv, StackReady, Ready
  <2>3. Ready(C) /\ Ready(D)
    BY <1>3, <1>4 DEF Ready
  <2>4. Lives(p)'
    BY <1>4, <2>1
  <2>5. ASSUME NEW b \in Addr, \E k \in DOMAIN stack : stack[k].op \in Linking /\ stack[k].a = b,
               Anchored(b)
        PROVE  Anchored(b)'
    <3>1. Wants(t, b)
      BY <1>1, <1>2, <1>3, <2>5, Wanted DEF IInv
    <3>2. b # a
      BY <1>7, <3>1
    <3> QED BY <1>21, <2>5, <3>2
  <2>6. \A i \in DOMAIN new :
            /\ Ready(new[i]) /\ new[i].op \in {"delete", "clear"}
            /\ new[i].op \in OnPtr => new[i].p = p
    BY <1>3, <2>3
  <2> QED BY <1>2, <1>8, <2>2, <2>4, <2>5, <2>6, ReadyKept DEF IInv
<1>23. LoopsAgree'
  <2>1. CASE Doomed # {}
    <3>1. \A b \in Addr : s_res_map[b] = << >> => s_res_map'[b] = << >>
      BY <1>4, <1>6
    <3>2. (\A i \in DOMAIN new : new[i].op \notin Looping) /\ Doomed' # {}
      BY <1>3, <1>9
    <3> QED BY <1>2, <1>8, <2>1, <3>1, <3>2, LoopStaysDoomed DEF IInv
  <2>2. CASE Doomed = {}
    <3> SUFFICES ASSUME NEW j \in DOMAIN stack', NEW e \in Task, e = stack'[j], e.op \in Looping
                 PROVE  Turn(e)'
      BY <1>8 DEF LoopsAgree, Turn, Awaits, Continues
    <3>1. /\ stack' \in Seq(Task) /\ stack'[1] = D /\ Len(stack') > 1
          /\ \E k \in DOMAIN stack : e = stack[k]
      BY <1>3, <1>8 DEF Continues
    <3>2. Turn(e) /\ e.key \in Addr /\ e.i \in Nat
      BY <3>1, TaskShape DEF IInv, LoopsAgree
    <3>3. e.key = a /\ Awaits(a)
      BY <1>1, <1>4, <2>2, <3>2 DEF Turn, Awaits, T
    <3>4. ~ (e.op = "each_link" /\ e.a = e.key)
      <4>1. ASSUME e.op = "each_link", e.a = a PROVE Wants(t, a)
        BY <1>1, <1>2, <1>3, <3>1, <4>1, Wanted DEF IInv
      <4> QED BY <1>7, <3>3, <4>1
    <3>5. e.i + 1 = 1
      BY <3>2, <3>3, <3>4 DEF Turn
    <3>6. e.i = 0
      BY <3>2, <3>5
    <3>7. stack'[1].op = "delete" /\ Len(stack') # 1 /\ ~ Awaits(e.key)'
      BY <1>3, <3>1 DEF Awaits
    <3>8. s_res_map'[e.key] = << >> /\ \A q : ~ Contains(s_res_map'[e.key], q)
      BY <1>6, <3>3 DEF Contains
    <3> QED BY <3>4, <3>6, <3>7, <3>8 DEF Turn, Owns
  <2> QED BY <2>1, <2>2
<1>24. CallsReady'
  <2>1. ASSUME NEW u \in Thread, NEW b \in Addr, call[u] # NoCall, CallAnchored(u, b),
               call[u].op \in Linking, call[u].a = b
        PROVE  CallAnchored(u, b)'
    <3>1. s_res_map[b] = << >> => s_res_map'[b] = << >>
      BY <1>4, <1>6
    <3>2. b # a
      BY <1>7, <2>1 DEF Wants
    <3>3. b \in alive' /\ b \notin Doomed'
      BY <1>9, <2>1, <3>2 DEF CallAnchored
    <3>4. ASSUME NEW h \in AppPtr, Owns(h, b)
          PROVE  Owns(h, b)'
      BY <1>12, <3>2, <3>4
    <3> QED BY <1>1, <1>8, <2>1, <3>1, <3>3, <3>4, CallAnchoredKept DEF IInv
  <2> QED BY <1>1, <1>8, <2>1, CallsKept DEF IInv
<1> QED BY <1>8, <1>10, <1>11, <1>13, <1>14, <1>15, <1>16, <1>17, <1>18, <1>19, <1>20, <1>22,
           <1>23, <1>24 DEF IInv

\* unlink() finds its ptr in the group, as the last of it or not.
LEMMA UnlinkStep ==
    ASSUME IInv, NEW t \in Thread, Unlink(t)
    PROVE  IInv'
<1>1. Does(t, "unlink") /\ Head(work[t]) \in Task
  BY Doing DEF Unlink
<1>2. PICK p \in Ptr : Head(work[t]).p = p
  BY <1>1, TaskShape DEF Does
<1>3. CASE m_raw[p] = Null
  BY <1>1, <1>2, <1>3, UnlinkNullStep DEF Unlink
<1>4. CASE m_raw[p] # Null
  <2>1. PICK a \in Addr : m_raw[p] = a
    BY <1>4 DEF IInv, TypeOK
  <2>2. s_res_map[a] # << >> /\ Contains(s_res_map[a], p) /\ s_res_map[a] \in Seq(Ptr)
    BY <1>1, <1>2, <2>1, Doing, Leaver DEF Owns
  <2>3. CASE Len(s_res_map[a]) = 1
    <3>1. /\ Continue(t, <<[op |-> "delete", a |-> a], [op |-> "clear", p |-> p]>>)
          /\ s_res_map' = [s_res_map EXCEPT ![a] = << >>]
          /\ m_raw' = m_raw /\ alive' = alive
      BY <1>2, <1>4, <2>1, <2>2, <2>3 DEF Unlink, LastOwner
    <3> QED BY <1>1, <1>2, <2>1, <2>3, <3>1, UnlinkLastStep
  <2>4. CASE Len(s_res_map[a]) # 1
    <3>1. /\ Continue(t, <<[op |-> "clear", p |-> p]>>)
          /\ s_res_map' = [s_res_map EXCEPT ![a] = RemoveFirst(s_res_map[a], p)]
          /\ m_raw' = m_raw /\ alive' = alive
      BY <1>2, <1>4, <2>1, <2>2, <2>4 DEF Unlink, LastOwner
    <3> QED BY <1>1, <1>2, <2>1, <2>4, <3>1, UnlinkLeaveStep
  <2> QED BY <2>3, <2>4
<1> QED BY <1>3, <1>4

-----------------------------------------------------------------------------
(* delete_resource() *)

\* The destructors of the members of an object, and its memory after them.
LEMMA Destructors ==
    ASSUME NEW a \in Addr
    PROVE  LET members == Reverse(Members[a])
               unlinks == [i \in DOMAIN members |-> [op |-> "unlink", p |-> members[i]]]
               new == unlinks \o <<[op |-> "free", a |-> a]>>
               n == Len(Members[a])
           IN  /\ new \in Seq(Task) /\ n \in Nat /\ Len(new) = n + 1
               /\ new[n + 1].op = "free" /\ new[n + 1].a = a
               /\ \A i \in 1 .. n : /\ new[i].op = "unlink" /\ new[i].p \in Ptr
                                    /\ Contains(Members[a], new[i].p)
               /\ \A i, j \in 1 .. n : new[i].p = new[j].p => i = j
               /\ \A p \in Ptr : Contains(Members[a], p) => \E i \in 1 .. n : new[i].p = p
<1> DEFINE members == Reverse(Members[a])
           unlinks == [i \in DOMAIN members |-> [op |-> "unlink", p |-> members[i]]]
           F == [op |-> "free", a |-> a]
           new == unlinks \o <<F>>
           n == Len(Members[a])
<1>1. /\ Members[a] \in Seq(Ptr) /\ n \in Nat /\ DOMAIN Members[a] = 1 .. n
      /\ \A i, j \in 1 .. n : Members[a][i] = Members[a][j] => i = j
  BY LayoutAssumption DEF Ptr
<1>2. /\ members \in Seq(Ptr) /\ Len(members) = n /\ DOMAIN members = 1 .. n
      /\ \A i \in 1 .. n : members[i] = Members[a][(n - i) + 1]
  BY <1>1 DEF Reverse
<1> HIDE DEF members, n
<1>3. /\ unlinks \in Seq(Task) /\ Len(unlinks) = n
      /\ \A i \in 1 .. n : unlinks[i].op = "unlink" /\ unlinks[i].p = members[i]
  <2>1. ASSUME NEW i \in 1 .. n PROVE [op |-> "unlink", p |-> members[i]] \in Task
    <3>1. members[i] \in Ptr
      BY <1>2
    <3> QED BY <3>1, TaskMade
  <2> QED BY <1>1, <1>2, <2>1
<1>4. F \in Task /\ F.op = "free" /\ F.a = a
  BY TaskMadeFor
<1> HIDE DEF unlinks, F
<1>5. /\ new \in Seq(Task) /\ Len(new) = n + 1 /\ new[n + 1] = F
      /\ \A i \in 1 .. n : new[i] = unlinks[i]
  BY <1>1, <1>3, <1>4
<1> HIDE DEF new
<1>6. ASSUME NEW i \in 1 .. n
      PROVE  new[i].op = "unlink" /\ new[i].p \in Ptr /\ Contains(Members[a], new[i].p)
  <2>1. (n - i) + 1 \in 1 .. n /\ new[i].p = Members[a][(n - i) + 1]
    BY <1>1, <1>2, <1>3, <1>5
  <2> QED BY <1>1, <1>3, <1>5, <2>1 DEF Contains, n
<1>7. ASSUME NEW i \in 1 .. n, NEW j \in 1 .. n, new[i].p = new[j].p PROVE i = j
  <2>1. (n - i) + 1 \in 1 .. n /\ (n - j) + 1 \in 1 .. n
    BY <1>1
  <2>2. (n - i) + 1 = (n - j) + 1
    BY <1>1, <1>2, <1>3, <1>5, <1>7, <2>1
  <2> QED BY <1>1, <2>2
<1>8. ASSUME NEW p \in Ptr, Contains(Members[a], p) PROVE \E i \in 1 .. n : new[i].p = p
  <2>1. PICK k \in 1 .. n : Members[a][k] = p
    BY <1>8 DEF Contains, n
  <2>2. (n - k) + 1 \in 1 .. n /\ (n - ((n - k) + 1)) + 1 = k
    BY <1>1
  <2>3. new[(n - k) + 1].p = p
    BY <1>2, <1>3, <1>5, <2>1, <2>2
  <2> QED BY <2>2, <2>3
<1> QED BY <1>1, <1>4, <1>5, <1>6, <1>7, <1>8 DEF members, unlinks, F, new, n

\* What lies above an object lies above everything lower.
LEMMA AboveDown ==
    ASSUME NEW h, NEW a \in Addr, NEW b \in Addr, Above(h, a), Rank[b] < Rank[a]
    PROVE  Above(h, b)
BY RankWorks DEF Above

\* delete_resource() finds the object, and puts its destructors on the stack.
LEMMA DeleteStep ==
    ASSUME IInv, NEW t \in Thread, Delete(t)
    PROVE  IInv'
<1> DEFINE T == stack[1]
<1>1. Does(t, "delete")
  BY DEF Delete
<1>2. /\ holder = t /\ holder \in Thread /\ work[t] # << >>
      /\ stack \in Seq(Task) /\ stack # << >> /\ 1 \in DOMAIN stack
      /\ T = Head(work[t]) /\ T \in Task /\ T.op = "delete"
      /\ \A k \in DOMAIN stack : stack[k] \in Task
      /\ \A k \in DOMAIN stack : k # 1 => Before(T, stack[k])
      /\ 2 \in DOMAIN stack => Adjacent(T, stack[2])
  BY <1>1, Doing
<1>3. PICK a \in Addr : T.a = a
  BY <1>2, TaskShape
<1>4. a \in Doomed /\ a \in alive /\ s_res_map[a] = << >>
  BY <1>2, <1>3 DEF IInv, DoomedIsUnowned, Doomed
<1>5. PICK new \in Seq(Task) :
          /\ Continue(t, new) /\ UNCHANGED heap
          /\ LET n == Len(Members[a]) IN
             /\ n \in Nat /\ Len(new) = n + 1
             /\ new[n + 1].op = "free" /\ new[n + 1].a = a
             /\ \A i \in 1 .. n : /\ new[i].op = "unlink" /\ new[i].p \in Ptr
                                  /\ Contains(Members[a], new[i].p)
             /\ \A i, j \in 1 .. n : new[i].p = new[j].p => i = j
             /\ \A p \in Ptr : Contains(Members[a], p) => \E i \in 1 .. n : new[i].p = p
  <2> DEFINE members == Reverse(Members[a])
             unlinks == [i \in DOMAIN members |-> [op |-> "unlink", p |-> members[i]]]
             ds == unlinks \o <<[op |-> "free", a |-> a]>>
  <2>1. Continue(t, ds) /\ UNCHANGED heap
    BY <1>2, <1>3, <1>4 DEF Delete
  <2>2. LET k == Len(Members[a]) IN
        /\ ds \in Seq(Task) /\ k \in Nat /\ Len(ds) = k + 1
        /\ ds[k + 1].op = "free" /\ ds[k + 1].a = a
        /\ \A i \in 1 .. k : /\ ds[i].op = "unlink" /\ ds[i].p \in Ptr
                             /\ Contains(Members[a], ds[i].p)
        /\ \A i, j \in 1 .. k : ds[i].p = ds[j].p => i = j
        /\ \A p \in Ptr : Contains(Members[a], p) => \E i \in 1 .. k : ds[i].p = p
    BY Destructors
  <2> HIDE DEF ds
  <2> QED BY <2>1, <2>2
<1> DEFINE n == Len(Members[a])
<1>6. /\ n \in Nat /\ Len(new) = n + 1 /\ new # << >> /\ DOMAIN new = 1 .. n + 1
      /\ new[n + 1].op = "free" /\ new[n + 1].a = a /\ new[n + 1] \in Task
      /\ \A i \in DOMAIN new : i # n + 1 =>
            /\ i \in 1 .. n /\ new[i].op = "unlink" /\ new[i].p \in Ptr
            /\ Contains(Members[a], new[i].p) /\ new[i] \in Task
      /\ \A i, j \in 1 .. n : new[i].p = new[j].p => i = j
      /\ \A p \in Ptr : Contains(Members[a], p) => \E i \in 1 .. n : new[i].p = p
  BY <1>5
<1> HIDE DEF T, n
<1>7. Continues(new)
  BY <1>2, <1>5, Continued DEF IInv
<1>8. s_res_map' = s_res_map /\ m_raw' = m_raw /\ alive' = alive
  BY <1>5 DEF heap
<1>9. Doomed' = Doomed
  <2>1. stack[1].op = "delete" /\ stack[1].a = a
    BY <1>2, <1>3 DEF T
  <2>2. n + 1 \in DOMAIN new
    BY <1>6
  <2>3. \A b \in Addr : stack[1].a = b <=> \E i \in DOMAIN new : new[i].op \in Deleting /\ new[i].a = b
    BY <1>6, <2>1, <2>2
  <2>4. \A i \in DOMAIN new : new[i].op # "clear"
    BY <1>6
  <2> QED BY <1>7, <2>1, <2>3, <2>4, BelowKept
\* What a member owns lies below the object.
<1>10. ASSUME NEW p \in Ptr, Contains(Members[a], p), NEW b \in Addr, m_raw[p] = b
       PROVE  Rank[b] < Rank[a]
  <2>1. b \in MayOwn[p]
    BY <1>10, NullAssumption DEF IInv, OwnersLive
  <2> QED BY <1>10, <2>1, AboveOwn DEF Above
<1>11. \A i \in DOMAIN new, b \in Addr : Frees(new[i], b) => b = a \/ Rank[b] < Rank[a]
  BY <1>6, <1>10 DEF Frees
<1>12. ASSUME NEW h, Above(h, a)
       PROVE  \A i \in DOMAIN new :
                 /\ \A b \in Addr : Frees(new[i], b) => Above(h, b)
                 /\ new[i].op = "unlink" => new[i].p # h
  <2>1. \A i \in DOMAIN new, b \in Addr : Frees(new[i], b) => Above(h, b)
    BY <1>11, <1>12, AboveDown
  <2>2. ~ Contains(Members[a], h)
    BY <1>12, RankWorks DEF Above
  <2> QED BY <1>6, <2>1, <2>2
<1>13. ASSUME NEW i \in DOMAIN new, NEW k \in DOMAIN stack, k # 1 PROVE Before(new[i], stack[k])
  <2>1. Before(T, stack[k])
    BY <1>2, <1>13
  <2>2. Frees(T, a)
    BY <1>2, <1>3 DEF Frees
  <2>3. stack[k].op \in OnPtr => Above(stack[k].p, a)
    BY <2>1, <2>2 DEF Before
  <2>4. ASSUME stack[k].op \in Deleting, NEW b \in Addr, Frees(new[i], b)
        PROVE  Rank[b] < Rank[stack[k].a]
    <3>1. Rank[a] < Rank[stack[k].a]
      BY <2>1, <2>2, <2>4 DEF Before
    <3>2. stack[k].a \in Addr
      BY <1>2, <2>4, TaskShape
    <3> QED BY <1>11, <2>4, <3>1, <3>2, RankWorks
  <2>5. new[i].op \in {"unlink", "free"}
    BY <1>6
  <2> QED BY <1>2, <1>12, <2>1, <2>3, <2>4, <2>5 DEF Before
<1>14. ASSUME NEW i \in DOMAIN new, NEW j \in DOMAIN new, i < j PROVE Before(new[i], new[j])
  <2>1. i # n + 1 /\ i \in 1 .. n
    BY <1>6, <1>14
  <2>2. \A b \in Addr : Frees(new[i], b) => Rank[b] < Rank[a]
    BY <1>6, <1>10, <2>1 DEF Frees
  <2>3. CASE j = n + 1
    BY <1>6, <2>1, <2>2, <2>3 DEF Before
  <2>4. CASE j # n + 1
    <3>1. j \in 1 .. n /\ new[j].p # new[i].p
      BY <1>6, <1>14, <2>1, <2>4
    <3>2. ASSUME NEW b \in Addr, Frees(new[i], b) PROVE Above(new[j].p, b)
      <4>1. \A x \in Addr : Contains(Members[x], new[j].p) => x = a
        BY <1>6, <2>4, MemberOf
      <4> QED BY <2>2, <3>2, <4>1 DEF Above
    <3> QED BY <1>6, <2>1, <2>4, <3>1, <3>2 DEF Before
  <2> QED BY <2>3, <2>4
<1>15. /\ \A i \in DOMAIN new : i + 1 \in DOMAIN new => Adjacent(new[i], new[i + 1])
       /\ 2 \in DOMAIN stack => Adjacent(new[Len(new)], stack[2])
  <2>1. ASSUME NEW i \in DOMAIN new, i + 1 \in DOMAIN new PROVE Adjacent(new[i], new[i + 1])
    <3>1. i # n + 1
      BY <1>6, <2>1
    <3>2. new[i].op = "unlink" /\ new[i + 1].op \in {"unlink", "free"}
      BY <1>6, <2>1, <3>1
    <3> QED BY <3>2 DEF Adjacent
  <2>2. 2 \in DOMAIN stack => Adjacent(new[n + 1], stack[2])
    BY <1>2, <1>3, <1>6 DEF Adjacent
  <2> QED BY <1>6, <2>1, <2>2
<1>16. \A i \in DOMAIN new : new[i].op \in Deleting =>
           /\ i = Len(new) /\ 2 \in DOMAIN stack
           /\ \A q \in Ptr : m_raw[q] = new[i].a => stack[2].p = q
  <2>1. 2 \in DOMAIN stack /\ \A q \in Ptr : m_raw[q] = a => stack[2].p = q
    BY <1>2, <1>3, 1 + 1 = 2 DEF IInv, LastPointer, T
  <2> QED BY <1>6, <2>1
<1>17. ASSUME NEW i \in DOMAIN new, NEW p \in Ptr, Resets(new[i], p)
       PROVE  \E j \in DOMAIN new : j < i /\ new[j].op \in {"unlink", "clear"} /\ new[j].p = p
  <2>1. i = n + 1 /\ Contains(Members[a], p)
    BY <1>6, <1>17 DEF Resets
  <2>2. PICK j \in 1 .. n : new[j].p = p
    BY <1>6, <2>1
  <2>3. j \in DOMAIN new /\ j # n + 1 /\ j < n + 1
    BY <1>6
  <2> QED BY <1>6, <2>1, <2>2, <2>3
<1>18. \A i \in DOMAIN new : i # 1 /\ new[i].op = "unlink" =>
           \E k \in DOMAIN new : i < k /\ new[k].op = "free"
  <2>1. ASSUME NEW i \in DOMAIN new, new[i].op = "unlink"
        PROVE  n + 1 \in DOMAIN new /\ i < n + 1 /\ new[n + 1].op = "free"
    BY <1>6, <2>1
  <2> QED BY <2>1
<1>19. ASSUME NEW b \in Addr, Anchored(b) PROVE Anchored(b)'
  <2>1. ASSUME NEW h \in Ptr, \A j \in DOMAIN stack : Stays(h, stack[j])
        PROVE  \A i \in DOMAIN new : Stays(h, new[i])
    <3>1. Stays(h, T) /\ Frees(T, a)
      BY <1>2, <1>3, <2>1 DEF T, Frees
    <3>2. Above(h, a)
      BY <3>1 DEF Stays
    <3> QED BY <1>6, <1>12, <3>2 DEF Stays
  <2>2. b \in alive' /\ b \notin Doomed'
    BY <1>8, <1>9, <1>19 DEF Anchored
  <2> QED BY <1>7, <1>8, <1>19, <2>1, <2>2, AnchoredKept DEF Owns
<1>20. \A i \in DOMAIN new :
           /\ Ready(new[i])
           /\ new[i].op \in {"unlink", "free"}
           /\ new[i].op = "free" => new[i].a = a
           /\ new[i].op = "unlink" => new[i].p \notin AppPtr
  <2>1. \A p : Contains(Members[a], p) => Lives(p)
    BY <1>4 DEF Lives
  <2>2. \A p \in Ptr : Contains(Members[a], p) => p \notin AppPtr
    BY MemberOf
  <2> QED BY <1>6, <2>1, <2>2 DEF Ready
<1>21. LoopsAgree'
  BY <1>4, <1>7, <1>8, <1>9, <1>20, LoopStaysDoomed DEF IInv
<1>22. stack[1].op = "delete" /\ stack[1].a = a
  BY <1>2, <1>3 DEF T
<1>23. \A b \in Addr : stack[1].a = b => \E i \in DOMAIN new : new[i].op = "free" /\ new[i].a = b
  <2>1. n + 1 \in DOMAIN new
    BY <1>6
  <2> QED BY <1>6, <1>22, <2>1
<1>24. /\ \A i \in DOMAIN new :
             /\ Ready(new[i]) /\ new[i].op \notin Grouping \cup {"clear"}
             /\ new[i].op \in Linking => stack[1].op \in Linking /\ stack[1].a = new[i].a
             /\ new[i].op \in Deleting => stack[1].op \in Deleting /\ stack[1].a = new[i].a
       /\ \A i \in DOMAIN new :
             /\ new[i].op \notin Looping
             /\ new[i].op \in OnPtr /\ new[i].p \in AppPtr =>
                    \E o \in Ops : o.t = holder /\ o.p = new[i].p
  BY <1>20, <1>22
<1> HIDE DEF n
<1> QED BY <1>2, <1>5, <1>13, <1>14, <1>15, <1>16, <1>17, <1>18, <1>19, <1>21, <1>22, <1>23, <1>24,
           StackStep

\* The memory of an object goes when none of its members owns anything.
LEMMA FreeStep ==
    ASSUME IInv, NEW t \in Thread, Free(t)
    PROVE  IInv'
<1> DEFINE T == stack[1]
           new == << >>
<1>1. Does(t, "free") /\ Continue(t, << >>) /\ alive' = alive \ {Head(work[t]).a}
      /\ s_res_map' = s_res_map /\ m_raw' = m_raw
  BY DEF Free
<1>2. /\ holder = t /\ holder \in Thread /\ work[t] # << >>
      /\ stack \in Seq(Task) /\ stack # << >> /\ 1 \in DOMAIN stack
      /\ T = Head(work[t]) /\ T \in Task /\ T.op = "free"
      /\ \A k \in DOMAIN stack : stack[k] \in Task
      /\ \A k \in DOMAIN stack : k # 1 => Before(T, stack[k])
  BY <1>1, Doing
<1>3. PICK a \in Addr : T.a = a
  BY <1>2, TaskShape
<1>4. new \in Seq(Task) /\ DOMAIN new = {} /\ Len(new) = 0 /\ new = << >> /\ Continue(t, new)
  BY <1>1
<1>5. alive' = alive \ {a}
  BY <1>1, <1>2, <1>3
<1> HIDE DEF T, new
<1>6. /\ Continues(new) /\ holder' = holder /\ call' = call /\ broken' = broken
      /\ work' \in [Thread -> Seq(Task)] /\ Threads'
  BY <1>2, <1>4, Continued DEF IInv
<1>7. Frees(T, a)
  BY <1>2, <1>3 DEF Frees
<1>8. \A k \in DOMAIN stack : k # 1 /\ stack[k].op \in Deleting => stack[k].a # a
  <2> SUFFICES ASSUME NEW k \in DOMAIN stack, k # 1, stack[k].op \in Deleting, stack[k].a = a
               PROVE  FALSE
    OBVIOUS
  <2>1. Rank[a] < Rank[a]
    BY <1>2, <1>7 DEF Before
  <2> QED BY <2>1, RankWorks
<1>9. Doomed' = Doomed \ {a} /\ a \in Doomed /\ Clearing' = Clearing
  <2>1. a \notin DoomedBelow
    BY <1>8 DEF DoomedBelow
  <2>2. Doomed = DoomedBelow \cup {b \in Addr : stack[1].op \in Deleting /\ stack[1].a = b}
        /\ Clearing = ClearingBelow \cup {p \in Ptr : stack[1].op = "clear" /\ stack[1].p = p}
    BY <1>6, Below
  <2>3. {b \in Addr : stack[1].op \in Deleting /\ stack[1].a = b} = {a}
        /\ {p \in Ptr : stack[1].op = "clear" /\ stack[1].p = p} = {}
    BY <1>2, <1>3 DEF T
  <2>4. /\ Doomed' = DoomedBelow
               \cup {b \in Addr : \E i \in DOMAIN new : new[i].op \in Deleting /\ new[i].a = b}
        /\ Clearing' = ClearingBelow
               \cup {p \in Ptr : \E i \in DOMAIN new : new[i].op = "clear" /\ new[i].p = p}
    BY <1>6, Below
  <2>5. /\ {b \in Addr : \E i \in DOMAIN new : new[i].op \in Deleting /\ new[i].a = b} = {}
        /\ {p \in Ptr : \E i \in DOMAIN new : new[i].op = "clear" /\ new[i].p = p} = {}
    BY <1>4
  <2>6. Doomed' = DoomedBelow /\ Clearing' = ClearingBelow
    BY <2>4, <2>5
  <2>7. Doomed = DoomedBelow \cup {a} /\ Clearing = ClearingBelow
    BY <2>2, <2>3
  <2> QED BY <2>1, <2>6, <2>7
<1>10. a \in alive /\ s_res_map[a] = << >>
  BY <1>9 DEF IInv, DoomedIsUnowned
\* No ptr that is still of use is a member of the object.
<1>11. \A p : Contains(Members[a], p) => p \notin AppPtr /\ (p \in Ptr => m_raw[p] = Null)
  <2> SUFFICES ASSUME NEW p, Contains(Members[a], p)
               PROVE  p \notin AppPtr /\ (p \in Ptr => m_raw[p] = Null)
    OBVIOUS
  <2>1. p \notin AppPtr
    BY MemberOf DEF Ptr
  <2>2. Resets(stack[1], p)
    BY <1>2, <1>3 DEF Resets, T
  <2>3. \A j \in DOMAIN stack : ~ j < 1
    BY <1>2
  <2>4. p \in Ptr => m_raw[p] = Null
    BY <1>2, <2>2, <2>3 DEF IInv, StackResets
  <2> QED BY <2>1, <2>4
<1>12. \A k \in DOMAIN stack : k # 1 /\ stack[k].op \in OnPtr => ~ Contains(Members[a], stack[k].p)
  <2> SUFFICES ASSUME NEW k \in DOMAIN stack, k # 1, stack[k].op \in OnPtr,
                      Contains(Members[a], stack[k].p)
               PROVE  FALSE
    OBVIOUS
  <2>1. Above(stack[k].p, a)
    BY <1>2, <1>7 DEF Before
  <2> QED BY <2>1, RankWorks DEF Above
<1>13. \A p \in Ptr : Lives(p) /\ ~ Contains(Members[a], p) => Lives(p)'
  BY <1>5 DEF Lives
<1>14. TypeOK'
  BY <1>1, <1>5, <1>6 DEF IInv, TypeOK
<1>15. Targeted'
  BY <1>4, <1>6, TargetedKept DEF IInv
<1>16. MapAgrees' /\ ListedOnce'
  BY <1>1, <1>9 DEF IInv, MapAgrees, ListedOnce, Owns
<1>17. OwnersLive'
  BY <1>1, <1>11, <1>13 DEF IInv, OwnersLive
<1>18. OwnedIsAlive' /\ DoomedIsUnowned'
  BY <1>1, <1>5, <1>9, <1>10 DEF IInv, OwnedIsAlive, DoomedIsUnowned
<1>19. NothingLeaks' /\ FreshOnce'
  <2>1. alive' \ Doomed' \subseteq alive \ Doomed
    BY <1>5, <1>9
  <2>2. stack[1].op = "free"
    BY <1>2 DEF T
  <2> QED BY <1>1, <1>2, <1>4, <2>1, <2>2, LeaksKept DEF IInv
<1>20. StackOrder' /\ StackAdjacent' /\ LastPointer' /\ StackNested'
  <2>1. StackOrder'
    BY <1>1, <1>4, <1>6, OrderKept DEF IInv
  <2>2. StackAdjacent'
    BY <1>1, <1>4, <1>6, AdjacentKept DEF IInv
  <2>3. LastPointer'
    BY <1>1, <1>4, <1>6, LastPointerKept DEF IInv
  <2>4. StackNested'
    BY <1>4, <1>6, NestedKept DEF IInv
  <2> QED BY <2>1, <2>2, <2>3, <2>4
<1>21. StackResets'
  <2>1. stack[1].op = "free"
    BY <1>2 DEF T
  <2> QED BY <1>1, <1>4, <1>6, <2>1, ResetsKept DEF IInv
<1>22. ASSUME NEW b \in Addr, Anchored(b) PROVE Anchored(b)'
  <2>1. b \in alive' /\ b \notin Doomed'
    BY <1>5, <1>9, <1>22 DEF Anchored
  <2> QED BY <1>1, <1>4, <1>6, <1>22, <2>1, AnchoredKept DEF Owns
<1>23. StackReady'
  <2>1. ASSUME NEW q \in Ptr, NEW k \in DOMAIN stack, k # 1, stack[k].op \in OnPtr, stack[k].p = q
        PROVE  Lives(q)'
    <3>1. Lives(q)
      BY <2>1 DEF IInv, StackReady, Ready
    <3> QED BY <1>12, <1>13, <2>1, <3>1
  <2> QED BY <1>1, <1>4, <1>6, <1>22, <2>1, ReadyKept DEF IInv
<1>24. LoopsAgree'
  <2> SUFFICES ASSUME NEW j \in DOMAIN stack', NEW e \in Task, e = stack'[j], e.op \in Looping
               PROVE  Turn(e)'
    BY <1>6 DEF LoopsAgree, Turn, Awaits, Continues
  <2>1. stack' \in Seq(Task) /\ \E k \in DOMAIN stack : e = stack[k]
    BY <1>4, <1>6 DEF Continues
  <2>2. Turn(e) /\ e.key \in Addr /\ e.i \in Nat
    BY <2>1, TaskShape DEF IInv, LoopsAgree
  <2>3. s_res_map[e.key] = << >> /\ \A q : ~ Contains(s_res_map[e.key], q)
    BY <1>9, <2>2 DEF Turn, IInv, TypeOK, Contains
  <2>4. e.i = 0 /\ ~ (e.op = "each_link" /\ e.a = e.key)
    BY <1>2, <1>9, <2>2, <2>3 DEF Turn, Awaits, T
  <2>5. 2 \in DOMAIN stack /\ stack[2].op = "clear"
    <3>1. 2 \in DOMAIN stack
      BY <1>2, 1 + 1 = 2 DEF IInv, LastPointer, T
    <3> QED BY <1>2, <3>1, Doing, <1>1 DEF Adjacent, T
  <2>6. stack'[1].op = "clear" /\ Len(stack') # 1
    <3>1. 1 \in DOMAIN stack' /\ stack'[1] = stack[2]
      BY <1>4, <1>6, <2>5 DEF Continues
    <3>2. stack'[1] # e
      BY <2>5, <3>1
    <3>3. Len(stack') # 1
      <4>1. j # 1
        BY <3>2
      <4>2. DOMAIN stack' = 1 .. Len(stack')
        BY <2>1
      <4> QED BY <4>1, <4>2
    <3> QED BY <2>5, <3>1, <3>3
  <2> QED BY <1>1, <2>3, <2>4, <2>6 DEF Turn, Awaits, Owns
<1>25. CallsReady'
  <2>1. ASSUME NEW u \in Thread, NEW b \in Addr, call[u] # NoCall, CallAnchored(u, b)
        PROVE  CallAnchored(u, b)'
    BY <1>1, <1>5, <1>6, <1>9, <2>1 DEF CallAnchored, Owns
  <2> QED BY <1>2, <1>6, <2>1, CallsKept DEF IInv
<1> QED BY <1>6, <1>14, <1>15, <1>16, <1>17, <1>18, <1>19, <1>20, <1>21, <1>23, <1>24, <1>25 DEF IInv

-----------------------------------------------------------------------------
(* clear_resource() *)

\* clear_resource() finds its ptr, whose object is gone or has other owners.
LEMMA ClearStep ==
    ASSUME IInv, NEW t \in Thread, Clear(t)
    PROVE  IInv'
<1> DEFINE T == stack[1]
           new == << >>
<1>1. Does(t, "clear")
  BY DEF Clear
<1>2. /\ holder = t /\ holder \in Thread /\ work[t] # << >>
      /\ stack \in Seq(Task) /\ stack # << >> /\ 1 \in DOMAIN stack
      /\ T = Head(work[t]) /\ T \in Task /\ T.op = "clear" /\ Ready(T)
      /\ \A k \in DOMAIN stack : stack[k] \in Task
      /\ \A k \in DOMAIN stack : k # 1 => Before(T, stack[k])
      /\ 2 \in DOMAIN stack => Adjacent(T, stack[2])
  BY <1>1, Doing
<1>3. PICK p \in Ptr : T.p = p
  BY <1>2, TaskShape
<1>4. new \in Seq(Task) /\ DOMAIN new = {} /\ Len(new) = 0 /\ new = << >>
  OBVIOUS
<1>5. /\ Continue(t, new)
      /\ m_raw' = [m_raw EXCEPT ![p] = Null]
      /\ s_res_map' = s_res_map /\ alive' = alive
  <2>1. Lives(Head(work[t]).p) /\ Head(work[t]).p = p
    BY <1>2, <1>3 DEF Ready
  <2> QED BY <2>1 DEF Clear
<1> HIDE DEF T, new
<1>6. /\ Continues(new) /\ holder' = holder /\ call' = call /\ broken' = broken
      /\ work' \in [Thread -> Seq(Task)] /\ Threads'
  BY <1>2, <1>4, <1>5, Continued DEF IInv
<1>7. /\ m_raw'[p] = Null
      /\ \A q \in Ptr : q # p => m_raw'[q] = m_raw[q]
      /\ \A q \in Ptr : m_raw'[q] \in {m_raw[q], Null}
      /\ m_raw' \in [Ptr -> Addr \cup {Null}]
  BY <1>5 DEF IInv, TypeOK
<1>8. \A k \in DOMAIN stack : k # 1 /\ stack[k].op = "clear" => stack[k].p # p /\ stack[k].p \in Ptr
  BY <1>2, <1>3, TaskShape DEF Before
<1>9. Doomed' = Doomed /\ Clearing' = Clearing \ {p} /\ p \in Clearing
  <2>1. p \notin ClearingBelow
    BY <1>8 DEF ClearingBelow
  <2>2. Doomed = DoomedBelow \cup {b \in Addr : stack[1].op \in Deleting /\ stack[1].a = b}
        /\ Clearing = ClearingBelow \cup {q \in Ptr : stack[1].op = "clear" /\ stack[1].p = q}
    BY <1>6, Below
  <2>3. {b \in Addr : stack[1].op \in Deleting /\ stack[1].a = b} = {}
        /\ {q \in Ptr : stack[1].op = "clear" /\ stack[1].p = q} = {p}
    BY <1>2, <1>3 DEF T
  <2>4. /\ Doomed' = DoomedBelow
               \cup {b \in Addr : \E i \in DOMAIN new : new[i].op \in Deleting /\ new[i].a = b}
        /\ Clearing' = ClearingBelow
               \cup {q \in Ptr : \E i \in DOMAIN new : new[i].op = "clear" /\ new[i].p = q}
    BY <1>6, Below
  <2>5. /\ {b \in Addr : \E i \in DOMAIN new : new[i].op \in Deleting /\ new[i].a = b} = {}
        /\ {q \in Ptr : \E i \in DOMAIN new : new[i].op = "clear" /\ new[i].p = q} = {}
    BY <1>4
  <2>6. Doomed' = DoomedBelow /\ Clearing' = ClearingBelow
    BY <2>4, <2>5
  <2>7. Doomed = DoomedBelow /\ Clearing = ClearingBelow \cup {p}
    BY <2>2, <2>3
  <2> QED BY <2>1, <2>6, <2>7
<1>10. TypeOK'
  BY <1>5, <1>6, <1>7 DEF IInv, TypeOK
<1>11. Targeted'
  BY <1>4, <1>6, TargetedKept DEF IInv
<1>12. MapAgrees'
  <2> SUFFICES ASSUME NEW a \in Addr, NEW q \in Ptr
               PROVE  Owns(q, a) <=> m_raw'[q] = a /\ q \notin Clearing'
    BY <1>5 DEF MapAgrees, Owns
  <2>1. Owns(q, a) <=> m_raw[q] = a /\ q \notin Clearing
    BY DEF IInv, MapAgrees
  <2> QED BY <1>7, <1>9, <2>1, NullAssumption
<1>13. ListedOnce' /\ OwnedIsAlive' /\ DoomedIsUnowned'
  BY <1>5, <1>9 DEF IInv, ListedOnce, OwnedIsAlive, DoomedIsUnowned
<1>14. OwnersLive'
  BY <1>5, <1>7 DEF IInv, OwnersLive, Lives
<1>15. stack[1].op = "clear"
  BY <1>2 DEF T
<1>16. NothingLeaks' /\ FreshOnce'
  BY <1>2, <1>4, <1>5, <1>9, <1>15, LeaksKept DEF IInv
<1>17. StackOrder' /\ StackAdjacent' /\ LastPointer' /\ StackResets' /\ StackNested'
  <2>1. StackOrder'
    BY <1>4, <1>6, <1>7, OrderKept DEF IInv
  <2>2. StackAdjacent'
    <3>1. \A k \in DOMAIN stack : k # 1 /\ stack[k].op = "clear" =>
              m_raw'[stack[k].p] = m_raw[stack[k].p]
      BY <1>7, <1>8
    <3> QED BY <1>4, <1>6, <3>1, AdjacentKept DEF IInv
  <2>3. LastPointer'
    BY <1>4, <1>6, <1>7, LastPointerKept DEF IInv
  <2>4. StackResets'
    <3>1. \A q \in Ptr : stack[1].p = q => m_raw'[q] = Null
      BY <1>3, <1>7 DEF T
    <3> QED BY <1>4, <1>6, <1>7, <3>1, ResetsKept DEF IInv
  <2>5. StackNested'
    BY <1>4, <1>6, NestedKept DEF IInv
  <2> QED BY <2>1, <2>2, <2>3, <2>4, <2>5
<1>18. ASSUME NEW b \in Addr, Anchored(b) PROVE Anchored(b)'
  <2>1. b \in alive' /\ b \notin Doomed'
    BY <1>5, <1>9, <1>18 DEF Anchored
  <2> QED BY <1>4, <1>5, <1>6, <1>7, <1>18, <2>1, AnchoredKept DEF Owns
<1>19. StackReady'
  <2>1. ASSUME NEW q \in Ptr, NEW k \in DOMAIN stack, stack[k].op \in OnPtr, stack[k].p = q
        PROVE  Lives(q)'
    BY <1>5, <2>1 DEF IInv, StackReady, Ready, Lives
  <2> QED BY <1>4, <1>6, <1>7, <1>18, <2>1, ReadyKept DEF IInv
<1>20. LoopsAgree'
  <2>1. CASE Doomed # {}
    BY <1>4, <1>5, <1>6, <1>9, <2>1, LoopStaysDoomed DEF IInv
  <2>2. CASE Doomed = {}
    <3> SUFFICES ASSUME NEW j \in DOMAIN stack', NEW e \in Task, e = stack'[j], e.op \in Looping
                 PROVE  Turn(e)'
      BY <1>6 DEF LoopsAgree, Turn, Awaits, Continues
    <3>1. 2 \in DOMAIN stack /\ stack'[1] = stack[2] /\ stack' \in Seq(Task)
          /\ \E k \in DOMAIN stack : k # 1 /\ e = stack[k]
      <4>1. stack' \in Seq(Task) /\ Len(stack') = Len(stack) - 1 /\ j > Len(new)
        BY <1>4, <1>6 DEF Continues
      <4>2. \E k \in DOMAIN stack : k # 1 /\ e = stack[k]
        BY <1>6, <4>1 DEF Continues
      <4>3. 2 \in DOMAIN stack
        BY <1>2, <4>1
      <4>4. stack'[1] = stack[2]
        BY <1>4, <1>6, <4>3, 2 + 0 - 1 = 1 DEF Continues
      <4> QED BY <4>1, <4>2, <4>3, <4>4
    <3>2. Turn(e) /\ e.key \in Addr /\ e.i \in Nat
      BY <3>1, TaskShape DEF IInv, LoopsAgree
    <3>3. stack[2].op \notin {"link", "unlink", "each_link"}
      <4>1. stack[2].op \notin {"link", "each_link"}
        BY <1>2, <3>1 DEF Before, Adjacent
      <4>2. ASSUME stack[2].op = "unlink" PROVE FALSE
        <5>1. PICK k \in DOMAIN stack : stack[k].op = "free"
          BY <3>1, <4>2 DEF IInv, StackNested
        <5>2. stack[k].a \in Addr
          BY <1>2, <5>1, TaskShape
        <5> QED BY <2>2, <5>1, <5>2 DEF Doomed
      <4> QED BY <4>1, <4>2
    <3>4. ~ Awaits(e.key) /\ ~ Awaits(e.key)'
      BY <1>15, <3>1, <3>3 DEF Awaits
    <3>5. Len(stack') = 1 => e.op # "each_link"
      <4>1. Len(stack') = 1 => j = 1
        BY <3>1
      <4> QED BY <3>1, <3>3, <4>1
    <3>6. \A k \in DOMAIN stack' : k # 1 =>
              ~ (stack'[k].op \in {"link", "unlink"} /\ Owns(stack'[k].p, e.key))
      BY <1>4, <1>6, <3>2 DEF Turn, Continues
    <3> QED BY <1>5, <1>9, <2>2, <3>1, <3>2, <3>3, <3>4, <3>5, <3>6 DEF Turn, Owns
  <2> QED BY <2>1, <2>2
<1>21. CallsReady'
  <2>1. ASSUME NEW u \in Thread, NEW b \in Addr, call[u] # NoCall, CallAnchored(u, b)
        PROVE  CallAnchored(u, b)'
    BY <1>5, <1>6, <1>9, <2>1 DEF CallAnchored, Owns
  <2> QED BY <1>2, <1>6, <2>1, CallsKept DEF IInv
<1> QED BY <1>6, <1>10, <1>11, <1>12, <1>13, <1>14, <1>16, <1>17, <1>19, <1>20, <1>21 DEF IInv

-----------------------------------------------------------------------------
(* group_link(), group_unlink() *)

\* Their loop starts at the last of a group; what a group is linked to by one of
\* its own members has another owner.
LEMMA GroupLoopStep ==
    ASSUME IInv, NEW t \in Thread, NEW T \in Task, T.op \in Grouping, Does(t, T.op),
           T = Head(work[t]), NEW key \in Addr, m_raw[T.p] = key,
           NEW E \in Task, E.op = IF T.op = "group_link" THEN "each_link" ELSE "each_unlink",
           E.key = key, E.i = Len(s_res_map[key]), E.op = "each_link" => E.a = T.a,
           Continue(t, <<E>>), UNCHANGED heap
    PROVE  IInv'
<1> DEFINE new == <<E>>
<1>1. /\ holder = t /\ holder \in Thread /\ work[t] # << >>
      /\ stack \in Seq(Task) /\ stack # << >> /\ 1 \in DOMAIN stack
      /\ stack[1] = T /\ Ready(T)
  BY Doing
<1>2. new \in Seq(Task) /\ DOMAIN new = {1} /\ Len(new) = 1 /\ new[1] = E /\ Continue(t, new)
  OBVIOUS
<1> HIDE DEF new
<1>3. Continues(new)
  BY <1>1, <1>2, Continued DEF IInv
<1>4. Len(stack) = 1 /\ \A k \in DOMAIN stack : k = 1
  <2>1. Len(stack) = 1
    BY <1>1, LoopLast DEF IInv
  <2> QED BY <1>1, <2>1
<1>5. stack' \in Seq(Task) /\ stack'[1] = E /\ Len(stack') = 1 /\ \A k \in DOMAIN stack' : k = 1
  BY <1>2, <1>3, <1>4 DEF Continues
<1>6. Doomed = {} /\ Clearing = {} /\ Doomed' = {}
  BY <1>1, <1>4, <1>5 DEF Doomed, Clearing
<1>7. s_res_map' = s_res_map /\ m_raw' = m_raw /\ alive' = alive
  BY DEF heap
<1>8. Solo
  BY <1>1, Target
<1>9. T.p \in Ptr /\ Owns(T.p, key) /\ s_res_map[key] \in Seq(Ptr) /\ Len(s_res_map[key]) >= 1
  <2>1. T.p \in Ptr
    BY TaskShape
  <2>2. Owns(T.p, key)
    BY <1>6, <2>1 DEF IInv, MapAgrees
  <2>3. s_res_map[key] \in Seq(Ptr)
    BY DEF IInv, TypeOK
  <2> QED BY <2>1, <2>2, <2>3 DEF Owns, Contains
<1>10. ASSUME NEW b \in Addr, Anchored(b) PROVE Anchored(b)'
  <2>1. ASSUME NEW h \in Ptr, \A j \in DOMAIN stack : Stays(h, stack[j])
        PROVE  \A i \in DOMAIN new : Stays(h, new[i])
    <3>1. Stays(h, T)
      BY <1>1, <2>1
    <3>2. Above(h, key)
      BY <3>1 DEF Stays, Frees
    <3> QED BY <1>2, <3>2 DEF Stays, Frees
  <2>2. b \in alive' /\ b \notin Doomed'
    BY <1>6, <1>7, <1>10 DEF Anchored
  <2> QED BY <1>2, <1>3, <1>7, <1>10, <2>1, <2>2, AnchoredKept DEF Owns
<1>11. T.op = "group_link" /\ T.a = key => Len(s_res_map[key]) >= 2
  <2> SUFFICES ASSUME T.op = "group_link", T.a = key
               PROVE  Len(s_res_map[key]) >= 2
    OBVIOUS
  <2>1. Anchored(key)
    BY <1>1, NullAssumption DEF IInv, StackReady
  <2>2. PICK h \in Ptr : Owns(h, key) /\ Stays(h, T)
    BY <1>1, <1>9, <2>1 DEF Anchored
  <2>3. h # T.p
    BY <2>2 DEF Stays
  <2> QED BY <1>9, <2>2, <2>3 DEF Owns, Contains
<1>12. LoopsAgree'
  <2> SUFFICES Turn(E)'
    BY <1>5 DEF LoopsAgree, Turn, Awaits
  <2>1. ~ Awaits(E.key)'
    BY <1>5 DEF Awaits
  <2> QED BY <1>5, <1>6, <1>7, <1>9, <1>11, <2>1 DEF Turn
<1>13. Ready(E)
  BY <1>1 DEF Ready
<1>14. \A i \in DOMAIN new : new[i] = E /\ i = 1
  BY <1>2
<1>15. \A b \in Addr : T.op \in Linking /\ T.a = b => \E i \in DOMAIN new : new[i].op \in Linking /\ new[i].a = b
  BY <1>2
<1>16. ~ 2 \in DOMAIN stack
  BY <1>4
<1>17. \A i, j \in DOMAIN new : ~ i < j
  BY <1>14
<1>18. ~ Resets(E, T.p) /\ \A q \in Ptr : ~ Resets(E, q)
  BY DEF Resets
<1> QED BY <1>1, <1>2, <1>4, <1>8, <1>10, <1>12, <1>13, <1>14, <1>15, <1>16, <1>17, <1>18, StackStep

\* group_link() and group_unlink() begin their loop.
LEMMA GroupStep ==
    ASSUME IInv, NEW t \in Thread, Group(t)
    PROVE  IInv'
<1> DEFINE T == Head(work[t])
           key == m_raw[T.p]
           size == Len(s_res_map[key])
           link == [op |-> "each_link", key |-> key, i |-> size, a |-> T.a]
           unlink == [op |-> "each_unlink", key |-> key, i |-> size]
<1>1. PICK op \in Grouping : Does(t, op)
  BY DEF Group
<1>2. T \in Task /\ T.op = op
  BY <1>1, Doing
<1>3. T.p \in Ptr /\ (op = "group_link" => T.a \in Addr \cup {Null})
  BY <1>2, TaskShape
<1>4. key # Null /\ UNCHANGED heap
  BY DEF Group
<1>5. key \in Addr /\ s_res_map[key] \in Seq(Ptr)
  BY <1>3, <1>4 DEF IInv, TypeOK
<1>6. size \in Nat
  BY <1>5
<1>7. CASE op = "group_link"
  <2>1. Continue(t, <<link>>)
    BY <1>1, <1>7 DEF Group, Does
  <2>2. link \in Task /\ link.op = "each_link" /\ link.key = key /\ link.i = size /\ link.a = T.a
    BY <1>3, <1>5, <1>6, <1>7, TaskMadeFor
  <2> HIDE DEF link
  <2> QED BY <1>1, <1>2, <1>4, <1>5, <1>7, <2>1, <2>2, GroupLoopStep
<1>8. CASE op = "group_unlink"
  <2>1. Continue(t, <<unlink>>)
    BY <1>1, <1>8 DEF Group, Does
  <2>2. unlink \in Task /\ unlink.op = "each_unlink" /\ unlink.key = key /\ unlink.i = size
    BY <1>5, <1>6, TaskMadeFor
  <2> HIDE DEF unlink
  <2> QED BY <1>1, <1>2, <1>4, <1>5, <1>8, <2>1, <2>2, GroupLoopStep
<1> QED BY <1>7, <1>8

-----------------------------------------------------------------------------
(* The loops of group_link() and group_unlink() *)

\* A loop has its stack for itself, and its index is in the group or 0.
LEMMA LoopTop ==
    ASSUME IInv, NEW t \in Thread, NEW T \in Task, T.op \in Looping, Does(t, T.op),
           T = Head(work[t])
    PROVE  /\ holder = t /\ holder \in Thread /\ work[t] # << >>
           /\ stack \in Seq(Task) /\ stack # << >> /\ stack[1] = T /\ Ready(T) /\ Turn(T)
           /\ Len(stack) = 1 /\ 1 \in DOMAIN stack /\ \A k \in DOMAIN stack : k = 1
           /\ Doomed = {} /\ Clearing = {} /\ Solo
           /\ T.key \in Addr /\ T.i \in Nat
           /\ s_res_map[T.key] \in Seq(Ptr) /\ T.i <= Len(s_res_map[T.key])
<1>1. /\ holder = t /\ holder \in Thread /\ work[t] # << >>
      /\ stack \in Seq(Task) /\ stack # << >> /\ 1 \in DOMAIN stack
      /\ stack[1] = T /\ Ready(T)
  BY Doing
<1>2. Len(stack) = 1 /\ \A k \in DOMAIN stack : k = 1
  <2>1. Len(stack) = 1
    BY <1>1, LoopLast DEF IInv
  <2> QED BY <1>1, <2>1
<1>3. Doomed = {} /\ Clearing = {}
  BY <1>1, <1>2 DEF Doomed, Clearing
<1>4. Solo
  BY <1>1, Target
<1>5. T.key \in Addr /\ T.i \in Nat
  BY TaskShape
<1>6. s_res_map[T.key] \in Seq(Ptr)
  BY <1>5 DEF IInv, TypeOK
<1>7. Turn(T)
  BY <1>1 DEF IInv, LoopsAgree
<1>8. T.i <= Len(s_res_map[T.key])
  <2>1. ~ Awaits(T.key)
    BY <1>1 DEF Awaits
  <2> QED BY <1>5, <1>6, <1>7, <2>1 DEF Turn
<1> QED BY <1>1, <1>2, <1>3, <1>4, <1>5, <1>6, <1>7, <1>8

\* The loop ends: what it linked a group to has an owner by now.
LEMMA EachEndStep ==
    ASSUME IInv, NEW t \in Thread, NEW T \in Task, T.op \in Looping, Does(t, T.op),
           T = Head(work[t]), T.i = 0, Continue(t, << >>), UNCHANGED heap
    PROVE  IInv'
<1> DEFINE new == << >>
<1>1. /\ holder = t /\ holder \in Thread /\ work[t] # << >>
      /\ stack \in Seq(Task) /\ stack # << >> /\ stack[1] = T /\ Turn(T)
      /\ Len(stack) = 1 /\ 1 \in DOMAIN stack /\ \A k \in DOMAIN stack : k = 1
      /\ Doomed = {} /\ Solo
  BY LoopTop
<1>2. new \in Seq(Task) /\ DOMAIN new = {} /\ Len(new) = 0 /\ new = << >> /\ Continue(t, new)
  OBVIOUS
<1> HIDE DEF new
<1>3. Continues(new)
  BY <1>1, <1>2, Continued DEF IInv
<1>4. stack' \in Seq(Task) /\ \A k \in DOMAIN stack' : FALSE
  BY <1>1, <1>2, <1>3 DEF Continues
<1>5. LoopsAgree' /\ Doomed' = {}
  BY <1>4 DEF LoopsAgree, Doomed
<1>6. s_res_map' = s_res_map /\ m_raw' = m_raw /\ alive' = alive
  BY DEF heap
<1>7. ASSUME NEW b \in Addr, Anchored(b) PROVE Anchored(b)'
  <2>1. b \in alive' /\ b \notin Doomed'
    BY <1>5, <1>6, <1>7 DEF Anchored
  <2> QED BY <1>2, <1>3, <1>6, <1>7, <2>1, AnchoredKept DEF Owns
<1>8. \A b \in Addr : T.op \in Linking /\ T.a = b => s_res_map[b] # << >>
  BY <1>1, NullAssumption DEF Turn
<1> QED BY <1>1, <1>2, <1>5, <1>7, <1>8, StackStep

\* A turn of the loop takes a member that the group has.
LEMMA EachTurnStep ==
    ASSUME IInv, NEW t \in Thread, NEW T \in Task, T.op \in Looping, Does(t, T.op),
           T = Head(work[t]), NEW key \in Addr, T.key = key, T.i \in DOMAIN s_res_map[key],
           NEW m, m = s_res_map[key][T.i],
           NEW U \in Task, U.op = IF T.op = "each_link" THEN "link" ELSE "unlink", U.p = m,
           U.op = "link" => U.a = T.a,
           NEW E \in Task, E.op = T.op, E.key = key, E.i = T.i - 1, E.op = "each_link" => E.a = T.a,
           Continue(t, <<U, E>>), UNCHANGED heap
    PROVE  IInv'
<1> DEFINE new == <<U, E>>
<1>1. /\ holder = t /\ holder \in Thread /\ work[t] # << >>
      /\ stack \in Seq(Task) /\ stack # << >> /\ stack[1] = T /\ Ready(T) /\ Turn(T)
      /\ Len(stack) = 1 /\ 1 \in DOMAIN stack /\ \A k \in DOMAIN stack : k = 1
      /\ Doomed = {} /\ Clearing = {} /\ Solo /\ T.i \in Nat
      /\ s_res_map[key] \in Seq(Ptr)
  BY LoopTop
<1>2. /\ new \in Seq(Task) /\ DOMAIN new = {1, 2} /\ Len(new) = 2
      /\ new[1] = U /\ new[2] = E /\ Continue(t, new)
  OBVIOUS
<1> HIDE DEF new
<1>3. Continues(new)
  BY <1>1, <1>2, Continued DEF IInv
<1>4. /\ stack' \in Seq(Task) /\ Len(stack') = 2 /\ stack'[1] = U /\ stack'[2] = E
      /\ \A k \in DOMAIN stack' : k = 1 \/ k = 2
  BY <1>1, <1>2, <1>3 DEF Continues
<1>5. Doomed' = {}
  BY <1>4 DEF Doomed
<1>6. s_res_map' = s_res_map /\ m_raw' = m_raw /\ alive' = alive
  BY DEF heap
<1>7. m \in Ptr /\ Owns(m, key) /\ m_raw[m] = key /\ key # Null
  <2>1. m \in Ptr /\ Owns(m, key)
    BY <1>1 DEF Owns, Contains
  <2> QED BY <2>1, NullAssumption DEF IInv, MapAgrees
<1>8. Lives(m) /\ Above(m, key)
  BY <1>7, AboveOwn DEF IInv, OwnersLive
<1>9. Ready(U) /\ Ready(E)
  BY <1>1, <1>7, <1>8 DEF Ready
<1>10. Before(U, E) /\ Adjacent(U, E)
  BY <1>8 DEF Before, Adjacent
<1>11. ASSUME NEW b \in Addr, T.op \in Linking, T.a = b, Anchored(b) PROVE Anchored(b)'
  <2>1. b \in alive' /\ b \notin Doomed'
    BY <1>5, <1>6, <1>11 DEF Anchored
  <2>2. CASE s_res_map[b] = << >>
    BY <1>6, <2>1, <2>2 DEF Anchored
  <2>3. CASE s_res_map[b] # << >>
    <3>1. \E h \in Ptr : Owns(h, b) /\ h # m /\ Above(h, key)
      <4>1. PICK h \in Ptr : Owns(h, b) /\ Stays(h, T)
        BY <1>1, <1>11, <2>3 DEF Anchored
      <4>2. Above(h, key)
        BY <4>1 DEF Stays, Frees
      <4>3. CASE h # m
        BY <4>1, <4>2, <4>3
      <4>4. CASE h = m
        <5>1. b = key
          BY <1>7, <4>1, <4>4 DEF IInv, MapAgrees
        <5>2. Len(s_res_map[key]) >= 2
          BY <1>1, <1>11, <5>1 DEF Turn
        <5>3. PICK i \in DOMAIN s_res_map[key] : i # T.i
          <6>1. 1 \in DOMAIN s_res_map[key] /\ 2 \in DOMAIN s_res_map[key]
            BY <1>1, <5>2
          <6> QED BY <6>1, 1 # 2
        <5>4. s_res_map[key][i] # m
          BY <5>3 DEF IInv, ListedOnce
        <5>5. s_res_map[key][i] \in Ptr /\ Owns(s_res_map[key][i], key)
          BY <1>1 DEF Owns, Contains
        <5>6. Above(s_res_map[key][i], key)
          <6>1. m_raw[s_res_map[key][i]] = key
            BY <5>5 DEF IInv, MapAgrees
          <6> QED BY <1>7, <5>5, <6>1, AboveOwn DEF IInv, OwnersLive
        <5> QED BY <5>1, <5>4, <5>5, <5>6
      <4> QED BY <4>3, <4>4
    <3>2. PICK h \in Ptr : Owns(h, b) /\ h # m /\ Above(h, key)
      BY <3>1
    <3>3. Owns(h, b)'
      BY <1>6, <3>2 DEF Owns
    <3>4. \A j \in DOMAIN stack' : Stays(h, stack'[j])
      BY <1>4, <1>7, <3>2 DEF Stays, Frees
    <3>5. \A j \in DOMAIN stack' : Stays(h, stack[j])'
      BY <1>6, <3>4 DEF Stays, Frees, Above
    <3> QED BY <2>1, <3>3, <3>5 DEF Anchored
  <2> QED BY <2>2, <2>3
<1>12. LoopsAgree'
  <2> SUFFICES Turn(E)'
    BY <1>4 DEF LoopsAgree, Turn, Awaits
  <2>1. Awaits(key)' /\ ~ Awaits(key)
    BY <1>1, <1>4, <1>6, <1>7 DEF Awaits, Owns
  <2>2. Turn(T) /\ Len(s_res_map[key]) \in Nat /\ T.i - 1 + 1 = T.i
    BY <1>1
  <2> QED BY <1>1, <1>4, <1>5, <1>6, <1>7, <2>1, <2>2 DEF Turn, Owns
<1>13. \A i \in DOMAIN new : \/ i = 1 /\ new[i] = U
                             \/ i = 2 /\ new[i] = E
  BY <1>2
<1>14. \A q \in Ptr : ~ Resets(U, q) /\ ~ Resets(E, q)
  BY DEF Resets
<1>15. ~ 2 \in DOMAIN stack
  BY <1>1
<1>16. \A i \in DOMAIN new : i + 1 \in DOMAIN new => i = 1
  BY <1>2
<1>17. \A i, j \in DOMAIN new : i < j => Before(new[i], new[j])
  BY <1>10, <1>13
<1>18. \A i \in DOMAIN new : i + 1 \in DOMAIN new => Adjacent(new[i], new[i + 1])
  BY <1>2, <1>10, <1>16, 1 + 1 = 2
<1>19. \A b \in Addr : T.op \in Linking /\ T.a = b =>
           \E i \in DOMAIN new : new[i].op \in Linking /\ new[i].a = b
  BY <1>2
<1> QED BY <1>1, <1>2, <1>9, <1>11, <1>12, <1>13, <1>14, <1>15, <1>17, <1>18, <1>19, StackStep

\* The loop never asks for a member that the group has not.
LEMMA EachStep ==
    ASSUME IInv, NEW t \in Thread, Each(t)
    PROVE  IInv'
<1> DEFINE T == Head(work[t])
           m == s_res_map[T.key][T.i]
           U == IF T.op = "each_link" THEN [op |-> "link", p |-> m, a |-> T.a]
                                      ELSE [op |-> "unlink", p |-> m]
           E == [T EXCEPT !.i = @ - 1]
<1>1. PICK op \in Looping : Does(t, op)
  BY DEF Each
<1>2. T \in Task /\ T.op = op /\ T.op \in Looping /\ Does(t, T.op)
  BY <1>1, Doing
<1>3. T.key \in Addr /\ T.i \in Nat /\ s_res_map[T.key] \in Seq(Ptr) /\ T.i <= Len(s_res_map[T.key])
  BY <1>2, LoopTop
<1>4. CASE T.i = 0
  <2>1. Continue(t, << >>) /\ UNCHANGED heap
    BY <1>3, <1>4 DEF Each, LoopEnds
  <2> QED BY <1>2, <1>4, <2>1, EachEndStep
<1>5. CASE T.i # 0
  <2>1. T.i \in DOMAIN s_res_map[T.key] /\ m \in Ptr
    BY <1>3, <1>5
  <2>2. Continue(t, <<U, E>>) /\ UNCHANGED heap
    BY <1>5, <2>1 DEF Each, LoopEnds
  <2>3. U \in Task /\ U.op = (IF T.op = "each_link" THEN "link" ELSE "unlink") /\ U.p = m
        /\ (U.op = "link" => U.a = T.a)
    BY <1>2, <2>1, TaskMade, TaskShape
  <2>4. E \in Task /\ E.op = T.op /\ E.key = T.key /\ E.i = T.i - 1
        /\ (E.op = "each_link" => E.a = T.a)
    BY <1>2, <1>3, <1>5 DEF Task
  <2> HIDE DEF U, E, m
  <2>5. m = s_res_map[T.key][T.i]
    BY DEF m
  <2> QED BY <1>2, <1>3, <2>1, <2>2, <2>3, <2>4, <2>5, EachTurnStep
<1> QED BY <1>4, <1>5

-----------------------------------------------------------------------------
(* The mutex *)

\* Nobody has anything to do while the mutex is free.
LEMMA Idle ==
    ASSUME IInv, holder = Nobody
    PROVE  /\ \A u \in Thread : work[u] = << >>
           /\ stack = << >> /\ Doomed = {} /\ Clearing = {}
           /\ \A u \in Thread, a \in Addr :
                 Wants(u, a) <=> call[u].op \in Linking /\ call[u].a = a
<1>1. \A u \in Thread : work[u] = << >>
  BY NullAssumption DEF IInv, Threads
<1>2. stack = << >> /\ Doomed = {} /\ Clearing = {}
  BY DEF stack, Doomed, Clearing
<1> QED BY <1>1, <1>2 DEF Wants

\* A thread takes the mutex with the task of its call.
LEMMA AcquireStep ==
    ASSUME IInv, NEW t \in Thread, Acquire(t)
    PROVE  IInv'
<1>0. PICK C : C = call[t]
  OBVIOUS
<1>1. /\ C # NoCall /\ holder = Nobody /\ holder' = t
      /\ work' = [work EXCEPT ![t] = <<C>>]
      /\ call' = [call EXCEPT ![t] = NoCall]
      /\ s_res_map' = s_res_map /\ m_raw' = m_raw /\ alive' = alive /\ broken' = broken
  BY <1>0 DEF Acquire, heap
<1>2. /\ \A u \in Thread : work[u] = << >>
      /\ Doomed = {} /\ Clearing = {}
  BY <1>1, Idle
<1>3. /\ C \in Task /\ Ready(C) /\ C.op \in {"link", "unlink"} \cup Grouping
      /\ C.op \in Linking /\ C.a # Null => CallAnchored(t, C.a)
      /\ Solo \/ (/\ C.op \in {"link", "unlink"} /\ C.p \in AppPtr
                  /\ \E o \in Ops : o.t = t /\ o.p = C.p)
  BY <1>0, <1>1 DEF IInv, TypeOK, CallsReady
<1>4. t # Nobody
  BY NullAssumption
<1>5. /\ work'[t] = <<C>> /\ call'[t] = NoCall
      /\ \A u \in Thread : u # t => work'[u] = << >> /\ call'[u] = call[u]
  BY <1>1, <1>2 DEF IInv, TypeOK
<1>6. stack' = <<C>>
  BY <1>1, <1>4, <1>5 DEF stack
<1>7. stack' \in Seq(Task) /\ Len(stack') = 1 /\ stack'[1] = C /\ \A k \in DOMAIN stack' : k = 1
  BY <1>3, <1>6
<1>8. Doomed' = {} /\ Clearing' = {}
  BY <1>3, <1>7 DEF Doomed, Clearing
<1>9. TypeOK'
  <2>1. work' \in [Thread -> Seq(Task)]
    BY <1>1, <1>3 DEF IInv, TypeOK
  <2>2. call' \in [Thread -> Task \cup {NoCall}]
    BY <1>1 DEF IInv, TypeOK
  <2> QED BY <1>1, <2>1, <2>2 DEF IInv, TypeOK
<1>10. Threads'
  <2>1. \A u \in Thread : call'[u] # NoCall \/ u = t => call[u] # NoCall
    BY <1>0, <1>1, <1>5
  <2> QED BY <1>1, <1>5, <2>1 DEF IInv, Threads
<1>11. Targeted'
  <2>1. CASE Solo
    BY <2>1 DEF Targeted, Solo
  <2>2. CASE ~ Solo
    BY <1>1, <1>3, <1>7, <2>2 DEF Targeted
  <2> QED BY <2>1, <2>2
<1>12. MapAgrees' /\ ListedOnce' /\ OwnersLive' /\ OwnedIsAlive' /\ DoomedIsUnowned'
  BY <1>1, <1>2, <1>8 DEF IInv, MapAgrees, Owns, ListedOnce, OwnersLive, Lives, OwnedIsAlive,
                          DoomedIsUnowned
<1>13. ASSUME NEW u \in Thread, NEW a \in Addr PROVE Wants(u, a)' <=> Wants(u, a)
  <2>1. CASE u = t
    <3>1. Wants(u, a) <=> C.op \in Linking /\ C.a = a
      BY <1>0, <1>1, <2>1, Idle
    <3>2. call'[u].op \notin Linking
      BY <1>5, <2>1 DEF NoCall
    <3>3. DOMAIN work'[u] = {1} /\ work'[u][1] = C
      BY <1>5, <2>1
    <3> QED BY <3>1, <3>2, <3>3 DEF Wants
  <2>2. CASE u # t
    BY <1>2, <1>5, <2>2 DEF Wants
  <2> QED BY <2>1, <2>2
<1>14. NothingLeaks' /\ FreshOnce'
  <2>1. NothingLeaks'
    <3> SUFFICES ASSUME NEW a \in alive \ Doomed, s_res_map[a] = << >>
                 PROVE  \E u \in Thread : Wants(u, a)'
      BY <1>1, <1>2, <1>8 DEF NothingLeaks
    <3>1. a \in Addr
      BY DEF IInv, TypeOK
    <3>2. PICK u \in Thread : Wants(u, a)
      BY DEF IInv, NothingLeaks
    <3>3. Wants(u, a)'
      BY <1>13, <3>1, <3>2
    <3> QED BY <3>3
  <2>2. FreshOnce'
    BY <1>1, <1>13 DEF IInv, FreshOnce
  <2> QED BY <2>1, <2>2
<1>15. StackOrder' /\ StackAdjacent' /\ LastPointer' /\ StackResets' /\ StackNested' /\ LoopsAgree'
  <2>1. StackOrder' /\ StackAdjacent' /\ StackNested'
    BY <1>7 DEF StackOrder, StackAdjacent, StackNested
  <2>2. LastPointer' /\ StackResets' /\ LoopsAgree'
    BY <1>3, <1>7 DEF LastPointer, StackResets, LoopsAgree, Resets
  <2> QED BY <2>1, <2>2
<1>16. StackReady'
  <2>1. Ready(C)'
    BY <1>1, <1>3 DEF Ready, Lives
  <2>2. ASSUME C.op \in Linking, C.a # Null PROVE Anchored(C.a)'
    <3>1. PICK a \in Addr : C.a = a
      BY <1>3, <2>2, TaskShape
    <3>2. CallAnchored(t, a)
      BY <1>3, <2>2, <3>1
    <3>3. a \in alive' /\ a \notin Doomed'
      BY <1>1, <1>8, <3>2 DEF CallAnchored
    <3>4. CASE s_res_map[a] = << >>
      BY <1>1, <3>1, <3>3, <3>4 DEF Anchored
    <3>5. CASE s_res_map[a] # << >>
      <4>1. PICK h \in AppPtr : Owns(h, a) /\ h # C.p
        BY <1>0, <3>2, <3>5 DEF CallAnchored
      <4>2. h \in Ptr
        BY DEF Ptr
      <4>3. \A b \in Addr : Above(h, b)
        BY AppAbove
      <4>4. \A j \in DOMAIN stack' : Stays(h, stack[j])'
        BY <1>7, <4>1, <4>3 DEF Stays, Above
      <4>5. Owns(h, a)'
        BY <1>1, <4>1 DEF Owns
      <4>6. Anchored(a)'
        BY <3>3, <4>2, <4>4, <4>5 DEF Anchored
      <4> QED BY <3>1, <4>6
    <3> QED BY <3>4, <3>5
  <2> QED BY <1>7, <2>1, <2>2 DEF StackReady, Anchored, Ready
<1>17. CallsReady'
  <2> SUFFICES ASSUME NEW u \in Thread, u # t, call[u] # NoCall
               PROVE  /\ call[u].op \in {"link", "unlink"} \cup Grouping
                      /\ Ready(call[u])'
                      /\ call[u].op \in Linking /\ call[u].a # Null => CallAnchored(u, call[u].a)'
                      /\ Solo \/ (/\ call[u].op \in {"link", "unlink"} /\ call[u].p \in AppPtr
                                  /\ \E o \in Ops : o.t = u /\ o.p = call[u].p)
    BY <1>5 DEF CallsReady, Ready, CallAnchored, Solo
  <2>1. Ready(call[u])' <=> Ready(call[u])
    BY <1>1, <1>5 DEF Ready, Lives
  <2>2. CallAnchored(u, call[u].a) => CallAnchored(u, call[u].a)'
    BY <1>1, <1>5, <1>8 DEF CallAnchored, Owns
  <2> QED BY <1>5, <2>1, <2>2 DEF IInv, CallsReady
<1> QED BY <1>1, <1>9, <1>10, <1>11, <1>12, <1>14, <1>15, <1>16, <1>17 DEF IInv

\* A thread that has done its tasks frees the mutex.
LEMMA ReleaseStep ==
    ASSUME IInv, NEW t \in Thread, Release(t)
    PROVE  IInv'
<1>1. /\ holder = t /\ work[t] = << >> /\ holder' = Nobody /\ call' = call /\ work' = work
      /\ s_res_map' = s_res_map /\ m_raw' = m_raw /\ alive' = alive /\ broken' = broken
  BY DEF Release, heap
<1>2. stack = << >> /\ stack' = << >>
  BY <1>1 DEF stack
<1>3. Doomed' = Doomed /\ Clearing' = Clearing
  BY <1>2 DEF Doomed, Clearing
<1>4. TypeOK'
  BY <1>1 DEF IInv, TypeOK
<1>5. Threads'
  BY <1>1, NullAssumption DEF IInv, Threads
<1>6. MapAgrees' /\ ListedOnce' /\ OwnersLive' /\ OwnedIsAlive' /\ DoomedIsUnowned'
  BY <1>1, <1>3, HeapKept DEF IInv, heap
<1>7. NothingLeaks' /\ FreshOnce'
  BY <1>1, <1>3 DEF IInv, NothingLeaks, FreshOnce, Wants
<1>8. /\ StackOrder' /\ StackAdjacent' /\ LastPointer' /\ StackResets' /\ StackNested' /\ StackReady'
      /\ LoopsAgree' /\ Targeted'
  BY <1>2 DEF StackOrder, StackAdjacent, LastPointer, StackResets, StackNested, StackReady, LoopsAgree,
              Targeted
<1>9. CallsReady'
  BY <1>1, <1>3 DEF IInv, CallsReady, Ready, Lives, CallAnchored, Owns, Solo
<1> QED BY <1>1, <1>4, <1>5, <1>6, <1>7, <1>8, <1>9 DEF IInv

-----------------------------------------------------------------------------
(* The calls *)

\* What a thread wants to link is there.
LEMMA WantedIsAlive ==
    ASSUME IInv, NEW u \in Thread, NEW a \in Addr, Wants(u, a)
    PROVE  a \in alive
<1>1. a # Null
  BY NullAssumption
<1>2. CASE call[u].op \in Linking /\ call[u].a = a
  BY <1>1, <1>2 DEF IInv, CallsReady, CallAnchored, NoCall
<1>3. CASE \E j \in DOMAIN work[u] : work[u][j].op \in Linking /\ work[u][j].a = a
  <2>1. PICK j \in DOMAIN work[u] : work[u][j].op \in Linking /\ work[u][j].a = a
    BY <1>3
  <2>2. work[u] # << >>
    BY <2>1
  <2>3. stack = work[u]
    BY <2>2, NullAssumption DEF IInv, Threads, stack
  <2> QED BY <1>1, <2>1, <2>3 DEF IInv, StackReady, Anchored
<1> QED BY <1>2, <1>3 DEF Wants

\* The only thread finds the mutex free.
LEMMA SoloIdle ==
    ASSUME IInv, Solo, NEW o \in Ops, holder # o.t
    PROVE  holder = Nobody /\ Clearing = {} /\ Doomed = {}
<1>1. holder = Nobody
  BY DEF IInv, TypeOK, Threads, Solo
<1> QED BY <1>1, Idle

\* A thread makes a call.
LEMMA CallStep ==
    ASSUME IInv, NEW o \in Ops, NEW t \in Thread, o.t = t,
           call[t] = NoCall, work[t] = << >>, holder # t,
           NEW C \in Task, call' = [call EXCEPT ![t] = C],
           s_res_map' = s_res_map, m_raw' = m_raw, holder' = holder, work' = work, broken' = broken,
           alive \subseteq alive', alive' \subseteq Addr,
           \A a \in alive' \ alive : C.op \in Linking /\ C.a = a,
           \A a \in Addr : C.op \in Linking /\ C.a = a =>
               /\ a \in alive' /\ a \notin Doomed
               /\ \/ s_res_map[a] = << >> /\ \A u \in Thread : ~ Wants(u, a)
                  \/ /\ s_res_map[a] # << >>
                     /\ \E h \in AppPtr : /\ Owns(h, a) /\ h # C.p
                                          /\ \A u \in Ops : u.t # t => u.p # h,
           C.op \in {"link", "unlink"} \cup Grouping, C.p = o.p, Ready(C)',
           Solo \/ (C.op \in {"link", "unlink"} /\ C.p \in AppPtr)
    PROVE  IInv'
<1>1. call'[t] = C /\ \A u \in Thread : u # t => call'[u] = call[u]
  BY DEF IInv, TypeOK
<1>2. stack' = stack /\ Doomed' = Doomed /\ Clearing' = Clearing
  BY DEF stack, Doomed, Clearing
<1>3. C # NoCall
  BY DEF NoCall
<1>4. TypeOK'
  BY DEF IInv, TypeOK
<1>5. Threads'
  BY <1>1 DEF IInv, Threads
<1>6. Targeted'
  BY <1>2 DEF IInv, Targeted, Solo
<1>7. \A p \in Ptr : Lives(p) => Lives(p)'
  BY DEF Lives
<1>8. MapAgrees' /\ ListedOnce' /\ OwnersLive' /\ OwnedIsAlive' /\ DoomedIsUnowned'
  BY <1>2, <1>7 DEF IInv, MapAgrees, Owns, ListedOnce, OwnersLive, OwnedIsAlive, DoomedIsUnowned
<1>9. ASSUME NEW u \in Thread, NEW a \in Addr
      PROVE  /\ u # t => (Wants(u, a)' <=> Wants(u, a))
             /\ ~ Wants(t, a)
             /\ Wants(t, a)' <=> C.op \in Linking /\ C.a = a
  BY <1>1 DEF Wants, NoCall
<1>10. NothingLeaks'
  <2> SUFFICES ASSUME NEW a \in alive', a \notin Doomed, s_res_map[a] = << >>
               PROVE  \E u \in Thread : Wants(u, a)'
    BY <1>2 DEF NothingLeaks
  <2>1. CASE a \in alive
    <3>1. PICK u \in Thread : Wants(u, a)
      BY <2>1 DEF IInv, NothingLeaks
    <3>2. Wants(u, a)'
      BY <1>9, <3>1
    <3> QED BY <3>2
  <2>2. CASE a \notin alive
    BY <1>9, <2>2
  <2> QED BY <2>1, <2>2
<1>11. FreshOnce'
  <2> SUFFICES ASSUME NEW u \in Thread, NEW v \in Thread, NEW a \in Addr, u # v,
                      Wants(u, a)', Wants(v, a)'
               PROVE  s_res_map[a] # << >>
    BY DEF FreshOnce
  <2>1. CASE u # t /\ v # t
    BY <1>9, <2>1 DEF IInv, FreshOnce
  <2>2. CASE u = t
    BY <1>9, <2>2
  <2>3. CASE v = t
    BY <1>9, <2>3
  <2> QED BY <2>1, <2>2, <2>3
<1>12. StackOrder' /\ StackAdjacent' /\ LastPointer' /\ StackResets' /\ StackNested' /\ LoopsAgree'
  <2>1. StackOrder'
    BY <1>2 DEF IInv, StackOrder, Before, Frees, Above
  <2>2. StackAdjacent' /\ LastPointer' /\ StackResets' /\ StackNested'
    BY <1>2 DEF IInv, StackAdjacent, Adjacent, LastPointer, StackResets, Resets, StackNested
  <2>3. LoopsAgree'
    BY <1>2 DEF IInv, LoopsAgree, Turn, Awaits, Owns
  <2> QED BY <2>1, <2>2, <2>3
<1>13. StackReady'
  <2> SUFFICES ASSUME NEW j \in DOMAIN stack, NEW T \in Task, T = stack[j]
               PROVE  /\ Ready(T)'
                      /\ T.op \in Linking /\ T.a # Null =>
                             \E a \in Addr : a = T.a /\ Anchored(a)'
    <3>1. \A j \in DOMAIN stack : stack[j] \in Task
      BY DEF IInv, TypeOK, stack
    <3> QED BY <1>2, <3>1 DEF StackReady, Ready, Anchored
  <2>1. Ready(T) => Ready(T)'
    BY <1>7, TaskShape DEF Ready
  <2>2. ASSUME NEW a \in Addr, Anchored(a) PROVE Anchored(a)'
    <3>1. a \in alive' /\ a \notin Doomed'
      BY <1>2, <2>2 DEF Anchored
    <3>2. \A h \in Ptr : Owns(h, a)' <=> Owns(h, a)
      BY DEF Owns
    <3>3. \A h \in Ptr, k \in DOMAIN stack : Stays(h, stack[k])' <=> Stays(h, stack[k])
      BY <1>2 DEF Stays, Frees, Above
    <3> QED BY <1>2, <2>2, <3>1, <3>2, <3>3 DEF Anchored
  <2> QED BY <2>1, <2>2, TaskShape DEF IInv, StackReady
<1>14. CallsReady'
  <2>1. ASSUME NEW u \in Thread, u # t, call[u] # NoCall
        PROVE  /\ call[u].op \in {"link", "unlink"} \cup Grouping
               /\ Ready(call[u])'
               /\ call[u].op \in Linking /\ call[u].a # Null => CallAnchored(u, call[u].a)'
               /\ Solo \/ (/\ call[u].op \in {"link", "unlink"} /\ call[u].p \in AppPtr
                           /\ \E v \in Ops : v.t = u /\ v.p = call[u].p)
    <3>1. call[u] \in Task
      BY <2>1 DEF IInv, TypeOK
    <3>2. Ready(call[u]) => Ready(call[u])'
      BY <1>1, <1>7, <2>1, <3>1, TaskShape DEF Ready
    <3>3. CallAnchored(u, call[u].a) => CallAnchored(u, call[u].a)'
      BY <1>1, <1>2, <2>1 DEF CallAnchored, Owns
    <3> QED BY <1>1, <2>1, <3>2, <3>3 DEF IInv, CallsReady
  <2>2. C.op \in Linking /\ C.a # Null => CallAnchored(t, C.a)'
    <3> SUFFICES ASSUME C.op \in Linking, C.a # Null PROVE CallAnchored(t, C.a)'
      OBVIOUS
    <3>1. PICK a \in Addr : C.a = a
      BY TaskShape
    <3>2. CallAnchored(t, a)'
      BY <1>1, <1>2, <3>1 DEF CallAnchored, Owns
    <3> QED BY <3>1, <3>2
  <2> QED BY <1>1, <2>1, <2>2 DEF CallsReady, Ready, CallAnchored, Solo
<1> QED BY <1>4, <1>5, <1>6, <1>8, <1>10, <1>11, <1>12, <1>13, <1>14 DEF IInv

\* The tasks of the operations.
LEMMA CallMade ==
    ASSUME NEW o \in Ops, NEW a \in Addr \cup {Null}
    PROVE  LET C == CallOf(o, a) IN
           /\ C \in Task /\ C.p = o.p
           /\ o.op \in {"new", "copy"} => C.op = "link" /\ C.a = a
           /\ o.op = "reset" => C.op = "unlink"
           /\ o.op \in {"group_new", "group_copy"} => C.op = "group_link" /\ C.a = a
           /\ o.op = "group_reset" => C.op = "group_unlink"
<1>1. o.p \in Ptr /\ o.op \in OpName
  BY OpsAssumption
<1>2. CASE o.op \in {"new", "copy"}
  BY <1>1, <1>2, TaskMade DEF CallOf
<1>3. CASE o.op = "reset"
  BY <1>1, <1>3, TaskMade DEF CallOf
<1>4. CASE o.op \in {"group_new", "group_copy"}
  BY <1>1, <1>4, TaskMade DEF CallOf
<1>5. CASE o.op = "group_reset"
  BY <1>1, <1>5, TaskMade DEF CallOf
<1> QED BY <1>1, <1>2, <1>3, <1>4, <1>5 DEF OpName

\* What the application may call finds its ptrs ready.
LEMMA AllowedIsReady ==
    ASSUME IInv, NEW o \in Ops, holder # o.t, Solo \/ o.op \in {"new", "copy", "reset"},
           NEW a \in Addr \cup {Null}, Allowed(o, a), m_raw' = m_raw, alive \subseteq alive',
           NEW C \in Task, C = CallOf(o, a)
    PROVE  Ready(C)'
<1>1. o.p \in Ptr /\ o.op \in OpName
  BY OpsAssumption
<1>2. Lives(o.p)'
  BY DEF Allowed, Lives
<1>3. CASE o.op \in {"new", "copy", "reset"}
  BY <1>2, <1>3, CallMade DEF Ready, Allowed
<1>4. CASE o.op \in {"group_new", "group_copy", "group_reset"}
  <2>1. Clearing = {}
    BY <1>4, SoloIdle
  <2>2. m_raw[o.p] # Null /\ m_raw[o.p] \in Addr
    BY <1>1, <1>4 DEF Allowed, IInv, TypeOK
  <2>3. ASSUME NEW h \in Ptr, m_raw[h] = m_raw[o.p], o.op \in {"group_new", "group_copy"}
        PROVE  a \in MayOwn[h] \cup {Null}
    <3>1. Owns(h, m_raw[o.p])
      BY <2>1, <2>2, <2>3 DEF IInv, MapAgrees
    <3>2. h \in ToSet(s_res_map[m_raw[o.p]])
      BY <2>2, <3>1 DEF ToSet, Owns, Contains, IInv, TypeOK
    <3> QED BY <2>2, <2>3, <3>2 DEF Allowed
  <2> QED BY <1>2, <1>4, <2>2, <2>3, CallMade DEF Ready
<1> QED BY <1>1, <1>3, <1>4 DEF OpName

\* What a disciplined application promises of one operation.
LEMMA DisciplinedOps ==
    ASSUME Disciplined(Ops), NEW o \in Ops
    PROVE  /\ o.op \in {"copy", "group_copy"} => o.q \in AppPtr \ {o.p}
           /\ Solo \/ (o.op \in {"new", "copy", "reset"} /\ o.p \in AppPtr)
           /\ o.op \in {"copy", "group_copy"} => \A u \in Ops : u.t # o.t => u.p # o.q
BY DEF Disciplined, Solo

\* An operation of a disciplined application calls for what it may.
LEMMA BeginStep ==
    ASSUME IInv, Disciplined(Ops), NEW o \in Ops, Begin(o.t, o)
    PROVE  IInv'
<1>1. PICK t \in Thread : o.t = t
  BY OpsAssumption
<1>2. /\ call[t] = NoCall /\ work[t] = << >> /\ holder # t
      /\ s_res_map' = s_res_map /\ m_raw' = m_raw /\ holder' = holder /\ work' = work
      /\ broken' = broken
  BY <1>1 DEF Begin
<1>3. o.p \in Ptr /\ o.q \in Ptr /\ o.op \in OpName
  BY OpsAssumption
<1>4. /\ o.op \in {"copy", "group_copy"} => o.q \in AppPtr \ {o.p}
      /\ Solo \/ (o.op \in {"new", "copy", "reset"} /\ o.p \in AppPtr)
      /\ o.op \in {"copy", "group_copy"} => \A u \in Ops : u.t # t => u.p # o.q
  BY <1>1, DisciplinedOps
<1>5. CASE /\ o.op \in {"new", "group_new"}
           /\ \E a \in Addr \ alive :
                 /\ Allowed(o, a)
                 /\ call' = [call EXCEPT ![t] = CallOf(o, a)]
                 /\ alive' = alive \cup {a}
  <2>1. PICK a \in Addr \ alive :
            /\ Allowed(o, a)
            /\ call' = [call EXCEPT ![t] = CallOf(o, a)]
            /\ alive' = alive \cup {a}
    BY <1>5
  <2>2. PICK C \in Task : C = CallOf(o, a)
    BY CallMade
  <2>3. C.p = o.p /\ C.op \in {"link", "group_link"} /\ C.a = a
        /\ (Solo \/ (C.op = "link" /\ C.p \in AppPtr))
    BY <1>4, <1>5, <2>2, CallMade
  <2>4. Ready(C)'
    BY <1>1, <1>2, <1>4, <2>1, <2>2, AllowedIsReady
  <2>5. s_res_map[a] = << >> /\ a \notin Doomed
    BY <2>1 DEF IInv, OwnedIsAlive, DoomedIsUnowned
  <2>6. \A u \in Thread : ~ Wants(u, a)
    BY <2>1, WantedIsAlive
  <2>7. alive \subseteq alive' /\ alive' \subseteq Addr /\ a \in alive' /\ \A b \in alive' \ alive : b = a
    BY <2>1 DEF IInv, TypeOK
  <2>8. call' = [call EXCEPT ![t] = C]
    BY <2>1, <2>2
  <2>9. \A b \in Addr : C.op \in Linking /\ C.a = b =>
            b \in alive' /\ b \notin Doomed /\ s_res_map[b] = << >> /\ \A u \in Thread : ~ Wants(u, b)
    BY <2>3, <2>5, <2>6, <2>7
  <2>10. /\ \A b \in alive' \ alive : C.op \in Linking /\ C.a = b
         /\ C.op \in {"link", "unlink"} \cup Grouping
         /\ Solo \/ (C.op \in {"link", "unlink"} /\ C.p \in AppPtr)
    BY <2>3, <2>7
  <2> QED BY <1>1, <1>2, <2>3, <2>4, <2>7, <2>8, <2>9, <2>10, CallStep
<1>6. CASE /\ o.op \in {"copy", "group_copy"}
           /\ Lives(o.q) /\ Allowed(o, m_raw[o.q])
           /\ call' = [call EXCEPT ![t] = CallOf(o, m_raw[o.q])]
           /\ UNCHANGED alive
  <2>1. PICK a \in Addr \cup {Null} : a = m_raw[o.q]
    BY <1>3 DEF IInv, TypeOK
  <2>2. PICK C \in Task : C = CallOf(o, a)
    BY CallMade
  <2>3. C.p = o.p /\ C.op \in {"link", "group_link"} /\ C.a = a
        /\ (Solo \/ (C.op = "link" /\ C.p \in AppPtr))
    BY <1>4, <1>6, <2>2, CallMade
  <2>4. Ready(C)'
    BY <1>1, <1>2, <1>4, <1>6, <2>1, <2>2, AllowedIsReady
  <2>5. o.q \notin Clearing
    <3>1. CASE Solo
      BY <1>1, <1>2, <3>1, SoloIdle
    <3>2. CASE ~ Solo
      <4> SUFFICES ASSUME NEW j \in DOMAIN stack, stack[j].op = "clear", stack[j].p = o.q
                   PROVE  FALSE
        BY DEF Clearing
      <4>1. PICK u \in Ops : u.t = holder /\ u.p = o.q
        BY <1>4, <1>6, <3>2 DEF IInv, Targeted
      <4> QED BY <1>2, <1>4, <1>6, <4>1
    <3> QED BY <3>1, <3>2
  <2>6. ASSUME a # Null
        PROVE  /\ a \in alive /\ a \notin Doomed /\ s_res_map[a] # << >>
               /\ o.q \in AppPtr /\ Owns(o.q, a) /\ o.q # C.p
               /\ \A u \in Ops : u.t # t => u.p # o.q
    <3>1. a \in Addr /\ Owns(o.q, a)
      BY <1>3, <2>1, <2>5, <2>6 DEF IInv, MapAgrees
    <3>2. s_res_map[a] # << >>
      BY <3>1 DEF Owns, Contains
    <3>3. a \in alive /\ a \notin Doomed
      BY <3>1, <3>2 DEF IInv, OwnedIsAlive, DoomedIsUnowned
    <3> QED BY <1>4, <1>6, <2>3, <3>1, <3>2, <3>3
  <2>7. call' = [call EXCEPT ![t] = C] /\ alive' = alive /\ alive \subseteq Addr
    BY <1>6, <2>1, <2>2 DEF IInv, TypeOK
  <2>8. \A b \in Addr : C.op \in Linking /\ C.a = b =>
            /\ b \in alive' /\ b \notin Doomed /\ s_res_map[b] # << >>
            /\ \E h \in AppPtr : /\ Owns(h, b) /\ h # C.p
                                 /\ \A u \in Ops : u.t # t => u.p # h
    <3> SUFFICES ASSUME NEW b \in Addr, b = a
                 PROVE  /\ b \in alive' /\ b \notin Doomed /\ s_res_map[b] # << >>
                        /\ \E h \in AppPtr : /\ Owns(h, b) /\ h # C.p
                                             /\ \A u \in Ops : u.t # t => u.p # h
      BY <2>3
    <3>1. a # Null
      BY NullAssumption
    <3> QED BY <2>6, <2>7, <3>1
  <2>9. /\ \A b \in alive' \ alive : C.op \in Linking /\ C.a = b
        /\ C.op \in {"link", "unlink"} \cup Grouping
        /\ Solo \/ (C.op \in {"link", "unlink"} /\ C.p \in AppPtr)
    BY <2>3, <2>7
  <2>10. \A b \in Addr : C.op \in Linking /\ C.a = b =>
             /\ b \in alive' /\ b \notin Doomed
             /\ \/ s_res_map[b] = << >> /\ \A u \in Thread : ~ Wants(u, b)
                \/ /\ s_res_map[b] # << >>
                   /\ \E h \in AppPtr : /\ Owns(h, b) /\ h # C.p
                                        /\ \A u \in Ops : u.t # t => u.p # h
    BY <2>8, Zenon
  <2>11. alive \subseteq alive' /\ alive' \subseteq Addr
    BY <2>7
  <2> QED BY <1>1, <1>2, <2>3, <2>4, <2>7, <2>9, <2>10, <2>11, CallStep
<1>7. CASE /\ o.op \in {"reset", "group_reset"}
           /\ Allowed(o, Null)
           /\ call' = [call EXCEPT ![t] = CallOf(o, Null)]
           /\ UNCHANGED alive
  <2>1. PICK C \in Task : C = CallOf(o, Null)
    BY CallMade
  <2>2. C.p = o.p /\ C.op \in {"unlink", "group_unlink"}
        /\ (Solo \/ (C.op = "unlink" /\ C.p \in AppPtr))
    BY <1>4, <1>7, <2>1, CallMade
  <2>3. Ready(C)'
    BY <1>1, <1>2, <1>4, <1>7, <2>1, AllowedIsReady
  <2>4. call' = [call EXCEPT ![t] = C] /\ alive' = alive /\ alive \subseteq Addr
    BY <1>7, <2>1 DEF IInv, TypeOK
  <2> QED BY <1>1, <1>2, <2>2, <2>3, <2>4, CallStep
<1> QED BY <1>1, <1>5, <1>6, <1>7 DEF Begin

-----------------------------------------------------------------------------
(* The initial states and the steps *)

\* The variables that are linked at the start are in their groups.
LEMMA InitIInv == Init => IInv
<1> SUFFICES ASSUME Init PROVE IInv
  OBVIOUS
<1>1. /\ s_res_map = [a \in Addr |-> Linked[a]]
      /\ alive = {a \in Addr : Linked[a] # << >>}
      /\ holder = Nobody /\ call = [u \in Thread |-> NoCall] /\ work = [u \in Thread |-> << >>]
      /\ broken = FALSE
  BY DEF Init
<1>2. stack = << >> /\ Doomed = {} /\ Clearing = {}
  BY <1>1 DEF stack, Doomed, Clearing
<1>3. \A a \in Addr : Linked[a] \in Seq(Ptr) /\ s_res_map[a] = Linked[a]
  <2>1. Seq(AppPtr) \subseteq Seq(Ptr)
    BY DEF Ptr
  <2> QED BY <1>1, <2>1, LinkedAssumption
<1>4. ASSUME NEW a \in Addr, NEW b \in Addr, NEW p, Contains(Linked[a], p), Contains(Linked[b], p)
      PROVE  a = b
  BY <1>4, <1>3, LinkedAssumption DEF Contains
<1>5. ASSUME NEW p \in Ptr
      PROVE  /\ m_raw[p] \in Addr \cup {Null}
             /\ \A a \in Addr : m_raw[p] = a <=> Contains(Linked[a], p)
  <2>1. m_raw[p] = IF \E a \in Addr : Contains(Linked[a], p)
                   THEN CHOOSE a \in Addr : Contains(Linked[a], p) ELSE Null
    BY DEF Init
  <2>2. CASE \E a \in Addr : Contains(Linked[a], p)
    <3>1. m_raw[p] \in Addr /\ Contains(Linked[m_raw[p]], p)
      BY <2>1, <2>2
    <3> QED BY <1>4, <3>1
  <2>3. CASE ~ \E a \in Addr : Contains(Linked[a], p)
    BY <2>1, <2>3, NullAssumption
  <2> QED BY <2>2, <2>3
<1>6. TypeOK
  <2>1. m_raw \in [Ptr -> Addr \cup {Null}]
    <3>1. m_raw = [p \in Ptr |-> m_raw[p]]
      BY DEF Init
    <3> QED BY <1>5, <3>1
  <2>2. s_res_map \in [Addr -> Seq(Ptr)]
    BY <1>1, <1>3
  <2>3. work \in [Thread -> Seq(Task)] /\ call \in [Thread -> Task \cup {NoCall}]
    BY <1>1
  <2>4. alive \subseteq Addr /\ holder \in Thread \cup {Nobody} /\ broken \in BOOLEAN
    BY <1>1
  <2> QED BY <2>1, <2>2, <2>3, <2>4 DEF TypeOK
<1>7. Threads /\ CallsReady /\ \A u \in Thread, a \in Addr : ~ Wants(u, a)
  <2>1. \A u \in Thread : call[u] = NoCall /\ work[u] = << >>
    BY <1>1
  <2>2. Threads /\ CallsReady
    BY <1>1, <2>1, NullAssumption DEF Threads, CallsReady
  <2>3. \A u \in Thread, a \in Addr : ~ Wants(u, a)
    BY <2>1 DEF Wants, NoCall
  <2> QED BY <2>2, <2>3
<1>8. MapAgrees
  BY <1>2, <1>3, <1>5 DEF MapAgrees, Owns
<1>9. ListedOnce
  BY <1>3, LinkedAssumption DEF ListedOnce
<1>10. OwnersLive
  <2> SUFFICES ASSUME NEW p \in Ptr, m_raw[p] # Null PROVE Lives(p) /\ m_raw[p] \in MayOwn[p]
    BY DEF OwnersLive
  <2>1. m_raw[p] \in Addr /\ Contains(Linked[m_raw[p]], p)
    BY <1>5
  <2>2. PICK i \in DOMAIN Linked[m_raw[p]] : Linked[m_raw[p]][i] = p
    BY <1>3, <2>1 DEF Contains
  <2> QED BY <2>1, <2>2, LinkedAssumption DEF Lives
<1>11. OwnedIsAlive /\ DoomedIsUnowned /\ NothingLeaks /\ FreshOnce
  BY <1>1, <1>2, <1>3, <1>7 DEF OwnedIsAlive, DoomedIsUnowned, NothingLeaks, FreshOnce
<1>12. /\ StackOrder /\ StackAdjacent /\ LastPointer /\ StackResets /\ StackNested /\ StackReady
       /\ LoopsAgree /\ Targeted
  BY <1>2 DEF StackOrder, StackAdjacent, LastPointer, StackResets, StackNested, StackReady, LoopsAgree,
              Targeted
<1> QED BY <1>1, <1>6, <1>7, <1>8, <1>9, <1>10, <1>11, <1>12 DEF IInv

\* A step that changes nothing.
LEMMA IdleStep ==
    ASSUME IInv, UNCHANGED vars
    PROVE  IInv'
<1>1. /\ s_res_map' = s_res_map /\ m_raw' = m_raw /\ alive' = alive /\ holder' = holder
      /\ call' = call /\ work' = work /\ broken' = broken
  BY DEF vars, heap
<1>2. stack' = stack /\ Doomed' = Doomed /\ Clearing' = Clearing
  BY <1>1 DEF stack, Doomed, Clearing
<1>3. TypeOK' /\ Threads' /\ Targeted'
  BY <1>1, <1>2 DEF IInv, TypeOK, Threads, Targeted, Solo
<1>4. MapAgrees' /\ ListedOnce' /\ OwnersLive' /\ OwnedIsAlive' /\ DoomedIsUnowned'
  BY <1>1, <1>2, HeapKept DEF IInv, heap
<1>5. NothingLeaks' /\ FreshOnce'
  BY <1>1, <1>2 DEF IInv, NothingLeaks, FreshOnce, Wants
<1>6. StackOrder'
  BY <1>1, <1>2 DEF IInv, StackOrder, Before, Frees, Above
<1>7. StackAdjacent' /\ LastPointer' /\ StackResets' /\ StackNested'
  BY <1>1, <1>2 DEF IInv, StackAdjacent, Adjacent, LastPointer, StackResets, Resets, StackNested
<1>8. LoopsAgree'
  BY <1>1, <1>2 DEF IInv, LoopsAgree, Turn, Awaits, Owns
<1>9. StackReady'
  BY <1>1, <1>2 DEF IInv, StackReady, Ready, Lives, Anchored, Owns, Stays, Frees, Above
<1>10. CallsReady'
  BY <1>1, <1>2 DEF IInv, CallsReady, Ready, Lives, CallAnchored, Owns, Solo
<1> QED BY <1>1, <1>3, <1>4, <1>5, <1>6, <1>7, <1>8, <1>9, <1>10 DEF IInv

\* Every step keeps the invariant.
LEMMA NextIInv ==
    ASSUME IInv, Disciplined(Ops), [Next]_vars
    PROVE  IInv'
<1>1. ASSUME NEW o \in Ops, Begin(o.t, o) PROVE IInv'
  BY <1>1, BeginStep
<1>2. ASSUME NEW t \in Thread, Execute(t) PROVE IInv'
  <2>1. CASE Acquire(t)
    BY <2>1, AcquireStep
  <2>2. CASE Release(t)
    BY <2>2, ReleaseStep
  <2>3. CASE Link(t)
    BY <2>3, LinkStep
  <2>4. CASE Join(t)
    BY <2>4, JoinStep
  <2>5. CASE Unlink(t)
    BY <2>5, UnlinkStep
  <2>6. CASE Delete(t)
    BY <2>6, DeleteStep
  <2>7. CASE Free(t)
    BY <2>7, FreeStep
  <2>8. CASE Clear(t)
    BY <2>8, ClearStep
  <2>9. CASE Group(t)
    BY <2>9, GroupStep
  <2>10. CASE Each(t)
    BY <2>10, EachStep
  <2> QED BY <1>2, <2>1, <2>2, <2>3, <2>4, <2>5, <2>6, <2>7, <2>8, <2>9, <2>10 DEF Execute
<1>3. CASE UNCHANGED vars
  BY <1>3, IdleStep
<1> QED BY <1>1, <1>2, <1>3 DEF Next

-----------------------------------------------------------------------------
(* What holds of every execution *)

\* Every step of an application that uses ptrs as Disciplined says keeps IInv.
THEOREM InductiveInvariant ==
    ASSUME Disciplined(Ops)
    PROVE  Spec => []IInv
<1>1. Init => IInv
  BY InitIInv
<1>2. IInv /\ [Next]_vars => IInv'
  BY NextIInv
<1> QED BY <1>1, <1>2, PTL DEF Spec

\* A sequence without repetitions has as many elements as positions.
LEMMA DistinctElements ==
    ASSUME NEW S, NEW s \in Seq(S), \A i, j \in DOMAIN s : s[i] = s[j] => i = j
    PROVE  Len(s) = Cardinality(ToSet(s))
<1> DEFINE n == Len(s)
<1>1. n \in Nat /\ DOMAIN s = 1 .. n
  OBVIOUS
<1>2. s \in [1 .. n -> ToSet(s)] /\ \A e \in ToSet(s) : \E i \in 1 .. n : s[i] = e
  BY <1>1 DEF ToSet
<1>3. s \in Bijection(1 .. n, ToSet(s))
  BY <1>1, <1>2 DEF Bijection, Injection, IsInjective, Surjection
<1> HIDE DEF n
<1>4. Cardinality(ToSet(s)) = n
  BY <1>1, <1>3, FS_CountingElements DEF ExistsBijection
<1> QED BY <1>4 DEF n

\* Whenever the mutex is free a group in s_res_map lists exactly the ptrs that
\* exist and hold its address, each of them once.
THEOREM GroupsAreOwnersHolds ==
    ASSUME Disciplined(Ops)
    PROVE  Spec => []GroupsAreOwners
<1>1. IInv => GroupsAreOwners
  <2> SUFFICES ASSUME IInv, holder = Nobody, NEW a \in Addr
               PROVE  /\ ToSet(s_res_map[a]) = {p \in Ptr : Lives(p) /\ m_raw[p] = a}
                      /\ Len(s_res_map[a]) = Cardinality(ToSet(s_res_map[a]))
    BY DEF GroupsAreOwners, IInv
  <2>1. s_res_map[a] \in Seq(Ptr) /\ a # Null
    BY NullAssumption DEF IInv, TypeOK
  <2>2. \A p : p \in ToSet(s_res_map[a]) <=> p \in Ptr /\ Owns(p, a)
    BY <2>1 DEF ToSet, Owns, Contains
  <2>3. \A p \in Ptr : Owns(p, a) <=> m_raw[p] = a
    BY Idle DEF IInv, MapAgrees
  <2>4. \A p \in Ptr : m_raw[p] = a => Lives(p)
    BY <2>1 DEF IInv, OwnersLive
  <2>5. ToSet(s_res_map[a]) = {p \in Ptr : Lives(p) /\ m_raw[p] = a}
    BY <2>2, <2>3, <2>4
  <2>6. Len(s_res_map[a]) = Cardinality(ToSet(s_res_map[a]))
    BY <2>1, DistinctElements DEF IInv, ListedOnce
  <2> QED BY <2>5, <2>6
<1> QED BY <1>1, InductiveInvariant, PTL

\* No cascade of destructors leaves an owner of freed memory, or an object that
\* nobody owns and nobody is about to link.
THEOREM OwnedExactlyWhileAliveHolds ==
    ASSUME Disciplined(Ops)
    PROVE  Spec => []OwnedExactlyWhileAlive
<1>1. IInv => OwnedExactlyWhileAlive
  <2> SUFFICES ASSUME IInv, holder = Nobody, NEW a \in Addr, a \in alive, s_res_map[a] = << >>
               PROVE  \E u \in Thread : Pending(u, a)
    BY DEF OwnedExactlyWhileAlive, IInv, OwnedIsAlive
  <2>1. PICK u \in Thread : Wants(u, a)
    BY Idle DEF IInv, NothingLeaks
  <2>2. call[u].op \in Linking /\ call[u].a = a
    BY <2>1, Idle
  <2>3. call[u] \in Task
    BY <2>2 DEF IInv, TypeOK, NoCall
  <2>4. "a" \in DOMAIN call[u]
    BY <2>2, <2>3 DEF Task
  <2> QED BY <2>2, <2>4 DEF Pending
<1> QED BY <1>1, InductiveInvariant, PTL

\* No operation deletes twice, writes to a ptr that went with its object, or
\* asks for a member past the end of a group.
THEOREM NeverBrokenHolds ==
    ASSUME Disciplined(Ops)
    PROVE  Spec => []NeverBroken
<1>1. IInv => NeverBroken
  BY DEF IInv, NeverBroken
<1> QED BY <1>1, InductiveInvariant, PTL

\* The address that a copy has read without the mutex is not deleted before the
\* copy has joined its group.
THEOREM CopiesStayValidHolds ==
    ASSUME Disciplined(Ops)
    PROVE  Spec => []CopiesStayValid
<1>1. IInv => CopiesStayValid
  <2> SUFFICES ASSUME IInv, NEW u \in Thread, NEW a \in Addr, Pending(u, a)
               PROVE  a \in alive
    BY DEF CopiesStayValid
  <2>1. "a" \in DOMAIN call[u] /\ call[u].a = a
    BY DEF Pending
  <2>2. call[u] # NoCall
    BY <2>1 DEF NoCall
  <2>3. call[u] \in Task
    BY <2>2 DEF IInv, TypeOK
  <2>4. call[u].op \in Linking
    BY <2>1, <2>2, <2>3, TaskShape DEF IInv, CallsReady
  <2> QED BY <2>1, <2>4, WantedIsAlive DEF Wants
<1> QED BY <1>1, InductiveInvariant, PTL

\* Only the memory of the doomed goes.
LEMMA OnlyFreeFrees ==
    ASSUME Next, NEW a \in alive \ alive'
    PROVE  \E t \in Thread : Free(t)
<1>1. ASSUME NEW t \in Thread, Execute(t), ~ Free(t) PROVE FALSE
  <2>1. alive' = alive
    BY <1>1 DEF Execute, Acquire, Release, Link, Join, Unlink, Delete, Clear, Group, Each, heap, Break
  <2> QED BY <2>1
<1>2. ASSUME NEW o \in Ops, Begin(o.t, o) PROVE FALSE
  BY <1>2 DEF Begin
<1> QED BY <1>1, <1>2 DEF Next

\* Memory is freed when at most one ptr holds its address: the one whose unlink()
\* deletes it.
THEOREM DeletedByLastOwnerHolds ==
    ASSUME Disciplined(Ops)
    PROVE  Spec => DeletedByLastOwner
<1>1. IInv /\ [Next]_vars =>
          [\A a \in alive \ alive' : Cardinality({p \in Ptr : Lives(p)' /\ m_raw[p] = a}) <= 1]_vars
  <2> SUFFICES ASSUME IInv, Next, NEW a \in alive \ alive'
               PROVE  Cardinality({p \in Ptr : Lives(p)' /\ m_raw[p] = a}) <= 1
    OBVIOUS
  <2> DEFINE S == {p \in Ptr : Lives(p)' /\ m_raw[p] = a}
  <2>1. PICK t \in Thread : Free(t)
    BY OnlyFreeFrees
  <2>2. Does(t, "free") /\ a = Head(work[t]).a
    BY <2>1 DEF Free
  <2>3. 1 \in DOMAIN stack /\ stack[1].op = "free" /\ stack[1].a = a
    BY <2>2, Doing
  <2>4. \A q \in Ptr : m_raw[q] = a => stack[2].p = q
    BY <2>3, 1 + 1 = 2 DEF IInv, LastPointer
  <2>5. S \in SUBSET {stack[2].p}
    BY <2>4
  <2>6. IsFiniteSet({stack[2].p}) /\ Cardinality({stack[2].p}) = 1
    BY FS_Singleton
  <2> HIDE DEF S
  <2>7. Cardinality(S) <= 1
    BY <2>5, <2>6, FS_Subset
  <2> QED BY <2>7 DEF S
<1> QED BY <1>1, InductiveInvariant, PTL DEF Spec, DeletedByLastOwner

\* What link() makes a ptr own exists.  Without the discipline it need not:
\* see p1 = p1->next in MCPtr and PtrNext.cfg.
THEOREM LinksToLiveResourceHolds ==
    ASSUME Disciplined(Ops)
    PROVE  Spec => LinksToLiveResource
<1>1. IInv /\ [Next]_vars =>
          [\A p \in Ptr : m_raw'[p] # m_raw[p] /\ m_raw'[p] # Null => m_raw'[p] \in alive]_vars
  <2> SUFFICES ASSUME IInv, Next, NEW p \in Ptr, m_raw'[p] # m_raw[p], m_raw'[p] # Null
               PROVE  m_raw'[p] \in alive
    OBVIOUS
  <2>1. PICK t \in Thread : Join(t) /\ m_raw' # m_raw
    <3>1. ASSUME NEW o \in Ops, Begin(o.t, o) PROVE FALSE
      BY <3>1 DEF Begin
    <3>2. ASSUME NEW t \in Thread, Clear(t) PROVE FALSE
      BY <3>2 DEF Clear, Break, heap, IInv, TypeOK
    <3>3. ASSUME NEW t \in Thread, Execute(t), ~ Join(t) PROVE FALSE
      <4>1. m_raw' = m_raw
        BY <3>2, <3>3 DEF Execute, Acquire, Release, Link, Unlink, Delete, Free, Group, Each, heap, Break
      <4> QED BY <4>1
    <3> QED BY <3>1, <3>3 DEF Next
  <2> DEFINE T == Head(work[t])
  <2>2. T.a # Null /\ m_raw' = [m_raw EXCEPT ![T.p] = T.a] /\ Does(t, "join")
    BY <2>1 DEF Join, heap, Break
  <2>3. m_raw'[p] = T.a
    BY <2>2 DEF IInv, TypeOK
  <2>4. 1 \in DOMAIN stack /\ stack[1] = T /\ stack[1].op = "join"
    BY <2>2, Doing
  <2>5. Anchored(T.a)
    BY <2>2, <2>4 DEF IInv, StackReady
  <2> QED BY <2>3, <2>5 DEF Anchored
<1> QED BY <1>1, InductiveInvariant, PTL DEF Spec, LinksToLiveResource
=============================================================================
