-------------------------------- MODULE Ptr --------------------------------
(***************************************************************************)
(* affix_base::data::ptr (ptr.h): a shared pointer whose owners are listed *)
(* by address in the static map s_res_map.                                 *)
(*                                                                         *)
(* link(), unlink(), group_link() and group_unlink() run under the map's   *)
(* mutex, a recursive one: deleting a resource destroys the ptrs that are  *)
(* its members, and their destructors call unlink() again.  A call is here *)
(* a stack of tasks that the thread holding the mutex works off; a task    *)
(* that calls another function puts that function's tasks on the stack.    *)
(* The raw pointers themselves are read without the mutex: copying a ptr   *)
(* reads m_raw of the source first and waits for the mutex afterwards.     *)
(***************************************************************************)
EXTENDS Naturals, Sequences, FiniteSets, SequencesExt

CONSTANTS
    Thread,
    AppPtr,        \* ptrs that are variables of the application
    Addr,          \* the addresses `new` may return
    Members,       \* Members[a]: the ptrs that are members of an object at a
    Ops,           \* the operations the application calls, see Begin
    MayOwn,        \* MayOwn[p]: the addresses p is ever linked to
    Linked,        \* Linked[a]: the owners of a when the threads begin
    Null,          \* nullptr
    Nobody         \* the mutex is free

MemberPtr == UNION {{Members[a][i] : i \in DOMAIN Members[a]} : a \in Addr}
Ptr == AppPtr \cup MemberPtr

ASSUME NullAssumption == Null \notin Addr /\ Nobody \notin Thread
ASSUME LayoutAssumption ==
    /\ AppPtr \cap MemberPtr = {}
    /\ \A a \in Addr : Members[a] \in Seq(MemberPtr)
    /\ \A a, b \in Addr : \A i \in DOMAIN Members[a], j \in DOMAIN Members[b] :
          Members[a][i] = Members[b][j] => a = b /\ i = j

\* The application has linked some of its variables before its threads begin.
ASSUME LinkedAssumption ==
    /\ \A a \in Addr : Linked[a] \in Seq(AppPtr)
    /\ \A a \in Addr : \A i \in DOMAIN Linked[a] : a \in MayOwn[Linked[a][i]]
    /\ \A a, b \in Addr : \A i \in DOMAIN Linked[a], j \in DOMAIN Linked[b] :
          Linked[a][i] = Linked[b][j] => a = b /\ i = j

\* Ownership has no cycles: a member owns objects of a lower rank than its own.
Acyclic(rank) ==
    \A a \in Addr : \A i \in DOMAIN Members[a] :
        \A b \in MayOwn[Members[a][i]] : rank[b] < rank[a]
ASSUME OwnershipAssumption ==
    /\ IsFiniteSet(Addr)
    /\ \A p \in Ptr : MayOwn[p] \subseteq Addr
    /\ \E rank \in [Addr -> 0 .. Cardinality(Addr)] : Acyclic(rank)

OpName == {"new", "copy", "reset", "group_new", "group_copy", "group_reset"}
ASSUME OpsAssumption == Ops \subseteq [t : Thread, op : OpName, p : Ptr, q : Ptr]

\* How an application has to use ptrs, for the properties below: it copies from
\* another variable, and it is one thread that does, or threads that assign to
\* variables only, and to none that another thread copies from.
Disciplined(ops) ==
    /\ \A o \in ops : o.op \in {"copy", "group_copy"} => o.q \in AppPtr \ {o.p}
    /\ \/ \A o, u \in ops : o.t = u.t
       \/ \A o \in ops :
             /\ o.op \in {"new", "copy", "reset"} /\ o.p \in AppPtr
             /\ o.op = "copy" => \A u \in ops : u.t # o.t => u.p # o.q

VARIABLES
    s_res_map,     \* s_res_map[a]: the owners of a, in their order; << >> if not a key
    m_raw,         \* m_raw[p]
    alive,         \* addresses that hold an object: allocated and not deleted
    holder,        \* the thread that holds the mutex of s_res_map
    call,          \* call[t]: the call t has made and not begun to execute
    work,          \* work[t]: tasks t still has to do before it leaves the mutex
    broken         \* freed memory was written or deleted, or an iterator invalid

heap == <<s_res_map, m_raw, alive>>
vars == <<heap, holder, call, work, broken>>

NoCall == [op |-> "none"]

Task ==
    [op : {"link", "join", "group_link"}, p : Ptr, a : Addr \cup {Null}]
    \cup [op : {"unlink", "clear", "group_unlink"}, p : Ptr]
    \cup [op : {"delete", "free"}, a : Addr]
    \cup [op : {"each_link"}, key : Addr, i : Nat, a : Addr \cup {Null}]
    \cup [op : {"each_unlink"}, key : Addr, i : Nat]

TypeOK ==
    /\ s_res_map \in [Addr -> Seq(Ptr)]
    /\ m_raw \in [Ptr -> Addr \cup {Null}]
    /\ alive \subseteq Addr
    /\ holder \in Thread \cup {Nobody}
    /\ call \in [Thread -> Task \cup {NoCall}]
    /\ work \in [Thread -> Seq(Task)]
    /\ broken \in BOOLEAN

Init ==
    /\ s_res_map = [a \in Addr |-> Linked[a]]
    /\ m_raw = [p \in Ptr |->
                   IF \E a \in Addr : Contains(Linked[a], p)
                   THEN CHOOSE a \in Addr : Contains(Linked[a], p) ELSE Null]
    /\ alive = {a \in Addr : Linked[a] # << >>}
    /\ holder = Nobody
    /\ call = [t \in Thread |-> NoCall]
    /\ work = [t \in Thread |-> << >>]
    /\ broken = FALSE

\* A ptr exists: a member lives and dies with its object.
Lives(p) == p \in AppPtr \/ \E a \in alive : Contains(Members[a], p)

-----------------------------------------------------------------------------
(* The calls.  A new object is allocated, with null members, and m_raw of a  *)
(* source is read, before the mutex is taken.                                *)

\* The constructors and operator= call link(), the destructor unlink().
CallOf(o, a) ==
    CASE o.op \in {"new", "copy"} -> [op |-> "link", p |-> o.p, a |-> a]
      [] o.op = "reset" -> [op |-> "unlink", p |-> o.p]
      [] o.op \in {"group_new", "group_copy"} -> [op |-> "group_link", p |-> o.p, a |-> a]
      [] o.op = "group_reset" -> [op |-> "group_unlink", p |-> o.p]

\* The application respects MayOwn, and a group has a member that asks for it.
Allowed(o, a) ==
    LET group == IF m_raw[o.p] = Null THEN {} ELSE ToSet(s_res_map[m_raw[o.p]]) IN
    /\ Lives(o.p)
    /\ o.op \in {"new", "copy"} => a \in MayOwn[o.p] \cup {Null}
    /\ o.op \in {"group_new", "group_copy", "group_reset"} => m_raw[o.p] # Null
    /\ o.op \in {"group_new", "group_copy"} =>
          \A g \in group \cup {o.p} : a \in MayOwn[g] \cup {Null}

Begin(t, o) ==
    /\ call[t] = NoCall /\ work[t] = << >> /\ holder # t
    /\ \/ /\ o.op \in {"new", "group_new"}
          /\ \E a \in Addr \ alive :
                /\ Allowed(o, a)
                /\ call' = [call EXCEPT ![t] = CallOf(o, a)]
                /\ alive' = alive \cup {a}
       \/ /\ o.op \in {"copy", "group_copy"}
          /\ Lives(o.q) /\ Allowed(o, m_raw[o.q])
          /\ call' = [call EXCEPT ![t] = CallOf(o, m_raw[o.q])]
          /\ UNCHANGED alive
       \/ /\ o.op \in {"reset", "group_reset"}
          /\ Allowed(o, Null)
          /\ call' = [call EXCEPT ![t] = CallOf(o, Null)]
          /\ UNCHANGED alive
    /\ UNCHANGED <<s_res_map, m_raw, holder, work, broken>>

\* s_res_map.lock()
Acquire(t) ==
    /\ call[t] # NoCall
    /\ holder = Nobody
    /\ holder' = t
    /\ work' = [work EXCEPT ![t] = <<call[t]>>]
    /\ call' = [call EXCEPT ![t] = NoCall]
    /\ UNCHANGED <<heap, broken>>

\* The locked_resource of the outermost call is destroyed.
Release(t) ==
    /\ holder = t /\ work[t] = << >>
    /\ holder' = Nobody
    /\ UNCHANGED <<heap, call, work, broken>>

-----------------------------------------------------------------------------
(* The tasks *)

\* t has `op` on top of its stack.
Does(t, op) == holder = t /\ work[t] # << >> /\ Head(work[t]).op = op

\* t goes on with `tasks` in the place of the task on top.
Continue(t, tasks) ==
    /\ work' = [work EXCEPT ![t] = tasks \o Tail(@)]
    /\ UNCHANGED <<holder, call, broken>>

\* Undefined behaviour: the model says no more of this execution.
Break == broken' = TRUE /\ UNCHANGED <<heap, holder, call, work>>

\* link(): leave the old group, join the new one.
Link(t) ==
    LET k == Head(work[t]) IN
    /\ Does(t, "link")
    /\ Continue(t, <<[op |-> "unlink", p |-> k.p], [op |-> "join", p |-> k.p, a |-> k.a]>>)
    /\ UNCHANGED heap

\* Bug: a new owner of an owned address replaces the group.
JoinedAlone(group, p) == <<p>>

\* The group of an address, if any, with a new owner.
Joined(group, p) == Append(group, p)

\* The rest of link(): into the group of the address, or a new group of one.
Join(t) ==
    LET k == Head(work[t]) IN
    /\ Does(t, "join")
    /\ \/ /\ k.a = Null
          /\ Continue(t, << >>)
          /\ UNCHANGED heap
       \/ /\ k.a # Null /\ Lives(k.p)
          /\ Continue(t, << >>)
          /\ s_res_map' = [s_res_map EXCEPT ![k.a] = Joined(@, k.p)]
          /\ m_raw' = [m_raw EXCEPT ![k.p] = k.a]
          /\ UNCHANGED alive
       \/ k.a # Null /\ ~Lives(k.p) /\ Break

\* Bug: whoever leaves the group deletes the resource.
LastOwnerAlways(group) == group # << >>

LastOwner(group) == Len(group) = 1

\* unlink(): leave the group, or be the last of it and delete the resource.
Unlink(t) ==
    LET p == Head(work[t]).p
        a == m_raw[p]
        group == s_res_map[a]
        clear == [op |-> "clear", p |-> p] IN
    /\ Does(t, "unlink")
    /\ \/ /\ a = Null
          /\ Continue(t, << >>)
          /\ UNCHANGED heap
       \/ /\ a # Null /\ group = << >>
          /\ Continue(t, <<clear>>)
          /\ UNCHANGED heap
       \/ /\ a # Null /\ LastOwner(group)
          /\ Continue(t, <<[op |-> "delete", a |-> a], clear>>)
          /\ s_res_map' = [s_res_map EXCEPT ![a] = << >>]
          /\ UNCHANGED <<m_raw, alive>>
       \/ /\ a # Null /\ group # << >> /\ ~LastOwner(group)
          /\ IF Contains(group, p)
             THEN /\ Continue(t, <<clear>>)
                  /\ s_res_map' = [s_res_map EXCEPT ![a] = RemoveFirst(group, p)]
                  /\ UNCHANGED <<m_raw, alive>>
             ELSE Break

\* delete_resource(): the destructors of the members, in reverse, then the memory.
Delete(t) ==
    LET a == Head(work[t]).a
        members == Reverse(Members[a])
        destructors == [i \in DOMAIN members |-> [op |-> "unlink", p |-> members[i]]] IN
    /\ Does(t, "delete")
    /\ \/ /\ a \in alive
          /\ Continue(t, destructors \o <<[op |-> "free", a |-> a]>>)
          /\ UNCHANGED heap
       \/ a \notin alive /\ Break

Free(t) ==
    /\ Does(t, "free")
    /\ Continue(t, << >>)
    /\ alive' = alive \ {Head(work[t]).a}
    /\ UNCHANGED <<s_res_map, m_raw>>

\* clear_resource()
Clear(t) ==
    LET p == Head(work[t]).p IN
    /\ Does(t, "clear")
    /\ \/ /\ Lives(p)
          /\ Continue(t, << >>)
          /\ m_raw' = [m_raw EXCEPT ![p] = Null]
          /\ UNCHANGED <<s_res_map, alive>>
       \/ ~Lives(p) /\ Break

\* group_link(), group_unlink(): the loop over the group, from its last member.
Group(t) ==
    LET k == Head(work[t])
        key == m_raw[k.p]
        size == Len(s_res_map[key]) IN
    /\ \/ /\ Does(t, "group_link") /\ key # Null
          /\ Continue(t, <<[op |-> "each_link", key |-> key, i |-> size, a |-> k.a]>>)
       \/ /\ Does(t, "group_unlink") /\ key # Null
          /\ Continue(t, <<[op |-> "each_unlink", key |-> key, i |-> size]>>)
    /\ UNCHANGED heap

\* Bug: the loop does not stop at its first member.
LoopEndsLate(i) == FALSE

\* i >= 0 fails; the model's indices start at 1.
LoopEnds(i) == i = 0

\* A turn of the loop: l_group[i]->link(a_raw), l_group[i]->unlink().
Each(t) ==
    LET k == Head(work[t])
        member == s_res_map[k.key][k.i]
        turn == IF k.op = "each_link" THEN [op |-> "link", p |-> member, a |-> k.a]
                                      ELSE [op |-> "unlink", p |-> member] IN
    /\ Does(t, "each_link") \/ Does(t, "each_unlink")
    /\ \/ /\ LoopEnds(k.i)
          /\ Continue(t, << >>)
          /\ UNCHANGED heap
       \/ /\ k.i \in DOMAIN s_res_map[k.key]
          /\ Continue(t, <<turn, [k EXCEPT !.i = @ - 1]>>)
          /\ UNCHANGED heap
       \/ ~LoopEnds(k.i) /\ k.i \notin DOMAIN s_res_map[k.key] /\ Break

-----------------------------------------------------------------------------
Execute(t) ==
    \/ Acquire(t) \/ Release(t)
    \/ Link(t) \/ Join(t) \/ Unlink(t) \/ Delete(t) \/ Free(t) \/ Clear(t)
    \/ Group(t) \/ Each(t)

Next ==
    /\ ~broken
    /\ \/ \E o \in Ops : Begin(o.t, o)
       \/ \E t \in Thread : Execute(t)

Spec == Init /\ [][Next]_vars

-----------------------------------------------------------------------------
(* Properties *)

\* The map and the ptrs tell the same story whenever the mutex is free: a ptr
\* is listed once, under the address it holds, and only ptrs that exist are.
GroupsAreOwners ==
    /\ TypeOK
    /\ holder = Nobody =>
          \A a \in Addr :
              /\ ToSet(s_res_map[a]) = {p \in Ptr : Lives(p) /\ m_raw[p] = a}
              /\ Len(s_res_map[a]) = Cardinality(ToSet(s_res_map[a]))

\* t has read or allocated the address a and has not begun to link it.
Pending(t, a) == "a" \in DOMAIN call[t] /\ call[t].a = a

\* What is owned exists and what exists is owned, or on its way to an owner:
\* no cascade of destructors leaves an owner of freed memory or a leak.
OwnedExactlyWhileAlive ==
    holder = Nobody =>
        \A a \in Addr :
            /\ s_res_map[a] # << >> => a \in alive
            /\ a \in alive => \/ s_res_map[a] # << >>
                            \/ \E t \in Thread : Pending(t, a)

\* An object is deleted by its last owner: at that moment nobody but the ptr
\* whose unlink() deletes it still holds the address.
DeletedByLastOwner ==
    [][\A a \in alive \ alive' :
          Cardinality({p \in Ptr : Lives(p)' /\ m_raw[p] = a}) <= 1]_vars

\* No operation reaches undefined behaviour: no double delete, no write to a
\* ptr that was deleted with its object, no index past the end of a group.
NeverBroken == ~broken

\* The address a copy has read is not deleted before the copy joins its group.
CopiesStayValid ==
    \A t \in Thread, a \in Addr : Pending(t, a) => a \in alive

\* "if the resource is already owned, it joins the group which owns that
\* resource": what link() makes a ptr own exists.
LinksToLiveResource ==
    [][\A p \in Ptr : m_raw'[p] # m_raw[p] /\ m_raw'[p] # Null => m_raw'[p] \in alive]_vars

=============================================================================
