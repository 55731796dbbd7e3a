\* Three addresses, two of them of objects with a member ptr: one thread that does
\* everything, or two threads that copy the same ptr.
SPECIFICATION MCSpec
CONSTANTS
    t1 = t1
    t2 = t2
    p1 = p1
    p2 = p2
    p3 = p3
    m1 = m1
    m2 = m2
    a1 = a1
    a2 = a2
    a3 = a3
    Thread = {t1, t2}
    AppPtr = {p1, p2, p3}
    Addr = {a1, a2, a3}
    Members <- ChainMembers
    Ops <- AnyOps
    MayOwn <- ChainMayOwn
    Linked <- SharedLinked
    Null = Null
    Nobody = Nobody
INVARIANTS
    GroupsAreOwners
    OwnedExactlyWhileAlive
    NeverBroken
    CopiesStayValid
PROPERTIES
    DeletedByLastOwner
