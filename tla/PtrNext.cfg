\* p1 = p1->next: the source of the copy is a member of what the target owns.
SPECIFICATION Spec
CONSTANTS
    t1 = t1
    t2 = t2
    p1 = p1
    p2 = p2
    p3 = p3
    m1 = m1
    m2 = m2
    a1 = a1
    a2 = a2
    a3 = a3
    Thread = {t1}
    AppPtr = {p1}
    Addr = {a1, a2}
    Members <- NextMembers
    Ops <- NextOps
    MayOwn <- NextMayOwn
    Linked <- NextLinked
    Null = Null
    Nobody = Nobody
PROPERTIES
    LinksToLiveResource
CHECK_DEADLOCK FALSE
