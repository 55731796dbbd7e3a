--------------------------- MODULE MCPtrWorkloads ---------------------------
(***************************************************************************)
(* Ptr for TLC, with one of two applications: a thread that builds and     *)
(* takes apart chains of objects, or two threads that copy the same ptr.   *)
(***************************************************************************)
EXTENDS MCPtr

\* The theorems of PtrProofs are about the first application and about the
\* second without its group_copy, but not about p1 = p1->next.
ASSUME DisciplineKept ==
    /\ Disciplined(ChainOps)
    /\ Disciplined({o \in SharedOps : o.op # "group_copy"})
    /\ ~ Disciplined(NextOps)

VARIABLE workload
MCInit == Init /\ workload \in {ChainOps, SharedOps}
MCNext ==
    /\ ~ broken
    /\ \/ \E o \in workload : Begin(o.t, o)
       \/ \E t \in Thread : Execute(t)
    /\ UNCHANGED workload
MCSpec == MCInit /\ [][MCNext]_<<vars, workload>>

=============================================================================
