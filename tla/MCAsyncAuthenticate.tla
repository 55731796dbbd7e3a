------------------------ MODULE MCAsyncAuthenticate ------------------------
(***************************************************************************)
(* Instances of AsyncAuthenticate for TLC: the orders the peers choose.    *)
(***************************************************************************)
EXTENDS AsyncAuthenticate

\* Peers that have not agreed on who authenticates its remote first.
AnyOrders == [p \in Peer |-> BOOLEAN]

\* One peer authenticates its remote first and the other one itself.
OppositeOrders ==
    LET first == CHOOSE p \in Peer : TRUE IN [p \in Peer |-> {p = first}]

=============================================================================
