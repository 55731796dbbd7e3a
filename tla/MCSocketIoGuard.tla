-------------------------- MODULE MCSocketIoGuard --------------------------
(***************************************************************************)
(* An instance of SocketIoGuard for TLC: what the callbacks of each        *)
(* direction do.                                                           *)
(***************************************************************************)
EXTENDS SocketIoGuard

\* Callbacks do whatever the interface allows.
AnyCalls == [d \in Direction |-> Operation]

=============================================================================
