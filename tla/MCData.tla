------------------------------- MODULE MCData -------------------------------
(***************************************************************************)
(* The sequential part of the library for TLC: byte_buffer, and the pure   *)
(* functions, whose chunks are encoded as it encodes a vector.  A behaviour *)
(* is about one of the two.                                                *)
(***************************************************************************)
EXTENDS MCByteBuffer, MCAlgorithms

DataInit == Init /\ BufferInit

DataNext ==
    \/ Init /\ BufferNext /\ UNCHANGED <<text, query>>
    \/ BufferInit /\ Grow /\ UNCHANGED bufferVars

DataSpec == DataInit /\ [][DataNext]_<<text, query, bufferVars>>

=============================================================================
