-------------------------- MODULE MCTransmission --------------------------
(***************************************************************************)
(* Instances of Transmission for TLC: bits for bytes and two of them for   *)
(* the size, so that sizes from none to the largest occur.                 *)
(***************************************************************************)
EXTENDS Transmission

\* Empty, shorter than a piece, a whole piece, and the largest: two pieces.
SomeMessages == {<< >>, <<1>>, <<0, 1>>, <<1, 0, 1>>}

=============================================================================
