---------------------------- MODULE MCByteBuffer ----------------------------
(***************************************************************************)
(* Instances of ByteBuffer for TLC: the objects that are pushed.           *)
(***************************************************************************)
EXTENDS ByteBuffer

One == <<1>>
Two == <<2>>

SomeValues == [
    byte |-> {One},
    string |-> {<< >>, <<One, Two>>},
    vector |-> {<< >>, <<Two, One>>},
    vectors |-> {<<<<One, Two>>, << >>>>},
    tuple |-> {<<Two, <<One>>>>}]

=============================================================================
