----------------------------- MODULE Serialize -----------------------------
(***************************************************************************)
(* affix_base::data::serialize (serialize.h): unsigned integers as their   *)
(* bytes in memory, on a little-endian machine.  The sizes in the frames   *)
(* of transmission.cpp and in the body of a byte_buffer are such bytes.    *)
(***************************************************************************)
EXTENDS Naturals, Sequences

CONSTANTS
    Base,       \* values of a byte (256)
    SizeLen     \* sizeof(uint32_t)

ASSUME WidthAssumption == Base \in Nat \ {0} /\ SizeLen \in Nat \ {0}

Byte == 0 .. Base - 1

\* What a byte counts that has k bytes before it: Base ^ k, the number of
\* values that k bytes hold.
Power[k \in Nat] == IF k = 0 THEN 1 ELSE Base * Power[k - 1]

\* An unsigned integer of `len` bytes, the least significant first.
serialize(n, len) == [i \in 1 .. len |-> (n \div Power[i - 1]) % Base]
deserialize(bytes) ==
    LET value[k \in 0 .. Len(bytes)] ==
            IF k = 0 THEN 0 ELSE value[k - 1] + bytes[k] * Power[k - 1]
    IN  value[Len(bytes)]

=============================================================================
