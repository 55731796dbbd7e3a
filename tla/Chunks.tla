------------------------------- MODULE Chunks -------------------------------
(***************************************************************************)
(* How rsa.cpp and aes.cpp encrypt what is longer than a cipher takes: in  *)
(* chunks, and how the chunks are put together again.                      *)
(*                                                                         *)
(* The ciphers are external.  A byte of a ciphertext is known by the block *)
(* it belongs to and its place there, so that a block decrypts when all    *)
(* its bytes are in their places.  Keys match.  A result tells what came   *)
(* out before an exception, if there was one.                              *)
(***************************************************************************)
EXTENDS Encoding, VectorExtensions

CONSTANTS
    MaxPlain,      \* FixedMaxPlaintextLength() of an RSA encryptor
    CipherLen,     \* its FixedCiphertextLength()
    BlockSize      \* AES::BLOCKSIZE

ASSUME ChunkAssumption ==
    MaxPlain \in Nat \ {0} /\ CipherLen \in Nat \ {0} /\ BlockSize \in Nat \ {0, 1}

Returned(bytes) == [thrown |-> FALSE, out |-> bytes]
Thrown(bytes) == [thrown |-> TRUE, out |-> bytes]

\* An object of one byte: the byte at a place of the ciphertext of a block.
CipherByte(block, place) == <<[of |-> block, place |-> place]>>
Ciphertext(block, len) == [i \in 1 .. len |-> CipherByte(block, i)]

\* A byte that is no byte of any ciphertext: what a vector is resized with.
ZeroByte == CipherByte(<< >>, 0)

\* Whether the bytes are those of one block, in their places.
Genuine(cipher) ==
    \E i \in DOMAIN cipher : cipher = Ciphertext(cipher[i][1].of, Len(cipher))
BlockOf(cipher) == cipher[1][1].of

\* The lengths of the chunks that a loop cuts a sequence into.
Chunk(data, size, k) ==
    range(data, (k - 1) * size, Min({size, Len(data) - (k - 1) * size}))
ChunkCount(data, size) == (Len(data) + size - 1) \div size
InChunks(data, size) == [k \in 1 .. ChunkCount(data, size) |-> Chunk(data, size, k)]

Each(seq, F(_)) == [i \in DOMAIN seq |-> F(seq[i])]

\* What one chunk after the other gives, until one throws.
Collect(chunks, Decrypt(_)) ==
    FoldLeft(LAMBDA r, chunk :
                 LET d == Decrypt(chunk)
                 IN  IF r.thrown THEN r ELSE [d EXCEPT !.out = r.out \o @],
             Returned(<< >>), chunks)

-----------------------------------------------------------------------------
(* RSA *)

rsa_encrypt(chunk) == Ciphertext(chunk, CipherLen)

\* A ciphertext of another length throws; one that is not genuine decodes to
\* an invalid result without a message.
rsa_decrypt(cipher) ==
    IF Len(cipher) # CipherLen THEN Thrown(<< >>)
    ELSE Returned(IF Genuine(cipher) THEN BlockOf(cipher) ELSE << >>)

rsa_encrypt_in_chunks(input) ==
    PushVectors("back", << >>, Each(InChunks(input, MaxPlain), rsa_encrypt))

PopCipher(end, body, old) == PopList(PopBytes, ZeroByte, SizeLen, end, body, old)

\* Bug: the chunks that were popped whole are decrypted from the last one on.
rsa_decrypt_in_chunks_backwards(input) ==
    LET l_input == PopList(PopCipher, << >>, SizeLen, "front", input, << >>).value
    IN  Collect(Reverse(l_input), rsa_decrypt)

\* What pop_front() filled in is decrypted, whether it succeeded or not; what
\* was decrypted is lost when a chunk throws.
rsa_decrypt_in_chunks(input) ==
    LET l_input == PopList(PopCipher, << >>, SizeLen, "front", input, << >>).value
        all == Collect(l_input, rsa_decrypt)
    IN  IF all.thrown THEN Thrown(<< >>) ELSE all

\* rsa_try_decrypt_in_chunks: what it returns, for what it leaves in a_output.
rsa_try_decrypt_in_chunks(input) ==
    LET r == rsa_decrypt_in_chunks(input)
    IN  [result |-> ~ r.thrown /\ r.out # << >>, a_output |-> r.out]

\* The overloads for streams write each chunk before they read the next one.
rsa_encrypt_stream(input) ==
    FlattenSeq(Each(InChunks(input, MaxPlain), rsa_encrypt))
rsa_decrypt_stream(input) == Collect(InChunks(input, CipherLen), rsa_decrypt)

-----------------------------------------------------------------------------
(* AES, in blocks that are chained *)

\* The initialization vector of another size than a block's is not used.
ZeroIV == [i \in 1 .. BlockSize |-> 0]
ValidIV(iv) == IF Len(iv) # BlockSize THEN ZeroIV ELSE iv

\* The padding of StreamTransformationFilter: as many bytes as fill the last
\* block, at least one, and each of them says how many.
Padding(len) ==
    LET missing == BlockSize - (len % BlockSize) IN [i \in 1 .. missing |-> missing]

\* Bug: a message that fills its last block is not padded.
PaddedIfNeeded(data) ==
    InChunks(IF Len(data) % BlockSize = 0 THEN data ELSE data \o Padding(Len(data)), BlockSize)

\* The blocks of a message, the last one with its padding.
Padded(data) == InChunks(data \o Padding(Len(data)), BlockSize)

\* The message without the padding, which its last byte tells; what does not
\* end as padding does is refused.
Unpadded(plain) ==
    LET missing == Last(plain)
        len == Len(plain) - missing
    IN  IF missing \in 1 .. BlockSize /\ IsSuffix(Padding(len), plain)
        THEN Returned(SubSeq(plain, 1, len)) ELSE Thrown(<< >>)

\* The blocks as the encryptor chains them: each one knows the one before.
Chained(iv, plains) ==
    LET block[k \in 0 .. Len(plains)] ==
            IF k = 0 THEN [plain |-> iv]
            ELSE [plain |-> plains[k], before |-> block[k - 1]]
    IN  [k \in 1 .. Len(plains) |-> block[k]]

Written(blocks) == FlattenSeq(Each(blocks, LAMBDA block : Ciphertext(block, BlockSize)))

aes_encrypt(data, iv) == Written(Chained(ValidIV(iv), Padded(data)))

\* Bug: chunks as large as a block, whose padding needs another block.
MaxPlaintextFull == BlockSize

\* AES_MAX_PLAINTEXT_LENGTH_FOR_SIZE_16_CIPHER
MaxPlaintext == BlockSize - 1

\* Each chunk is a message of its own to the padding, but not to the chaining.
aes_encrypt_stream(input, iv) ==
    Written(Chained(ValidIV(iv),
                    FlattenSeq(Each(InChunks(input, MaxPlaintext), Padded))))

\* The decryptor has the initialization vector, and then each block, before
\* the next.  Out of its place a block decrypts to arbitrary bytes, which are
\* taken for ones that do not end as padding does: no cut puts one there.
DecryptBlock(cipher, before) ==
    IF Len(cipher) = BlockSize /\ Genuine(cipher) /\ BlockOf(cipher).before = before
    THEN Unpadded(BlockOf(cipher).plain) ELSE Thrown(<< >>)

aes_decrypt_stream(input, iv) ==
    LET ciphers == InChunks(input, BlockSize)
        Before(k) == IF k = 1 THEN [plain |-> ValidIV(iv)] ELSE BlockOf(ciphers[k - 1])
    IN  Collect([k \in DOMAIN ciphers |-> k], LAMBDA k : DecryptBlock(ciphers[k], Before(k)))

\* One message: only the padding of its last block is looked at, and nothing
\* comes out of a message that does not end as padding does.
aes_decrypt(data, iv) ==
    LET ciphers == InChunks(data, BlockSize)
        blocks == Each(ciphers, BlockOf)
        plains == Each(blocks, LAMBDA block : block.plain)
    IN  IF /\ ciphers # << >>
           /\ \A k \in DOMAIN ciphers : Len(ciphers[k]) = BlockSize /\ Genuine(ciphers[k])
           /\ blocks = Chained(ValidIV(iv), plains)
        THEN Unpadded(FlattenSeq(plains))
        ELSE Thrown(<< >>)

=============================================================================
