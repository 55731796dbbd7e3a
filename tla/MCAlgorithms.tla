---------------------------- MODULE MCAlgorithms ----------------------------
(***************************************************************************)
(* The pure functions of the library, and what each one means, over all    *)
(* pairs of a text and a query up to a length.  TLC reaches the pairs by   *)
(* adding one character at a time.                                         *)
(***************************************************************************)
EXTENDS StringExtensions, Chunks

CONSTANTS
    Letters,      \* characters of texts and queries, integers
    MaxText, MaxQuery

VARIABLES text, query

Init == text = << >> /\ query = << >>

\* Quotes belong in texts, and wildcards in queries.
Grow ==
    \/ /\ Len(text) < MaxText
       /\ \E c \in Letters \cup {Quote} : text' = Append(text, c)
       /\ UNCHANGED query
    \/ /\ Len(query) < MaxQuery
       /\ \E c \in Letters \cup {Star} : query' = Append(query, c)
       /\ UNCHANGED text

Spec == Init /\ [][Grow]_<<text, query>>

-----------------------------------------------------------------------------
(* Splitting and trimming *)

Occurrences(string, char) == {i \in DOMAIN string : string[i] = char}
QuotesBefore(string, i) == Cardinality({j \in 1 .. i - 1 : string[j] = Quote})
Without(string, chars) == SelectSeq(string, LAMBDA c : c \notin chars)

\* The parts of a string are what lies between the characters it is split at,
\* the parts that are empty too, at both ends and between neighbours.
PartsBetween(parts, string, at) ==
    /\ Len(parts) = Cardinality(at) + 1
    /\ \A i \in DOMAIN string \ at :
          LET k == Cardinality({j \in at : j < i}) + 1
              from == Max({0} \cup {j \in at : j < i})
          IN  i - from <= Len(parts[k]) /\ parts[k][i - from] = string[i]
    /\ Len(FlattenSeq(parts)) = Len(string) - Cardinality(at)

\* string_split, and string_split_respect_quotes behind an even number of
\* quotes, split at each occurrence of the character and keep everything else;
\* string_trim removes exactly the characters it is told, however many there
\* are in a row; the two halves of a string around an occurrence keep it.
SplitsAndTrims ==
    \A c \in Letters :
        LET at == Occurrences(text, c)
            outside == {i \in at : QuotesBefore(text, i) % 2 = 0}
            marked == [i \in DOMAIN text |-> IF i \in outside THEN Star ELSE text[i]]
        IN  /\ PartsBetween(string_split(text, c), text, at)
            /\ string_split_respect_quotes(text, c)
                   = Each(string_split(marked, Star), LAMBDA part : Without(part, {Quote}))
            /\ string_trim(text, c) = Without(text, {c})
            /\ string_trim_all(text, <<Quote, c>>) = Without(text, {Quote, c})
            /\ IF at = {} THEN /\ string_trim_right_until(text, c) = << >>
                               /\ string_trim_left_until(text, c) = << >>
                               /\ string_find(text, c, 0) = Len(text)
               ELSE /\ string_trim_left_until(text, c)
                          = SubSeq(text, string_find(text, c, 0) + 1, Len(text))
                    /\ string_trim_right_until(text, c)
                          = SubSeq(text, 1, string_find(text, c, Cardinality(at) - 1) + 1)

-----------------------------------------------------------------------------
(* Finding and wildcards *)

\* All the locations of the query within the text.
Locations == {i \in 0 .. Len(text) - Len(query) : OccursAt(text, query, i)}
Overlapping == \E i, j \in Locations : i < j /\ j < i + Len(query)

\* string_find_all lists all locations of a query once and in order when no two
\* of them overlap, neighbours that touch among them.
ListsTheLocations ==
    query # << >> /\ ~ Overlapping =>
        LET r == string_find_all(text, query)
        IN  r.returned /\ r.l_result = SetToSortSeq(Locations, <)

\* What a pattern means: a wildcard stands for any characters, or none.
Matches(data, pattern) ==
    LET upto[i \in 0 .. Len(data), j \in 0 .. Len(pattern)] ==
            IF j = 0 THEN i = 0
            ELSE IF pattern[j] = Star THEN \E k \in 0 .. i : upto[k, j - 1]
            ELSE i > 0 /\ data[i] = pattern[j] /\ upto[i - 1, j - 1]
    IN  upto[Len(data), Len(pattern)]

\* string_can_query takes the leftmost place of each part of a query and never
\* goes back: that misses no text that matches, and accepts no other one if a
\* wildcard ends the query, so that none of its parts is tied to the end.
LeftmostPlacesAreEnough ==
    /\ Matches(text, query) => string_can_query(text, query)
    /\ query # << >> /\ Last(query) = Star =>
          (string_can_query(text, query) => Matches(text, query))

\* "Finds all locations of a query string within another string", and "Determines
\* if a string (a_query) matches another string (a_data) while respecting wildcards
\* (*) in the query" (string_extensions.h): a text that matches q*q begins with q and
\* ends with q, and string_find_all lists both places.  The code lets the two parts
\* of the query overlap, and skips the location that overlaps another one.
EndsAreLocations ==
    /\ query # << >> /\ Star \notin ToSet(query)
    /\ string_can_query(text, query \o <<Star>> \o query)
    => {0, Len(text) - Len(query)} \subseteq ToSet(string_find_all(text, query).l_result)

-----------------------------------------------------------------------------
(* Vectors *)

\* What values are compared by: the values themselves, or whether they are odd.
Characters == Letters \cup {Quote, Star}
ByValue == [v \in Characters |-> v]
ByParity == [v \in Characters |-> v % 2]
MatchBy(key) == [a, b \in Characters |-> key[a] = key[b]]
KeysOf(key, set) == {key[v] : v \in set}

\* Inserting one after the other.
Sorted(vec, Index(_, _)) == FoldLeft(LAMBDA s, v : InsertAt(s, Index(s, v) + 1, v), << >>, vec)
Count(vec, v) == Cardinality({i \in DOMAIN vec : vec[i] = v})

\* erase_duplicates keeps the first of each value, in order, and says whether
\* it erased any; what unordered_comparison lists turns what the values of the
\* old vector are compared by into that of the new one, whatever that is; and
\* insertion at the indices of insertion_index.h keeps a vector sorted, upwards
\* or downwards, and puts a value behind its equals.
VectorsKeepTheirValues ==
    LET erased == erase_duplicates(text, MatchBy(ByValue))
        up == Sorted(text, ltg_insertion_index)
        down == Sorted(text, gtl_insertion_index)
    IN  /\ ToSet(erased.vec) = ToSet(text)
        /\ \A i, j \in DOMAIN erased.vec : i # j => erased.vec[i] # erased.vec[j]
        /\ \A a, b \in ToSet(text) :
              Min(Occurrences(text, a)) < Min(Occurrences(text, b)) =>
                  Min(Occurrences(erased.vec, a)) < Min(Occurrences(erased.vec, b))
        /\ erased.result = (erased.vec # text)
        /\ \A key \in {ByValue, ByParity} :
              LET changes == ToSet(unordered_comparison(text, query, MatchBy(key)))
                  Changed(addition) ==
                      KeysOf(key, {d.val : d \in {e \in changes : e.addition = addition}})
                  old == KeysOf(key, ToSet(text))
                  new == KeysOf(key, ToSet(query))
              IN  /\ new = (old \ Changed(FALSE)) \cup Changed(TRUE)
                  /\ Changed(TRUE) \cap old = {} /\ Changed(FALSE) \cap new = {}
        /\ \A i, j \in DOMAIN up : i < j => up[i] <= up[j] /\ down[i] >= down[j]
        /\ \A v \in ToSet(text) :
              Count(up, v) = Count(text, v) /\ Count(down, v) = Count(text, v)
        /\ \A v \in ToSet(text) :
              /\ ltg_insertion_index(up, v) = Max(Occurrences(up, v))
              /\ gtl_insertion_index(down, v) = Max(Occurrences(down, v))

-----------------------------------------------------------------------------
(* Chunks *)

\* The first n bytes of a ciphertext.
Cut(cipher, n) == SubSeq(cipher, 1, n)

\* What comes out of the front of a ciphertext is the front of the text, and
\* all of it if nothing was cut.
FrontOfText(r, n, cipher) ==
    IsPrefix(r.out, text) /\ (n = Len(cipher) => r = Returned(text))

\* A stream that is cut between two blocks decrypts to a shorter text without
\* a word; cut inside a block it throws.
StreamsDecryptToTheFront ==
    query = << >> =>
        \A iv \in {<< >>, <<1>>, [i \in 1 .. BlockSize |-> 1]} :
            LET rsa == rsa_encrypt_stream(text)
                aes == aes_encrypt_stream(text, iv)
            IN  /\ \A n \in 0 .. Len(rsa) :
                      LET r == rsa_decrypt_stream(Cut(rsa, n))
                      IN  FrontOfText(r, n, rsa) /\ r.thrown = (n % CipherLen # 0)
                /\ \A n \in 0 .. Len(aes) :
                      LET r == aes_decrypt_stream(Cut(aes, n), iv)
                      IN  FrontOfText(r, n, aes) /\ r.thrown = (n % BlockSize # 0)

\* When RSA decrypts the chunks of a message that was cut successfully, they are
\* the front of the text and miss the last chunk at the most: the chunks behind
\* a cut are empty, and throw.  A whole message, if not empty, decrypts successfully.
MissesOneChunkAtMost ==
    LET rsa == rsa_encrypt_in_chunks(text)
    IN  \A n \in 0 .. Len(rsa) :
            LET r == rsa_decrypt_in_chunks(Cut(rsa, n))
                try == rsa_try_decrypt_in_chunks(Cut(rsa, n))
            IN  /\ FrontOfText(r, n, rsa)
                /\ try.result => Len(text) - Len(try.a_output) <= MaxPlain
                /\ n = Len(rsa) /\ text # << >> => try.result

\* AES decrypts what is left of a message that was cut to the text that gives
\* it when it is padded, if there is one, and throws otherwise: what ends in
\* bytes that look like padding passes for a shorter message, and nothing else
\* does.
PassesIfPadded ==
    LET aes == aes_encrypt(text, << >>)
        plain == text \o Padding(Len(text))
    IN  \A n \in 0 .. Len(aes) :
            LET r == aes_decrypt(Cut(aes, n), <<2>>)
                fits == {k \in 0 .. Len(text) :
                            SubSeq(text, 1, k) \o Padding(k) = SubSeq(plain, 1, n)}
            IN  /\ FrontOfText(r, n, aes)
                /\ r.thrown = (fits = {})
                /\ ~ r.thrown => fits = {Len(r.out)}

\* Of a message that was cut anywhere no chunk or block is made up or put in
\* another's place.
CutMessagesDecryptToTheFront == query = << >> => MissesOneChunkAtMost /\ PassesIfPadded

=============================================================================
