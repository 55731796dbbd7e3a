-------------------------- MODULE StringExtensions --------------------------
(***************************************************************************)
(* The functions of string_extensions.h/.cpp.  A string is a sequence of   *)
(* characters; an index into it counts from 0, as in the code.             *)
(***************************************************************************)
EXTENDS Integers, FiniteSets, FiniteSetsExt, Sequences, SequencesExt

CONSTANTS
    Quote,     \* the character that string_split_respect_quotes looks for
    Star       \* the wildcard of string_can_query

ASSUME CharacterAssumption == Quote # Star

-----------------------------------------------------------------------------
(* Splitting, joining and trimming *)

\* The last of the parts gets one more character.
Extend(parts, char) == [parts EXCEPT ![Len(parts)] = Append(@, char)]
NewPart(parts) == Append(parts, << >>)

\* Bug: a part begins only when it gets a character.
string_split_lazily(string, char) ==
    FoldLeft(LAMBDA parts, c :
                 IF c # char THEN Extend(parts, c)
                 ELSE IF Last(parts) = << >> THEN parts ELSE NewPart(parts),
             <<<< >>>>, string)

string_split(string, char) ==
    FoldLeft(LAMBDA parts, c : IF c # char THEN Extend(parts, c) ELSE NewPart(parts),
             <<<< >>>>, string)

string_split_respect_quotes(string, split_char) ==
    LET Step(r, c) ==
            IF c = Quote THEN [r EXCEPT !.respect = ~ @]
            ELSE IF c = split_char /\ ~ r.respect
                 THEN [r EXCEPT !.parts = NewPart(@)]
                 ELSE [r EXCEPT !.parts = Extend(@, c)]
    IN  FoldLeft(Step, [parts |-> <<<< >>>>, respect |-> FALSE], string).parts

string_join(strings) == FlattenSeq(strings)

string_trim(string, char) == string_join(string_split(string, char))
string_trim_all(string, chars) == FoldLeft(string_trim, string, chars)

string_trim_right_until(string, char) ==
    SubSeq(string, 1, SelectLastInSeq(string, LAMBDA c : c = char))

string_trim_left_until(string, char) ==
    LET first == SelectInSeq(string, LAMBDA c : c = char)
    IN  IF first = 0 THEN << >> ELSE SubSeq(string, first, Len(string))

-----------------------------------------------------------------------------
(* Finding *)

\* The index of the occurrence that a_find_index others precede, or the size.
string_find(string, char, find_index) ==
    LET at == {i \in DOMAIN string :
                  /\ string[i] = char
                  /\ Cardinality({j \in 1 .. i - 1 : string[j] = char}) = find_index}
    IN  IF at = {} THEN Len(string) ELSE Min(at) - 1

\* std::string::find: the first occurrence at or after an offset, or npos.
npos == -1
OccursAt(data, query, i) == SubSeq(data, i + 1, i + Len(query)) = query
find(data, query, offset) ==
    LET at == {i \in offset .. Len(data) - Len(query) : OccursAt(data, query, i)}
    IN  IF at = {} THEN npos ELSE Min(at)

FindStart == [l_result |-> << >>, l_offset |-> 0, returned |-> FALSE]

\* Bug: the search goes on behind the character that follows a location.
FindTurnSkipping(r, data, query) ==
    LET found == find(data, query, r.l_offset)
    IN  IF found = npos THEN [r EXCEPT !.returned = TRUE]
        ELSE [r EXCEPT !.l_result = Append(@, found), !.l_offset = found + Len(query) + 1]

\* One turn of the loop of string_find_all: it goes on behind a location that
\* it has found, and returns when there is none.
FindTurn(r, data, query) ==
    LET found == find(data, query, r.l_offset)
    IN  IF found = npos THEN [r EXCEPT !.returned = TRUE]
        ELSE [r EXCEPT !.l_result = Append(@, found), !.l_offset = found + Len(query)]

\* The loop after more turns than there are offsets: had it not returned by
\* then, two turns would have begun at one offset, and it never would.
string_find_all(data, query) ==
    FoldLeft(LAMBDA r, turn : IF r.returned THEN r ELSE FindTurn(r, data, query),
             FindStart, [turn \in 1 .. Len(data) + 2 |-> turn])

-----------------------------------------------------------------------------
(* Wildcards *)

\* Bug: the search goes on inside the last match.
string_can_query_overlapping(data, query) ==
    LET match_split == string_split(query, Star)
        Step(r, i) ==
            LET this_match == find(data, match_split[i], r.next)
            IN  IF ~ r.ok \/ match_split[i] = << >> THEN r
                ELSE [ok |-> this_match # npos /\ (i = 1 => this_match = 0),
                      next |-> this_match]
    IN  /\ FoldLeftDomain(Step, [ok |-> TRUE, next |-> 0], Front(match_split)).ok
        /\ IsSuffix(Last(match_split), data)

\* Every part but the last is searched behind the one before it, the first one
\* at the start only; the last one has to end the data.
string_can_query(data, query) ==
    LET match_split == string_split(query, Star)
        Step(r, i) ==
            LET this_match == find(data, match_split[i], r.next)
            IN  IF ~ r.ok \/ match_split[i] = << >> THEN r
                ELSE [ok |-> this_match # npos /\ (i = 1 => this_match = 0),
                      next |-> this_match + Len(match_split[i])]
    IN  /\ FoldLeftDomain(Step, [ok |-> TRUE, next |-> 0], Front(match_split)).ok
        /\ IsSuffix(Last(match_split), data)

string_any_can_query(data, queries) ==
    \E i \in DOMAIN queries : string_can_query(data, queries[i])

=============================================================================
