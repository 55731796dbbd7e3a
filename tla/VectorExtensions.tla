-------------------------- MODULE VectorExtensions --------------------------
(***************************************************************************)
(* The function templates of vector_extensions.h, and of                   *)
(* insertion_index.h that say where a value belongs in a sorted vector.    *)
(* What the callers pass as std::function is a function.                   *)
(***************************************************************************)
EXTENDS Integers, Sequences, SequencesExt

exists(vec, predicate) == \E i \in DOMAIN vec : predicate[vec[i]]

\* From the index start, which counts from 0, on.
range(vec, start, len) == [i \in 1 .. len |-> vec[start + i]]

convert(vec, function) == [i \in DOMAIN vec |-> function[vec[i]]]

-----------------------------------------------------------------------------
(* Duplicates *)

\* The vector afterwards, and the result: whether there were any.  Elements
\* are compared with ==, whatever a_match says.
erase_duplicates(vec, match) ==
    LET Step(i, r) ==
            IF Contains(SubSeq(r.vec, 1, i - 1), r.vec[i])
            THEN [vec |-> RemoveAt(r.vec, i), result |-> TRUE]
            ELSE r
    IN  FoldRightDomain(Step, vec, [vec |-> vec, result |-> FALSE])

-----------------------------------------------------------------------------
(* Comparison *)

unordered_comparison(old, new, match) ==
    LET Missing(vec, other) ==
            SelectSeq(vec, LAMBDA a : ~ exists(other, [b \in ToSet(other) |-> match[a, b]]))
        Diffs(vec, addition) ==
            convert(vec, [a \in ToSet(vec) |-> [val |-> a, addition |-> addition]])
    IN  Diffs(Missing(old, new), FALSE) \o Diffs(Missing(new, old), TRUE)

-----------------------------------------------------------------------------
(* Sorted vectors *)

FirstIndex(vec, test(_)) ==
    LET found == SelectInSeq(vec, test) IN IF found = 0 THEN Len(vec) ELSE found - 1

\* Bug: the first element that is not less.
ltg_insertion_index_early(vec, val) == FirstIndex(vec, LAMBDA a : a >= val)

ltg_insertion_index(vec, val) == FirstIndex(vec, LAMBDA a : a > val)
gtl_insertion_index(vec, val) == FirstIndex(vec, LAMBDA a : a < val)

=============================================================================
