---------------------------- MODULE Subsequences ----------------------------
(***************************************************************************)
(* The part of a sequence whose elements are in a given set, in order: a   *)
(* list comprehension with a filter, or a loop that appends what passes a  *)
(* test.  It is SelectSeq with the test as a set, written as a recursive   *)
(* function so that proofs can use its definition.                         *)
(***************************************************************************)
EXTENDS Naturals, Sequences

\* One turn of the loop: x joins what was kept if it is in S.
Keep(kept, x, S) == IF x \in S THEN Append(kept, x) ELSE kept

\* The elements of seq that are in S, in the order of seq.
Only(seq, S) ==
    LET only[i \in 0..Len(seq)] ==
            IF i = 0 THEN <<>> ELSE Keep(only[i - 1], seq[i], S)
    IN only[Len(seq)]
=============================================================================
