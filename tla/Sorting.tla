------------------------------ MODULE Sorting -------------------------------
(***************************************************************************)
(* The elements of a set in an order: SetToSortSeq of SequencesExt         *)
(* enumerates all functions of the set's size, this does not.              *)
(***************************************************************************)
EXTENDS Integers, FiniteSets

\* Before is a strict total order on S.
Sorted(S, Before(_, _)) ==
    [k \in 1..Cardinality(S) |->
        CHOOSE x \in S : Cardinality({y \in S : Before(y, x)}) = k - 1]
=============================================================================
