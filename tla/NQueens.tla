------------------------------ MODULE NQueens -------------------------------
(***************************************************************************)
(* Placements of queens row by row (apps/enumeration/nqueens).  The masks  *)
(* of 32 bits are the sets of their bits.                                  *)
(***************************************************************************)
EXTENDS Integers, FiniteSets, SequencesExt, Sorting

Bits == 0..31

shiftL(mask) == {b + 1 : b \in mask} \cap Bits
shiftR(mask) == {b - 1 : b \in mask} \cap Bits

root(size) == LET all == 0..size - 1
              IN  [all |-> all, ld |-> {}, cols |-> {}, rd |-> {}, poss |-> all]

\* Mutant: one diagonal is not shifted.
childUnshifted(n, bit) ==
    LET ld == shiftL(n.ld \cup {bit})
        cols == n.cols \cup {bit}
        rd == n.rd \cup {bit}
    IN  [all |-> n.all, ld |-> ld, cols |-> cols, rd |-> rd,
         poss |-> n.all \ (ld \cup cols \cup rd)]

\* next(): a queen at a free column, the lowest first; threatened diagonals move.
child(n, bit) ==
    LET ld == shiftL(n.ld \cup {bit})
        cols == n.cols \cup {bit}
        rd == shiftR(n.rd \cup {bit})
    IN  [all |-> n.all, ld |-> ld, cols |-> cols, rd |-> rd,
         poss |-> n.all \ (ld \cup cols \cup rd)]

children(n) == LET bits == Sorted(n.poss, <)
               IN  [i \in DOMAIN bits |-> child(n, bits[i])]

\* CountSols counts the nodes that have a queen in every column.
accumulate(n) == IF n.cols = n.all THEN "solution" ELSE "other"
-----------------------------------------------------------------------------
\* Reference: the arrangements no two queens of which share a diagonal.
Queens(size) ==
    {q \in Injection(1..size, 1..size) :
        \A i, j \in 1..size : i < j => q[j] - q[i] \notin {j - i, i - j}}
=============================================================================
