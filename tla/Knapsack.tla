------------------------------ MODULE Knapsack ------------------------------
(***************************************************************************)
(* 0/1 knapsack (apps/bnb/knapsack): items are added in the order of their *)
(* profit density; a node holds the items still to be considered.          *)
(***************************************************************************)
EXTENDS Integers, SequencesExt

\* Items are pairs of a profit and a weight; densities are compared exactly.
Denser(x, y) ==
    LET p == x[1] * y[2]
        q == y[1] * x[2]
    IN  \/ p > q
        \/ p = q /\ (x[1] > y[1] \/ (x[1] = y[1] /\ x[2] < y[2]))

space(items, capacity) == [items |-> SortSeq(items, Denser), capacity |-> capacity]

profit(s, i) == s.items[i][1]
weight(s, i) == s.items[i][2]

root(s) == [items |-> <<>>, profit |-> 0, weight |-> 0,
            rem |-> [i \in DOMAIN s.items |-> i]]

\* next(): the item at a position of rem, and the later ones that still fit.
child(s, n, pos) ==
    LET i == n.rem[pos]
        w == n.weight + weight(s, i)
        Fits(j) == w + weight(s, j) <= s.capacity
    IN  [items |-> Append(n.items, i), profit |-> n.profit + profit(s, i), weight |-> w,
         rem |-> SelectSeq(SubSeq(n.rem, pos + 1, Len(n.rem)), Fits)]

children(s, n) == [pos \in DOMAIN n.rem |-> child(s, n, pos)]

Sum(f(_, _), s, S) == FoldFunctionOnSet(+, 0, [i \in DOMAIN s.items |-> f(s, i)], S)

\* Whole items after the last one while they fit, then a fraction, rounded up.
upperBound(s, n) ==
    LET from == Last(n.items) + 1
        Load(i) == n.weight + Sum(weight, s, from..i)
        cut == {i \in from..Len(s.items) : Load(i) > s.capacity}
        last == IF cut = {} THEN Len(s.items) ELSE Min(cut) - 1
        full == n.profit + Sum(profit, s, from..last)
    IN  IF cut = {} THEN full
        ELSE full - (((Load(last) - s.capacity) * profit(s, last + 1)) \div weight(s, last + 1))
-----------------------------------------------------------------------------
\* Reference: the best profit of a set of items that fits.
Optimum(s) == Max({Sum(profit, s, S) : S \in {T \in SUBSET DOMAIN s.items :
                                               Sum(weight, s, T) <= s.capacity}})

Valid(s, n) == /\ n.weight = Sum(weight, s, ToSet(n.items)) /\ n.weight <= s.capacity
               /\ n.profit = Sum(profit, s, ToSet(n.items))
               /\ Cardinality(ToSet(n.items)) = Len(n.items)
=============================================================================
