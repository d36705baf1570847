----------------------------- MODULE MaxClique ------------------------------
(***************************************************************************)
(* Maximum clique (apps/bnb/maxclique): candidates are coloured greedily   *)
(* and taken from the highest colour class down.  A graph is the function  *)
(* from its vertices 0..n-1 to their neighbours; bit sets are sets.        *)
(***************************************************************************)
EXTENDS Integers, FiniteSets, SequencesExt, Sorting

\* BitSet and BitGraph.
first_set_bit(s) == IF s = {} THEN -1 ELSE Min(s)
intersect_with_row(g, v, s) == s \cap g[v]
intersect_with_row_complement(g, v, s) == s \ g[v]
popcount(s) == Cardinality(s)

\* orderGraphFromFile: vertices renumbered by degree, the largest first.
DegreeOrder(g) ==
    LET Before(a, b) == \/ popcount(g[a]) > popcount(g[b])
                        \/ popcount(g[a]) = popcount(g[b]) /\ a < b
    IN  Sorted(DOMAIN g, Before)

orderGraph(g) ==
    LET order == DegreeOrder(g)
    IN  [i \in DOMAIN g |-> {j \in DOMAIN g : \/ order[j + 1] \in g[order[i + 1]]
                                              \/ order[i + 1] \in g[order[j + 1]]}]

\* Mutant: a colour class may hold neighbours.
colour_class_orderLoose(g, p) ==
    [i \in 1..popcount(p) |-> <<Sorted(p, <)[i], (i + 1) \div 2>>]

\* Vertices of p in the order they are coloured, each with its colour.
colour_class_order(g, p) ==
    LET Step(s, i) ==
          LET fresh == s.q = {}
              q == IF fresh THEN s.left ELSE s.q
              v == first_set_bit(q)
              colour == IF fresh THEN s.colour + 1 ELSE s.colour
          IN  [left |-> s.left \ {v}, colour |-> colour,
               q |-> intersect_with_row_complement(g, v, q \ {v}),
               order |-> Append(s.order, <<v, colour>>)]
        start == [left |-> p, q |-> {}, colour |-> 0, order |-> <<>>]
    IN  FoldLeft(Step, start, [i \in 1..popcount(p) |-> i]).order

root(g) == [members |-> <<>>, colours |-> 0, size |-> 0, remaining |-> DOMAIN g]

\* GenNode::nth: the candidates to the right of the chosen one are gone.
nth(n, g, order, k) ==
    LET pos == Len(order) - k
        v == order[pos][1]
        cands == n.remaining \ {order[i][1] : i \in pos + 1..Len(order)}
    IN  [members |-> Append(n.members, v), colours |-> order[pos][2] - 1,
         size |-> n.size + 1, remaining |-> intersect_with_row(g, v, cands)]

\* GenNode and next().
children(g, n) == LET order == colour_class_order(g, n.remaining)
                  IN  [k \in DOMAIN order |-> nth(n, g, order, k - 1)]

upperBound(n) == n.size + n.colours
-----------------------------------------------------------------------------
\* Reference: cliques of a graph.
IsClique(g, S) == \A v \in S : S \ {v} \subseteq g[v]
Optimum(g) == Max({Cardinality(S) : S \in {T \in SUBSET DOMAIN g : IsClique(g, T)}})

Valid(g, n) == IsClique(g, ToSet(n.members)) /\ Cardinality(ToSet(n.members)) = n.size
=============================================================================
