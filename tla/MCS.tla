-------------------------------- MODULE MCS ---------------------------------
(***************************************************************************)
(* Maximum common subgraph (apps/bnb/mcs): cliques of the modular product  *)
(* of two graphs, whose vertices are pairs of equally labelled vertices.   *)
(* A graph is [labels, edges]: the label of each vertex 0..n-1, and the    *)
(* label of each ordered pair, 0 for no edge.                              *)
(***************************************************************************)
EXTENDS Integers, FiniteSets, SequencesExt, Sorting

C == INSTANCE MaxClique

SameLabel(g1, g2) == {p \in (DOMAIN g1.labels) \X (DOMAIN g2.labels) :
                         g1.labels[p[1]] = g2.labels[p[2]]}

\* The condition under which two pairs may both be in a common subgraph.
Compatible(g1, g2, p, q) ==
    /\ p[1] # q[1] /\ p[2] # q[2]
    /\ g1.edges[<<p[1], p[1]>>] = g2.edges[<<p[2], p[2]>>]
    /\ g1.edges[<<q[1], q[1]>>] = g2.edges[<<q[2], q[2]>>]
    /\ g1.edges[<<p[1], q[1]>>] = g2.edges[<<p[2], q[2]>>]
    /\ g1.edges[<<q[1], p[1]>>] = g2.edges[<<q[2], p[2]>>]

\* modular_product: pairs are numbered when an edge first mentions them, label
\* by label.
modular_product(g1, g2) ==
    LET Before(p, q) == LET l == g1.labels[p[1]]
                            m == g1.labels[q[1]]
                        IN  \/ l < m
                            \/ l = m /\ (p[1] < q[1] \/ (p[1] = q[1] /\ p[2] < q[2]))
        pairs == SameLabel(g1, g2)
        Mates(p) == {q \in pairs : Compatible(g1, g2, p, q)}
        linked == Sorted({p \in pairs : Mates(p) # {}}, Before)
        mentions == FlattenSeq([i \in DOMAIN linked |->
                       <<linked[i]>> \o Sorted(Mates(linked[i]), Before)])
        New(s, p) == IF p \in ToSet(s) THEN s ELSE Append(s, p)
        association == FoldLeft(New, <<>>, mentions)
        number(p) == CHOOSE i \in DOMAIN association : association[i] = p
    IN  [association |-> association,
         graph |-> [i \in 0..Len(association) - 1 |->
                       {number(q) - 1 : q \in Mates(association[i + 1])}]]

\* buildGraph: as in maxclique; every edge is counted twice in the degrees.
buildGraph(prod) == C!orderGraph(prod.graph)

\* unproduct, for every member of a clique of the reordered graph.
unproduct(prod, n) ==
    {prod.association[C!DegreeOrder(prod.graph)[v + 1] + 1] : v \in ToSet(n.members)}

space(g1, g2) == LET prod == modular_product(g1, g2)
                 IN  [g1 |-> g1, g2 |-> g2, prod |-> prod, graph |-> buildGraph(prod)]

\* The generator and the bound are copies of those of maxclique.
root(s) == C!root(s.graph)
children(s, n) == C!children(s.graph, n)
upperBound(n) == C!upperBound(n)
-----------------------------------------------------------------------------
\* Reference: injective partial maps that keep labels, edges and non-edges.
IsCommon(s, M) ==
    /\ \A p \in M : /\ s.g1.labels[p[1]] = s.g2.labels[p[2]]
                    /\ s.g1.edges[<<p[1], p[1]>>] = s.g2.edges[<<p[2], p[2]>>]
    /\ \A p, q \in M : p # q => Compatible(s.g1, s.g2, p, q)

Optimum(s) == Max({Cardinality(M) : M \in {N \in SUBSET SameLabel(s.g1, s.g2) :
                                               IsCommon(s, N)}})

\* The check of main before it ends.
Valid(s, n) == LET M == unproduct(s.prod, n)
               IN  IsCommon(s, M) /\ Cardinality(M) = n.size
=============================================================================
