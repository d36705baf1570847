----------------------------- MODULE SearchTree -----------------------------
(***************************************************************************)
(* The tree that a node generator lays out (util/NodeGenerator.hpp): a     *)
(* node is the path of child positions that leads to it from the root, so  *)
(* its depth is the length of the path and children come in the order of   *)
(* next().                                                                 *)
(***************************************************************************)
EXTENDS Integers, FiniteSets, SequencesExt

CONSTANT Node    \* the nodes of the tree, a prefix-closed set of paths

Root == <<>>

Child(n, i) == Append(n, i)

\* Generator::numChildren for the generator of n.
numChildren(n) == Cardinality({m \in Node : Len(m) = Len(n) + 1
                                            /\ SubSeq(m, 1, Len(n)) = n})

Children(n) == {Child(n, i) : i \in 1..numChildren(n)}

Below(n) == {m \in Node : Len(m) > Len(n) /\ SubSeq(m, 1, Len(n)) = n}
Subtree(n) == Below(n) \cup {n}

\* Of two nodes at the same depth, the one a walk in the order of next() comes
\* to first.
Before(m, n) == \E i \in 1..Len(n) : m[i] < n[i] /\ \A j \in 1..i - 1 : m[j] = n[j]

AtDepth(d) == {n \in Node : Len(n) = d}

\* The nodes at depth d, in that order.
Place(n) == Cardinality({m \in AtDepth(Len(n)) : m = n \/ Before(m, n)})
Level(d) == [k \in 1..Cardinality(AtDepth(d)) |->
                CHOOSE n \in AtDepth(d) : Place(n) = k]

ASSUME TreeAssumption ==
    /\ IsFiniteSet(Node) /\ Root \in Node
    /\ \A n \in Node : n \in Seq(Nat \ {0}) /\ Children(n) \subseteq Node
    /\ \A n \in Node : \A k \in 0..Len(n) : SubSeq(n, 1, k) \in Node
=============================================================================
