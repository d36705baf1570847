----------------------------- MODULE MCOrdered ------------------------------
(* A small tree with objectives and bounds for Ordered.                     *)
EXTENDS Ordered, TLC

CONSTANTS s, w, l1, l2

\* Three tasks at depth two: the second and the third have one discrepancy.
\* The first is two levels deep, the second has nothing below it.
Tree == {<<>>, <<1>>, <<2>>, <<1, 1>>, <<1, 2>>, <<2, 1>>,
         <<1, 1, 1>>, <<1, 1, 2>>, <<2, 1, 1>>, <<1, 1, 1, 1>>}

\* The best node of the tree is a task root.
Objective == (<<>> :> 0) @@ (<<1>> :> 1) @@ (<<2>> :> 2)
             @@ (<<1, 1>> :> 1) @@ (<<1, 2>> :> 4) @@ (<<2, 1>> :> 1)
             @@ (<<1, 1, 1>> :> 1) @@ (<<1, 1, 2>> :> 3)
             @@ (<<2, 1, 1>> :> 2) @@ (<<1, 1, 1, 1>> :> 1)

\* Upper bounds that are not tight, nonincreasing among siblings.
UpperBound == (<<>> :> 4) @@ (<<1>> :> 4) @@ (<<2>> :> 3)
              @@ (<<1, 1>> :> 4) @@ (<<1, 2>> :> 4) @@ (<<2, 1>> :> 3)
              @@ (<<1, 1, 1>> :> 3) @@ (<<1, 1, 2>> :> 3)
              @@ (<<2, 1, 1>> :> 2) @@ (<<1, 1, 1, 1>> :> 1)

\* An optimisation in each of its forms, and a decision.
AllTags == {[kind |-> k, pruneLevel |-> p, depthLimited |-> d] :
              <<k, p, d>> \in {<<"Optimisation", TRUE, FALSE>>,
                              <<"Optimisation", FALSE, TRUE>>,
                              <<"Decision", TRUE, FALSE>>}}

Home == (s :> l1) @@ (w :> l2)
=============================================================================
