------------------------------ MODULE MCBudget ------------------------------
(* A small tree with objectives and bounds for Budget.                      *)
EXTENDS Budget, TLC

CONSTANTS w1, w2, l1

\* Enough below <<1>> and <<2>> for a spawned task to be split again, and one
\* node, <<1, 1, 2, 1>>, beyond the depth limit of an enumeration.
Tree == {<<>>, <<1>>, <<2>>, <<1, 1>>, <<1, 2>>, <<2, 1>>, <<2, 2>>,
         <<1, 1, 1>>, <<1, 1, 2>>, <<2, 1, 1>>, <<2, 1, 2>>, <<1, 1, 2, 1>>}

\* The best node, <<2, 2>>, is one that a task gives away; the next best,
\* <<2, 1, 2>>, is one that it keeps.
Objective == (<<>> :> 0) @@ (<<1>> :> 1) @@ (<<2>> :> 2) @@ (<<1, 1>> :> 2)
             @@ (<<1, 2>> :> 3) @@ (<<2, 1>> :> 3) @@ (<<2, 2>> :> 5)
             @@ (<<1, 1, 1>> :> 2) @@ (<<1, 1, 2>> :> 1) @@ (<<2, 1, 1>> :> 2)
             @@ (<<2, 1, 2>> :> 4) @@ (<<1, 1, 2, 1>> :> 1)

\* Upper bounds that are not tight, nonincreasing among siblings.  There is no
\* hope below <<1, 1>>: the first path of the root's task ends there.
UpperBound == (<<>> :> 5) @@ (<<1>> :> 5) @@ (<<2>> :> 5) @@ (<<1, 1>> :> 4)
              @@ (<<1, 2>> :> 3) @@ (<<2, 1>> :> 5) @@ (<<2, 2>> :> 5)
              @@ (<<1, 1, 1>> :> 2) @@ (<<1, 1, 2>> :> 2) @@ (<<2, 1, 1>> :> 5)
              @@ (<<2, 1, 2>> :> 4) @@ (<<1, 1, 2, 1>> :> 2)

Counting == [kind : {"Enumeration"}, pruneLevel : {FALSE}, depthLimited : BOOLEAN]
Bounding == [kind : {"Optimisation", "Decision"}, pruneLevel : BOOLEAN,
             depthLimited : BOOLEAN]
AllTags == Counting \cup Bounding
PlainOptimisation == {t \in Bounding : t.kind = "Optimisation" /\ ~ t.pruneLevel
                                         /\ ~ t.depthLimited}

Together == (w1 :> l1) @@ (w2 :> l1)
=============================================================================
