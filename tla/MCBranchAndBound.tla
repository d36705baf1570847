-------------------------- MODULE MCBranchAndBound --------------------------
(* Small trees with objectives and bounds for BranchAndBound.               *)
EXTENDS BranchAndBound, TLC

CONSTANTS w1, w2, l1, l2

\* Two subtrees of two leaves each; the better leaf of each subtree is last.
Tree == {<<>>, <<1>>, <<2>>, <<1, 1>>, <<1, 2>>, <<2, 1>>, <<2, 2>>}

Objective == (<<>> :> 0) @@ (<<1>> :> 1) @@ (<<2>> :> 2) @@ (<<1, 1>> :> 2)
             @@ (<<1, 2>> :> 4) @@ (<<2, 1>> :> 3) @@ (<<2, 2>> :> 3)

\* Upper bounds that are not tight, nonincreasing among siblings.
UpperBound == (<<>> :> 5) @@ (<<1>> :> 5) @@ (<<2>> :> 4) @@ (<<1, 1>> :> 4)
              @@ (<<1, 2>> :> 4) @@ (<<2, 1>> :> 3) @@ (<<2, 2>> :> 3)

AllTags == [kind : {"Optimisation", "Decision"}, pruneLevel : BOOLEAN,
            depthLimited : {FALSE}]
PlainOptimisation == [kind : {"Optimisation"}, pruneLevel : {FALSE},
                      depthLimited : {FALSE}]

OneEach == (w1 :> l1) @@ (w2 :> l2)
=============================================================================
