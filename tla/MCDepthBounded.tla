--------------------------- MODULE MCDepthBounded ---------------------------
(* Small trees and clusters for DepthBounded.                               *)
EXTENDS DepthBounded, TLC

CONSTANTS w1, w2, w3, l1, l2

\* Four nodes: two children, one of them with a child.
SmallTree == {<<>>, <<1>>, <<2>>, <<1, 1>>}

\* One node below the depth limit.
LimitedTree == SmallTree \cup {<<1, 1, 1>>}

TwoAndOne == (w1 :> l1) @@ (w2 :> l1) @@ (w3 :> l2)
=============================================================================
