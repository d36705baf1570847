-------------------------- MODULE MCStackStealing ---------------------------
(* Small trees and clusters for StackStealing.                              *)
EXTENDS StackStealing, TLC

CONSTANTS w1, w2, w3, l1, l2, l3

\* The only scheduler of the code as written, and one task for each other one.
AsWrittenOrNot == [k \in Kinds |-> {0, others}]
AllStart == [k \in Kinds |-> {others}]
EitherChunk == [k \in Kinds |-> BOOLEAN]
WholeChunk == [k \in Kinds |-> {TRUE}]

\* Two localities of two threads each: two schedulers.  The first task has two
\* levels below it, one of them beyond the depth limit of an enumeration; the
\* root has enough children for a chunk of two.
Tree == {<<>>, <<1>>, <<2>>, <<3>>, <<1, 1>>, <<1, 2>>,
         <<1, 1, 1>>, <<1, 1, 2>>, <<1, 1, 1, 1>>, <<1, 1, 1, 1, 1>>}

\* The best node, <<1, 1, 2>>, is one that a thief can take; the next best is at
\* the last depth within the limit.  The root's second child improves the bound
\* and its third has no hope in a decision; spawnInitialWork stops before both.
\* Upper bounds are not tight, and nonincreasing among siblings.
Objective == [n \in Tree |-> CASE n = <<1, 1, 2>> -> 4
                               [] n = <<1, 1, 1, 1>> -> 3
                               [] n = <<2>> -> 2
                               [] OTHER -> 0]
UpperBound == [n \in Tree |-> CASE Len(n) > 4 -> 1 [] n = <<3>> -> 3 [] OTHER -> 4]

AllTags == {[kind |-> "Enumeration", pruneLevel |-> FALSE, depthLimited |-> TRUE],
            [kind |-> "Optimisation", pruneLevel |-> FALSE, depthLimited |-> FALSE],
            [kind |-> "Optimisation", pruneLevel |-> FALSE, depthLimited |-> TRUE],
            [kind |-> "Decision", pruneLevel |-> TRUE, depthLimited |-> FALSE]}

TwoLocalities == (w1 :> l1) @@ (w2 :> l2)
StartTwo == w2 :> 1

\* Two localities of three threads each: four schedulers are wanted and there
\* are two tasks, one of them for a second scheduler of the first locality.
MixedTree == {<<>>, <<1>>, <<2>>, <<3>>, <<1, 1>>, <<1, 2>>, <<1, 1, 1>>, <<1, 1, 2>>}
MixedLocalities == (w1 :> l1) @@ (w2 :> l2) @@ (w3 :> l1)
StartThree == (w2 :> 1) @@ (w3 :> 2)

\* Three localities of one thread each.
SmallTree == {<<>>, <<1>>, <<1, 1>>, <<1, 2>>, <<1, 3>>, <<1, 1, 1>>, <<1, 1, 2>>}
ThreeLocalities == (w1 :> l1) @@ (w2 :> l2) @@ (w3 :> l3)

PlainCounting == {[kind |-> "Enumeration", pruneLevel |-> FALSE,
                   depthLimited |-> FALSE]}
NoValue == [n \in Node |-> 0]
Hopeful == [n \in Node |-> 4]
=============================================================================
