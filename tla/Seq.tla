-------------------------------- MODULE Seq --------------------------------
(***************************************************************************)
(* The sequential skeleton (skeletons/Seq.hpp) over any application: the   *)
(* recursive expand as a stack that holds, for each call, the children its *)
(* generator has not laid out yet.                                         *)
(***************************************************************************)
EXTENDS Integers, Sequences, SequencesExt

CONSTANTS Apps,               \* the applications
          Problems(_),        \* problems of an application
          Children(_, _),     \* of a node, in the order of next()
          GetObj(_, _),       \* Node::getObj
          BoundFn(_, _),      \* BoundFunction
          Objcmp(_, _, _),    \* ObjectiveComparison
          Counts(_, _)        \* what Enumerator::accumulate adds for a node

VARIABLES problem,    \* space, root, tags and params of the search
          stack,      \* the calls of expand, each as its children to come
          incumbent,  \* the pair <<node, bound>>
          acc         \* the enumerator: the bag of what it has accumulated

vars == <<problem, stack, incumbent, acc>>

\* A call of expand for node n with childDepth d: the generator's children,
\* none at the depth limit.
Call(p, n, d) == IF p.depthLimited /\ d = p.maxDepth THEN <<>> ELSE Children(p, n)

\* The accumulator with node n, for an enumeration.
Accumulated(p, bag, n) ==
    IF p.kind # "Enumeration" THEN bag
    ELSE LET k == Counts(p, n) IN
         [v \in DOMAIN bag \cup {k} |-> (IF v \in DOMAIN bag THEN bag[v] ELSE 0)
                                         + IF v = k THEN 1 ELSE 0]

Init == \E a \in Apps :
    /\ problem \in Problems(a)
    /\ stack = <<Call(problem, problem.root, 1)>>
    /\ incumbent = <<problem.root, problem.initialBound>>
    /\ acc = Accumulated(problem, <<>>, problem.root)

Running == stack # <<>> /\ Last(stack) # <<>>
Candidate == Head(Last(stack))
Node == incumbent[1]
Best == incumbent[2]

\* The loop goes on to the next child of the innermost call.
Skip == stack' = Front(stack) \o <<Tail(Last(stack))>>

Solution == problem.kind = "Decision"
            /\ GetObj(problem, Candidate) = problem.expectedObjective

\* A decision search compares bounds with the target, which may be met exactly.
Hopeless ==
    /\ problem.bounded
    /\ LET bnd == BoundFn(problem, Candidate) IN
       IF problem.kind = "Decision"
       THEN /\ ~ Objcmp(problem, bnd, problem.expectedObjective)
            /\ bnd # problem.expectedObjective
       ELSE ~ Objcmp(problem, bnd, Best)

\* Every call returns true.
Found == /\ Running /\ Solution
         /\ incumbent' = <<Candidate, Best>>
         /\ stack' = <<>>
         /\ UNCHANGED <<problem, acc>>

\* Mutant: the level is left although its siblings may be better.
PruneToEnd == /\ Running /\ ~ Solution /\ Hopeless
              /\ ~ problem.pruneLevel
              /\ stack' = Front(stack) \o <<<<>>>>
              /\ UNCHANGED <<problem, incumbent, acc>>

Prune == /\ Running /\ ~ Solution /\ Hopeless
         /\ ~ problem.pruneLevel
         /\ Skip
         /\ UNCHANGED <<problem, incumbent, acc>>

PruneLevel == /\ Running /\ ~ Solution /\ Hopeless
              /\ problem.pruneLevel
              /\ stack' = Front(stack) \o <<<<>>>>
              /\ UNCHANGED <<problem, incumbent, acc>>

\* A better child becomes the incumbent; the recursive call accumulates it.
Descend ==
    /\ Running /\ ~ Solution /\ ~ Hopeless
    /\ incumbent' = IF problem.kind = "Optimisation"
                       /\ Objcmp(problem, GetObj(problem, Candidate), Best)
                    THEN <<Candidate, GetObj(problem, Candidate)>> ELSE incumbent
    /\ acc' = Accumulated(problem, acc, Candidate)
    /\ stack' = Front(stack) \o <<Tail(Last(stack)),
                                  Call(problem, Candidate, Len(stack) + 1)>>
    /\ UNCHANGED problem

Return == /\ stack # <<>> /\ Last(stack) = <<>>
          /\ stack' = Front(stack)
          /\ UNCHANGED <<problem, incumbent, acc>>

Next == Found \/ Prune \/ PruneLevel \/ Descend \/ Return

Spec == Init /\ [][Next]_vars
-----------------------------------------------------------------------------
Returned == stack = <<>>

RECURSIVE Subtree(_, _)
Subtree(p, n) == {n} \cup UNION {Subtree(p, c) : c \in ToSet(Children(p, n))}

\* No node below a child is better than the child's bound, nor, where the
\* application asks for PruneLevel, a node below a sibling that comes later.
BoundSound ==
    Running /\ problem.bounded =>
        \A i \in IF problem.pruneLevel THEN DOMAIN Last(stack) ELSE {1} :
           \A n \in Subtree(problem, Last(stack)[i]) :
              ~ Objcmp(problem, GetObj(problem, n), BoundFn(problem, Candidate))
=============================================================================
