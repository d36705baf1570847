--------------------------- MODULE MCApplications ---------------------------
(***************************************************************************)
(* The sequential skeleton instantiated with each application, over small  *)
(* inputs, against a reference definition of what the application asks.    *)
(***************************************************************************)
EXTENDS Seq, FiniteSets

KP == INSTANCE Knapsack
MC == INSTANCE MaxClique
CS == INSTANCE MCS
TS == INSTANCE TSP
SI == INSTANCE SIP
NQ == INSTANCE NQueens
SG == INSTANCE Semigroups
TR == INSTANCE Trees

AppsDef == {"knapsack", "maxclique", "clique of size", "mcs", "tsp", "sip", "nqueens",
            "semigroups basic", "semigroups hivert", "fib", "uts"}

childrenDef(p, n) ==
    CASE p.app = "knapsack" -> KP!children(p.space, n)
      [] p.app \in {"maxclique", "clique of size"} -> MC!children(p.space, n)
      [] p.app = "mcs" -> CS!children(p.space, n)
      [] p.app = "tsp" -> TS!children(p.space, n)
      [] p.app = "sip" -> SI!children(p.space, n)
      [] p.app = "nqueens" -> NQ!children(n)
      [] p.app = "semigroups basic" -> SG!basicChildren(n)
      [] p.app = "semigroups hivert" -> SG!hivertChildren(n)
      [] p.app = "fib" -> TR!fibChildren(n)
      [] p.app = "uts" -> TR!utsChildren(p.space, n)

getObjDef(p, n) == CASE p.app = "knapsack" -> n.profit
                     [] p.app \in {"maxclique", "clique of size", "mcs"} -> n.size
                     [] p.app = "tsp" -> TS!getObj(n)
                     [] p.app = "sip" -> n.sat

boundFnDef(p, n) == CASE p.app = "knapsack" -> KP!upperBound(p.space, n)
                      [] p.app \in {"maxclique", "clique of size"} -> MC!upperBound(n)
                      [] p.app = "mcs" -> CS!upperBound(n)
                      [] p.app = "tsp" -> TS!boundFn(p.space, n)

\* std::less for tours, std::greater otherwise.
ObjcmpDef(p, a, b) == IF p.app = "tsp" THEN a < b ELSE a > b

CountsDef(p, n) == CASE p.app = "nqueens" -> NQ!accumulate(n)
                     [] p.app = "semigroups hivert" -> n.genus
                     [] OTHER -> "node"
-----------------------------------------------------------------------------
\* Inputs.

Search(app, space, root, kind) ==
    [app |-> app, space |-> space, root |-> root, kind |-> kind, bounded |-> FALSE,
     pruneLevel |-> FALSE, depthLimited |-> FALSE, initialBound |-> 0,
     expectedObjective |-> 0, maxDepth |-> 5000]

Optimise(app, space, root) ==
    [Search(app, space, root, "Optimisation") EXCEPT !.bounded = TRUE,
                                                     !.pruneLevel = app # "tsp"]

Limited(app, space, root, maxDepth) ==
    [Search(app, space, root, "Enumeration") EXCEPT !.depthLimited = TRUE,
                                                    !.maxDepth = maxDepth]

Symmetric(n, E) == [v \in 0..n - 1 |-> {w \in 0..n - 1 : {v, w} \in E}]
GraphsOn(n) == {Symmetric(n, E) : E \in SUBSET kSubset(2, 0..n - 1)}
Path4 == {{0, 1}, {1, 2}, {2, 3}}

\* Every item fits alone: the root holds all items, whether they fit or not.
Knapsacks == {KP!space(items, c) :
                 items \in [1..4 -> {<<1, 1>>, <<2, 3>>, <<3, 2>>, <<3, 3>>, <<4, 3>>}],
                 c \in {4, 6, 7}}

\* Two graphs of three vertices, labelled, with an optional loop.
VFGraph(labels, E) ==
    [labels |-> labels,
     edges |-> [p \in (0..2) \X (0..2) |-> IF {p[1], p[2]} \in E THEN 1 ELSE 0]]
Labels == {[v \in 0..2 |-> 0], [v \in 0..2 |-> IF v = 0 THEN 1 ELSE 0]}
VFGraphs == {VFGraph(l, E) : l \in Labels, E \in SUBSET {{0, 1}, {1, 2}, {2}}}
Pairs == {s \in {CS!space(g1, g2) : g1, g2 \in VFGraphs} : s.prod.association # <<>>}

\* Symmetric distances between n cities; those of the city that the file does
\* not name are left unset.
Distances(n, lengths) ==
    {[d |-> [p \in (1..n + 1) \X (1..n + 1) |->
                IF n + 1 \in {p[1], p[2]} THEN unset
                ELSE IF p[1] = p[2] THEN 0 ELSE w[{p[1], p[2]}]], n |-> n] :
        w \in [kSubset(2, 1..n) -> lengths], unset \in {0, 5}}

Patterns == GraphsOn(3) \cup {Symmetric(3, {{0, 1}, {1}}),
                              Symmetric(4, Path4), Symmetric(4, Path4 \cup {{0, 3}}),
                              Symmetric(4, {{0, 1}, {0, 2}, {0, 3}}),
                              Symmetric(4, {{0, 1}, {2, 3}})}
Targets == GraphsOn(4) \cup {Symmetric(4, Path4 \cup {{2}}),
                             Symmetric(5, Path4 \cup {{3, 4}, {0, 4}}),
                             Symmetric(5, Path4 \cup {{1, 4}, {1, 3}})}

\* Draws for the paths of up to two steps.
Paths == {<<>>} \cup {<<i>> : i \in 1..2} \cup {<<i, j>> : i, j \in 1..2}
UTSTree(type, geo, draw) ==
    [type |-> type, geoType |-> geo, gen_mx |-> 2, rootBF |-> 2, nonLeafBF |-> 2,
     nonLeafProb |-> 3, grain |-> 6, most |-> 2,
     draw |-> [n \in BoundedSeq(1..2, 3) |-> IF n \in Paths THEN draw[n] ELSE 0]]

ProblemsDef(a) ==
    CASE a = "knapsack" -> {Optimise(a, s, KP!root(s)) : s \in Knapsacks}
      [] a = "maxclique" -> {LET g == MC!orderGraph(h) IN Optimise(a, g, MC!root(g)) :
                                h \in GraphsOn(4) \cup GraphsOn(5)}
      [] a = "clique of size" ->
            {[Optimise(a, g, MC!root(g)) EXCEPT !.kind = "Decision", !.expectedObjective = k] :
                g \in GraphsOn(4), k \in 2..4}
      [] a = "mcs" -> {Optimise(a, s, CS!root(s)) : s \in Pairs}
      [] a = "tsp" -> {[Optimise(a, s, TS!root(s)) EXCEPT !.initialBound = TS!initialBound(s)] :
                          s \in Distances(4, {1, 2, 4}) \cup Distances(5, {1, 3})}
      [] a = "sip" -> {[Search(a, m, SI!root(m), "Decision") EXCEPT !.expectedObjective = TRUE] :
                          m \in {SI!Model(t, p) : t \in Targets, p \in Patterns}}
      [] a = "nqueens" -> {Limited(a, n, NQ!root(n), 5000) : n \in 1..5}
      [] a = "semigroups basic" -> {Limited(a, 0, SG!basicRoot, d) : d \in 1..5}
      [] a = "semigroups hivert" -> {Limited(a, 0, SG!init_full_N(d), d) : d \in 2..5}
      [] a = "fib" -> {Limited(a, 0, d - 1, d) : d \in 1..5}
      [] a = "uts" -> {Limited(a, s, <<>>, 3) :
            s \in {UTSTree("binomial", "none", w) : w \in [Paths -> {1, 4}]}
                  \cup {UTSTree("geometric", geo, w) : geo \in {"LINEAR", "FIXED"},
                                                       w \in [Paths -> {0, 5}]}}
-----------------------------------------------------------------------------
Optimum(p) == CASE p.app = "knapsack" -> KP!Optimum(p.space)
                [] p.app \in {"maxclique", "clique of size"} -> MC!Optimum(p.space)
                [] p.app = "mcs" -> CS!Optimum(p.space)
                [] p.app = "tsp" -> TS!Optimum(p.space)

Valid(p, n) == CASE p.app = "knapsack" -> KP!Valid(p.space, n)
                 [] p.app \in {"maxclique", "clique of size"} -> MC!Valid(p.space, n)
                 [] p.app = "mcs" -> CS!Valid(p.space, n)
                 [] p.app = "tsp" -> TS!Valid(p.space, n)
                 [] p.app = "sip" -> SI!Valid(p.space, n)

Solvable(p) == IF p.app = "sip" THEN SI!Solvable(p.space)
               ELSE Optimum(p) >= p.expectedObjective

\* What an enumeration has to accumulate.
Total(p) ==
    CASE p.app = "nqueens" -> Cardinality(NQ!Queens(p.space))
      [] p.app = "semigroups basic" ->
            MapThenSumSet(LAMBDA g : Cardinality(SG!OfGenus(g)), 0..p.maxDepth - 1)
      [] p.app = "fib" -> 2^p.maxDepth - 1
      [] p.app = "uts" ->
            Cardinality({n \in BoundedSeq(1..2, p.maxDepth - 1) : \A i \in DOMAIN n :
                n[i] <= Len(TR!utsChildren(p.space, SubSeq(n, 1, i - 1)))})

\* An optimisation returns an optimal node that is a solution of its input, or
\* the root if no solution is better than the initial bound.
OptimumReturned ==
    Returned /\ problem.kind = "Optimisation" =>
        LET best == Optimum(problem) IN
        IF Objcmp(problem, best, problem.initialBound)
        THEN Best = best /\ GetObj(problem, Node) = best /\ Valid(problem, Node)
        ELSE incumbent = <<problem.root, problem.initialBound>>

\* A decision search returns a solution of its input exactly if there is one.
SolutionDecided ==
    Returned /\ problem.kind = "Decision" =>
        IF Solvable(problem)
        THEN GetObj(problem, Node) = problem.expectedObjective /\ Valid(problem, Node)
        ELSE Node = problem.root

\* An enumeration counts every object of its input once.
CountRight ==
    Returned /\ problem.kind = "Enumeration" =>
        CASE problem.app = "nqueens" ->
                Total(problem) = IF "solution" \in DOMAIN acc THEN acc["solution"] ELSE 0
          [] problem.app = "semigroups hivert" ->
                acc = [g \in 0..problem.maxDepth - 1 |-> Cardinality(SG!OfGenus(g))]
          [] OTHER -> Total(problem) = acc["node"]
=============================================================================
