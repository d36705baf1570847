-------------------------------- MODULE SIP ---------------------------------
(***************************************************************************)
(* Subgraph isomorphism (apps/decision/sip): each vertex of the pattern    *)
(* has a domain of target vertices, filtered by degrees when the search    *)
(* starts and by the assignments made.  A graph is the function from its   *)
(* vertices 0..n-1 to their neighbours.  A domain is [v, values, fixed];   *)
(* its popcount is the number of its values.                               *)
(***************************************************************************)
EXTENDS Integers, FiniteSets, SequencesExt, Sorting

max_graphs == 5

degree(g, v) == Cardinality(g[v])

\* degree_sort with reverse = false.
degree_sort(g) ==
    LET Before(a, b) == \/ degree(g, a) > degree(g, b)
                        \/ degree(g, a) = degree(g, b) /\ a < b
    IN  Sorted(DOMAIN g, Before)

\* A graph recoded to the vertices of a permutation.
Recoded(g, perm) ==
    [i \in 0..Len(perm) - 1 |-> {j \in 0..Len(perm) - 1 : perm[j + 1] \in g[perm[i + 1]]}]

\* build_supplemental_graphs: in graph p > 0 two vertices are adjacent if p
\* paths of length two join them.
build_supplemental_graphs(adj) ==
    [p \in 0..max_graphs - 1 |->
        [v \in DOMAIN adj |-> IF p = 0 THEN adj[v]
                              ELSE {w \in DOMAIN adj : Cardinality(adj[v] \cap adj[w]) >= p}]]

\* Isolated vertices of the pattern are left out, target vertices ordered.
Model(target, pattern) ==
    LET kept == Sorted({v \in DOMAIN pattern : degree(pattern, v) # 0}, <)
        order == degree_sort(target)
    IN  [pattern |-> pattern, target |-> target,
         pattern_permutation |-> kept, target_permutation |-> order,
         pattern_rows |-> build_supplemental_graphs(Recoded(pattern, kept)),
         target_rows |-> build_supplemental_graphs(Recoded(target, order))]

\* Degrees of the neighbours of v, largest first.
ndss(g, v) == LET Larger(a, b) == degree(g, a) > degree(g, b)
                                  \/ (degree(g, a) = degree(g, b) /\ a < b)
                  near == Sorted(g[v], Larger)
              IN  [x \in DOMAIN near |-> degree(g, near[x])]

\* Pattern vertex i may be mapped to target vertex j as far as graph g tells.
Fits(m, g, i, j) ==
    LET p == m.pattern_rows[g]
        t == m.target_rows[g]
    IN  /\ i \in p[i] => j \in t[j]
        /\ Len(ndss(t, j)) >= Len(ndss(p, i))
        /\ \A x \in DOMAIN ndss(p, i) : ndss(t, j)[x] >= ndss(p, i)[x]

initialise_domains(m) ==
    [k \in DOMAIN m.pattern_permutation |->
        [v |-> k - 1, fixed |-> FALSE,
         values |-> {j \in DOMAIN m.target_rows[0] :
                        \A g \in 0..max_graphs - 1 : Fits(m, g, k - 1, j)}]]

\* hpx_main ends without a search if the domains have too few values together:
\* here the root then has no children.
root(m) ==
    LET domains == initialise_domains(m)
        all == UNION {domains[k].values : k \in DOMAIN domains}
    IN  [domains |-> domains, assignments |-> <<>>, sat |-> FALSE,
         propagationSuccess |-> Cardinality(all) >= Len(domains)]
-----------------------------------------------------------------------------
Unfixed(domains) == {k \in DOMAIN domains : ~ domains[k].fixed}

Units(domains) == {k \in Unfixed(domains) : Cardinality(domains[k].values) = 1}

\* Values of domain d that are left when variable v is given value f.
propagate_adjacency_constraints(m, d, v, f) ==
    {x \in d.values : \A g \in 0..max_graphs - 1 :
        d.v \in m.pattern_rows[g][v] => x \in m.target_rows[g][f]}

\* Mutant: values that other vertices have are not taken away.
propagate_simple_constraintsShared(m, domains, v, f) ==
    [k \in DOMAIN domains |->
        IF domains[k].fixed THEN domains[k]
        ELSE [domains[k] EXCEPT !.values = propagate_adjacency_constraints(m, domains[k], v, f)]]

propagate_simple_constraints(m, domains, v, f) ==
    [k \in DOMAIN domains |->
        IF domains[k].fixed THEN domains[k]
        ELSE [domains[k] EXCEPT !.values =
                 propagate_adjacency_constraints(m, domains[k], v, f) \ {f}]]

AllNonempty(domains) == \A k \in DOMAIN domains : domains[k].values # {}

\* Smallest domains first, those larger than the number of domains alike; a set
\* of domains with as many values as domains keeps its values from the rest.
cheap_all_different(domains) ==
    LET n == Len(domains)
        size(k) == Min({Cardinality(domains[k].values), n})
        Before(j, k) == size(j) < size(k) \/ (size(j) = size(k) /\ j < k)
        Step(s, k) ==
          LET values == s.domains[k].values \ s.hall
              sofar == s.sofar \cup values
              count == s.count + 1
          IN  IF ~ s.ok THEN s
              ELSE [domains |-> [s.domains EXCEPT ![k].values = values], sofar |-> sofar,
                    count |-> count,
                    hall |-> IF Cardinality(sofar) = count THEN s.hall \cup sofar ELSE s.hall,
                    ok |-> values # {} /\ Cardinality(sofar) >= count]
    IN  FoldLeft(Step, [domains |-> domains, sofar |-> {}, count |-> 0, hall |-> {}, ok |-> TRUE],
                 Sorted(DOMAIN domains, Before))

\* Until no domain is a unit or one is empty.
propagate(m, domains, assignments) ==
    LET Step(s, i) ==
          IF ~ s.ok \/ Units(s.domains) = {} THEN s
          ELSE LET k == Min(Units(s.domains))
                   v == s.domains[k].v
                   f == CHOOSE x \in s.domains[k].values : TRUE
                   simple == propagate_simple_constraints(
                                m, [s.domains EXCEPT ![k].fixed = TRUE], v, f)
                   different == cheap_all_different(simple)
               IN  [domains |-> different.domains,
                    assignments |-> Append(s.assignments, <<v, f>>),
                    ok |-> AllNonempty(simple) /\ different.ok]
    IN  FoldLeft(Step, [domains |-> domains, assignments |-> assignments, ok |-> TRUE],
                 [i \in DOMAIN domains |-> i])

\* The smallest domain, of these the one of the largest degree, the first one.
find_branch_domain(m, domains) ==
    LET size(k) == Cardinality(domains[k].values)
        deg(k) == degree(m.pattern_rows[0], domains[k].v)
        Better(j, k) == \/ size(j) < size(k)
                        \/ size(j) = size(k) /\ deg(j) > deg(k)
                        \/ size(j) = size(k) /\ deg(j) = deg(k) /\ j < k
    IN  CHOOSE j \in Unfixed(domains) : \A k \in Unfixed(domains) \ {j} : Better(j, k)

copy_domains_and_assign(domains, v, f) ==
    LET Free(d) == ~ d.fixed
        left == SelectSeq(domains, Free)
    IN  [k \in DOMAIN left |-> IF left[k].v = v THEN [left[k] EXCEPT !.values = {f}] ELSE left[k]]

\* One child for each value of the branch domain, or the solution.
children(m, n) ==
    IF ~ n.propagationSuccess THEN <<>>
    ELSE IF Unfixed(n.domains) = {} THEN <<[n EXCEPT !.sat = TRUE]>>
    ELSE LET d == n.domains[find_branch_domain(m, n.domains)]
             branch == Sorted(d.values, <)
         IN  [i \in DOMAIN branch |->
                LET new == propagate(m, copy_domains_and_assign(n.domains, d.v, branch[i]),
                                     Append(n.assignments, <<d.v, branch[i]>>))
                IN  [domains |-> new.domains, assignments |-> new.assignments,
                     sat |-> FALSE, propagationSuccess |-> new.ok]]

\* The mapping that main prints.
isomorphism(m, n) ==
    {<<m.pattern_permutation[a[1] + 1], m.target_permutation[a[2] + 1]>> : a \in ToSet(n.assignments)}
-----------------------------------------------------------------------------
\* Reference: injective maps of the whole pattern that keep edges.
Solvable(m) == \E f \in Injection(DOMAIN m.pattern, DOMAIN m.target) :
    \A v \in DOMAIN m.pattern : \A w \in m.pattern[v] : f[w] \in m.target[f[v]]

Valid(m, n) ==
    LET M == isomorphism(m, n)
    IN  /\ \A p, q \in M : (p[1] = q[1]) = (p[2] = q[2])
        /\ {p[1] : p \in M} = {v \in DOMAIN m.pattern : m.pattern[v] # {}}
        /\ \A p, q \in M : q[1] \in m.pattern[p[1]] => q[2] \in m.target[p[2]]
=============================================================================
