-------------------------------- MODULE TSP ---------------------------------
(***************************************************************************)
(* The travelling salesman (apps/bnb/tsp): a node is a partial tour from   *)
(* city 1; the bound adds a minimum spanning tree of the cities to come.   *)
(* A space is [d, n]: the distances of cities 1..n + 1 and the number of   *)
(* cities.  buildDistanceMatrix leaves city n + 1 unset, and hpx_main      *)
(* gives it to greedyNN: its distances are whatever the space holds.       *)
(***************************************************************************)
EXTENDS Integers, FiniteSets, SequencesExt, Sorting

INT_MAX == 2147483647

root(s) == [cities |-> <<1>>, tourLength |-> 0, unvisited |-> 2..s.n]

\* A tour that is not complete has no length.
getObj(n) == IF n.unvisited = {} THEN n.tourLength ELSE INT_MAX

\* The k-th city of a bitset.
next_set(cities, k) == Sorted(cities, <)[k]

\* next(): the last city links back to the start.
child(s, n, k) ==
    LET city == next_set(n.unvisited, k)
        unvisited == n.unvisited \ {city}
        start == Head(n.cities)
        last == Last(n.cities)
        closing == IF unvisited = {} THEN <<start>> ELSE <<>>
    IN  [cities |-> Append(n.cities, city) \o closing, unvisited |-> unvisited,
         tourLength |-> n.tourLength + s.d[<<last, city>>]
                        + IF unvisited = {} THEN s.d[<<city, start>>] ELSE 0]

children(s, n) == [k \in 1..Cardinality(n.unvisited) |-> child(s, n, k)]

\* The first of the nearest cities.
Nearest(weight, cities) ==
    CHOOSE c \in cities : \A e \in cities \ {c} :
        weight[c] < weight[e] \/ (weight[c] = weight[e] /\ c < e)

\* Prim's algorithm from lastCity over remCities.
mst(s, lastCity, remCities) ==
    LET Step(t, i) ==
          LET c == Nearest(t.weights, t.rem)
          IN  [rem |-> t.rem \ {c}, w |-> t.w + t.weights[c],
               weights |-> [e \in remCities |->
                  IF s.d[<<c, e>>] < t.weights[e] THEN s.d[<<c, e>>] ELSE t.weights[e]]]
        start == [rem |-> remCities, w |-> 0,
                  weights |-> [e \in remCities |-> s.d[<<lastCity, e>>]]]
    IN  FoldLeft(Step, start, [i \in 1..Cardinality(remCities) |-> i]).w

boundFn(s, n) == n.tourLength + mst(s, Last(n.cities), n.unvisited \cup {Head(n.cities)})

\* The nearest neighbour tour of a set of cities.
greedyNN(d, cities, start) ==
    LET Step(t, i) ==
          LET c == Nearest([e \in t.rem |-> d[<<t.at, e>>]], t.rem)
          IN  [at |-> c, rem |-> t.rem \ {c}, dist |-> t.dist + d[<<t.at, c>>]]
        end == FoldLeft(Step, [at |-> start, rem |-> cities \ {start}, dist |-> 0],
                        [i \in 1..Cardinality(cities) - 1 |-> i])
    IN  end.dist + d[<<end.at, start>>]

\* hpx_main hands over one city too many.
initialBound(s) == greedyNN(s.d, 1..s.n + 1, 1)
-----------------------------------------------------------------------------
\* Reference: the tours from city 1.
Length(s, t) == FoldFunctionOnSet(+, 0, [i \in 1..s.n |-> s.d[<<t[i], t[(i % s.n) + 1]>>]], 1..s.n)

Optimum(s) == Min({Length(s, <<1>> \o t) : t \in SetToSeqs(2..s.n)})

Valid(s, n) == /\ Len(n.cities) = s.n + 1 /\ n.cities[s.n + 1] = 1
               /\ ToSet(n.cities) = 1..s.n
               /\ n.tourLength = Length(s, n.cities)
=============================================================================
