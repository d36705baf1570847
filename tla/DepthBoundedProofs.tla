------------------------- MODULE DepthBoundedProofs -------------------------
(***************************************************************************)
(* Proofs about DepthBounded for every tree, every cluster and every       *)
(* spawnDepth that the vectors of the pools cover: a task is in one place, *)
(* its promise tells the truth, search stops only when nothing is left,    *)
(* and the skeleton implements Enumeration.                                *)
(*                                                                         *)
(* The lemmas about pools and about trees are those of DepthPoolProofs and *)
(* ProcessNodeProofs, instantiated; their variables play no part in them.  *)
(***************************************************************************)
EXTENDS DepthBounded, FiniteSetTheorems, SequenceTheorems, TLAPS

\* Doubling the vector of queues once covers every depth a task is spawned at.
DepthsCovered == spawnDepth < 2 * InitDepth

Pools == INSTANCE DepthPoolProofs WITH
             Task <- Node, MaxTaskDepth <- spawnDepth, pool <- NewPool, reply <- NoTask,
             arrivals <- {}, submitted <- {}, delivered <- {}

\* An enumeration is a search without a bound.
PlainTag == [kind |-> "Enumeration", pruneLevel |-> FALSE, depthLimited |-> FALSE]

Trees == INSTANCE ProcessNodeProofs WITH
             Tags <- {PlainTag}, initialBound <- 0, expectedObjective <- 0,
             Obj <- Zero, Bound <- Zero, NoNode <- NoTask,
             tags <- PlainTag, child <- 0, ret <- 0, localBound <- 0, bounds <- 0,
             stopSearch <- 0, stops <- 0, incumbent <- 0
-----------------------------------------------------------------------------
\* A pool of tasks whose hint hides none and that holds none twice.
GoodPool(p) == Pools!GoodPool(p, Node) /\ p.max_depth \in Nat /\ p.max_depth >= InitDepth

LEMMA SameHandlers ==
    ASSUME NEW p
    PROVE  /\ Pools!steal(p) = steal(p)
           /\ Pools!getLocal(p) = getLocal(p)
           /\ Pools!Held(p) = Held(p)
           /\ \A t, d : Pools!addWork(p, t, d) = addWork(p, t, d)
           /\ Pools!IsPool(p, Node) <=> IsPool(p, Node)
<1>1. Pools!steal(p) = steal(p)
  BY DEF Pools!steal, steal, Pools!Popped, Popped, Pools!IsShallowest, IsShallowest,
         Pools!Scanned, Scanned
<1>2. Pools!getLocal(p) = getLocal(p)
  BY DEF Pools!getLocal, getLocal, Pools!Popped, Popped, Pools!IsDeepest, IsDeepest,
         Pools!Scanned, Scanned
<1>3. Pools!Held(p) = Held(p)
  BY DEF Pools!Held, Held, Pools!TasksAt, TasksAt
<1>4. \A t, d : Pools!addWork(p, t, d) = addWork(p, t, d)
  BY DEF Pools!addWork, addWork, Pools!Resized, Resized
<1>5. Pools!IsPool(p, Node) <=> IsPool(p, Node)
  BY DEF Pools!IsPool, IsPool
<1> QED
  BY <1>1, <1>2, <1>3, <1>4, <1>5

LEMMA PoolsAssumed == Pools!InitDepthAssumption /\ Pools!TaskAssumption
BY InitDepthAssumption, SearchAssumption DEF Pools!InitDepthAssumption, Pools!TaskAssumption

LEMMA HeldTyped ==
    ASSUME NEW p, GoodPool(p)
    PROVE  IsPool(p, Node) /\ Held(p) \subseteq Node /\ NoTask \notin Held(p)
<1>1. IsPool(p, Node)
  BY SameHandlers DEF GoodPool, Pools!GoodPool
<1>2. \A d \in DOMAIN p.pools : \A i \in 1..Len(p.pools[d]) : p.pools[d][i] \in Node
  BY <1>1, ElementOfSeq DEF IsPool
<1> QED
  BY <1>1, <1>2, SearchAssumption DEF Held, TasksAt

\* What getLocal and steal answer, and the pool they leave behind.
LEMMA HandlersAnswer ==
    ASSUME NEW p, GoodPool(p), NEW r \in {steal(p), getLocal(p)}
    PROVE  /\ GoodPool(r.pool)
           /\ \/ r.task = NoTask /\ Held(p) = {} /\ Held(r.pool) = {}
              \/ r.task \in Held(p) /\ Held(r.pool) = Held(p) \ {r.task}
<1>1. Pools!GoodPool(p, Node) /\ Pools!IsPool(p, Node)
  BY DEF GoodPool, Pools!GoodPool
<1>2. /\ Pools!HandsOut(p, steal(p)) /\ Pools!GoodPool(steal(p).pool, Node)
      /\ steal(p).pool.max_depth = p.max_depth
  BY <1>1, SameHandlers, PoolsAssumed, Pools!StealHandsOut, Pools!MaxDepthKept
<1>3. /\ Pools!HandsOut(p, getLocal(p)) /\ Pools!GoodPool(getLocal(p).pool, Node)
      /\ getLocal(p).pool.max_depth = p.max_depth
  BY <1>1, SameHandlers, PoolsAssumed, Pools!GetLocalHandsOut, Pools!MaxDepthKept
<1> QED
  BY <1>2, <1>3, SameHandlers DEF GoodPool, Pools!HandsOut

LEMMA addWorkAdds ==
    ASSUME NEW p, GoodPool(p), NEW t \in Node, t \notin Held(p),
           NEW depth \in Nat, depth < 2 * InitDepth
    PROVE  GoodPool(addWork(p, t, depth)) /\ Held(addWork(p, t, depth)) = Held(p) \cup {t}
<1>1. /\ Pools!GoodPool(p, Node) /\ p.max_depth \in Nat /\ p.max_depth >= InitDepth
      /\ depth < 2 * p.max_depth /\ InitDepth \in Nat
  BY InitDepthAssumption DEF GoodPool
<1> DEFINE q == addWork(p, t, depth)
<1>2. Pools!GoodPool(q, Node) /\ Held(q) = Held(p) \cup {t} /\ q.max_depth >= p.max_depth
  BY <1>1, SameHandlers, PoolsAssumed, Pools!AddWorkHolds
<1>3. q.max_depth \in Nat
  BY <1>2, SameHandlers DEF Pools!GoodPool, IsPool
<1> HIDE DEF q
<1>4. q.max_depth >= InitDepth
  BY <1>1, <1>2, <1>3
<1> QED
  BY <1>2, <1>3, <1>4 DEF GoodPool, q

LEMMA NewPoolEmpty == GoodPool(NewPool) /\ Held(NewPool) = {}
<1>1. Pools!NewPool = NewPool
  BY DEF Pools!NewPool, NewPool
<1>2. Pools!GoodPool(NewPool, Node) /\ Held(NewPool) = {}
  BY <1>1, SameHandlers, PoolsAssumed, Pools!NewPoolGood
<1> QED
  BY <1>2, InitDepthAssumption DEF GoodPool, NewPool
-----------------------------------------------------------------------------
LEMMA SameTree ==
    /\ \A S : Trees!Cardinality(S) = Cardinality(S)
    /\ \A S : Trees!IsFiniteSet(S) <=> IsFiniteSet(S)
    /\ \A n : Trees!numChildren(n) = numChildren(n)
    /\ \A n : Trees!Children(n) = Children(n)
    /\ \A n : Trees!Below(n) = Below(n)
    /\ \A n, i : Trees!Child(n, i) = Child(n, i)
    /\ Trees!Root = Root
<1>1. \A S : Trees!Cardinality(S) = Cardinality(S) /\ (Trees!IsFiniteSet(S) <=> IsFiniteSet(S))
  BY DEF Trees!Cardinality, Cardinality, Trees!IsFiniteSet, IsFiniteSet
<1> QED
  BY <1>1 DEF Trees!Children, Children, Trees!Child, Child, Trees!numChildren, numChildren,
              Trees!Below, Below, Trees!Root, Root

LEMMA TreesAssumed == Trees!TreeAssumption /\ Trees!BoundAssumption
<1>1. Trees!TreeAssumption
  BY TreeAssumption, SameTree DEF Trees!TreeAssumption
<1>2. /\ PlainTag \in [kind : Trees!Kinds, pruneLevel : BOOLEAN, depthLimited : BOOLEAN]
      /\ PlainTag.pruneLevel = FALSE /\ PlainTag.kind = "Enumeration"
  BY DEF PlainTag, Trees!Kinds
<1>3. \A n \in Node : \A m \in Trees!Below(n) \cup {n} : Zero[m] <= Zero[n]
  BY SameTree DEF Below, Zero
<1>4. Zero \in [Node -> Nat] /\ home \in [Worker -> Locality] /\ NoTask \notin Node
  BY SearchAssumption DEF Zero
<1> QED
  BY <1>1, <1>2, <1>3, <1>4 DEF Trees!BoundAssumption

LEMMA NodeLen ==
    ASSUME NEW n \in Node
    PROVE  n \in Seq(Nat) /\ Len(n) \in Nat /\ numChildren(n) \in Nat
BY TreesAssumed, SameTree, Trees!NodeTyped, Trees!NumChildrenNat

LEMMA ChildTyped ==
    ASSUME NEW n \in Node, NEW i \in 1..numChildren(n)
    PROVE  /\ Child(n, i) \in Node /\ i \in Nat \ {0}
           /\ Len(Child(n, i)) = Len(n) + 1 /\ Child(n, i)[Len(n) + 1] = i
           /\ SubSeq(Child(n, i), 1, Len(n)) = n
<1>1. i \in Nat \ {0}
  BY NodeLen
<1> QED
  BY <1>1, TreesAssumed, SameTree, Trees!ChildTyped, Trees!ChildInTree

LEMMA ChildUnique ==
    ASSUME NEW m \in Node, NEW n \in Node, NEW i \in 1..numChildren(m),
           NEW j \in 1..numChildren(n), Child(m, i) = Child(n, j)
    PROVE  m = n /\ i = j
<1>1. Len(m) \in Nat /\ Len(n) \in Nat
  BY NodeLen
<1>2. Len(m) = Len(n)
  BY <1>1, ChildTyped
<1>3. m = n
  BY <1>2, ChildTyped
<1>4. Child(m, i)[Len(m) + 1] = i /\ Child(n, j)[Len(n) + 1] = j
  BY ChildTyped
<1> QED
  BY <1>2, <1>3, <1>4

\* Every node but the root is a child.
LEMMA HasParent ==
    ASSUME NEW n \in Node, n # Root
    PROVE  \E m \in Node : \E i \in 1..numChildren(m) : n = Child(m, i)
<1>1. n \in Below(Root)
  BY TreesAssumed, SameTree, Trees!BelowRoot
<1> DEFINE d == Len(n) - 1
           m == SubSeq(n, 1, d)
<1>2. n \in Seq(Nat) /\ Len(n) \in Nat \ {0}
  BY <1>1, NodeLen, EmptySeq DEF Root
<1>3. m \in Node
  BY <1>2, TreeAssumption
<1>4. Len(m) = d
  <2>1. 1 \in Int /\ d \in Nat /\ \A i \in 1..d : n[i] \in Nat
    BY <1>2, ElementOfSeq
  <2> HIDE DEF d
  <2> QED
    BY <2>1, SubSeqProperties
<1>5. n \in Trees!NextLevel(m)
  BY <1>2, <1>4 DEF Trees!NextLevel
<1>6. n \in Children(m)
  BY <1>3, <1>5, TreesAssumed, SameTree, Trees!ChildrenExact
<1> QED
  BY <1>3, <1>6 DEF Children

LEMMA BelowThroughChild ==
    ASSUME NEW n \in Node, NEW m \in Below(n)
    PROVE  \E i \in 1..numChildren(n) : m \in Below(Child(n, i)) \cup {Child(n, i)}
BY TreesAssumed, SameTree, Trees!BelowThroughChild
-----------------------------------------------------------------------------
\* subtreeTask spawns the children of n (it takes the branch of
\* expandWithSpawns and does not cut off), ...
Spawns(n) == childDepth(n) <= spawnDepth /\ ~ CutOff(n)

\* ... passes these children's futures on, ...
Kids(n) == IF Spawns(n) THEN Children(n) ELSE {}

\* ... and accumulates these nodes.
Own(n) == IF childDepth(n) > spawnDepth THEN Visited(n) ELSE Kids(n)

\* The nodes that tasks are made for.
Reached(n) == n \in Node /\ Len(n) <= spawnDepth /\ (DepthLimited => Len(n) < maxDepth)

\* A task accumulates nodes of the search space below its own node.
LEMMA OwnBelow ==
    ASSUME NEW n, Reached(n)
    PROVE  Own(n) \subseteq Below(n) \cap Space
<1>1. /\ n \in Node /\ Len(n) \in Nat /\ maxDepth \in Nat /\ spawnDepth \in Nat
      /\ (DepthLimited => Len(n) < maxDepth)
  BY NodeLen, SearchAssumption DEF Reached
<1>2. Visited(n) \subseteq Below(n) \cap Space
  BY <1>1 DEF Visited, Below, Space
<1>3. ASSUME Spawns(n), NEW i \in 1..numChildren(n)
      PROVE  Child(n, i) \in Below(n) \cap Space
  BY <1>1, <1>3, ChildTyped DEF Spawns, CutOff, childDepth, Below, Space
<1>4. Kids(n) \subseteq Below(n) \cap Space
  BY <1>3 DEF Kids, Children
<1> QED
  BY <1>2, <1>4 DEF Own

\* Every node of the search space below a task's node is the task's own or is
\* below a child it spawned.
LEMMA OwnCovers ==
    ASSUME NEW n \in Node, NEW m \in Below(n) \cap Space
    PROVE  m \in Own(n) \/ \E c \in Kids(n) : m \in Below(c)
<1>1. /\ Len(n) \in Nat /\ Len(m) \in Nat /\ Len(m) > Len(n)
      /\ maxDepth \in Nat /\ spawnDepth \in Nat /\ (DepthLimited => Len(m) < maxDepth)
  BY NodeLen, SearchAssumption DEF Below, Space
<1>2. CASE childDepth(n) > spawnDepth
  BY <1>1, <1>2 DEF Own, Visited
<1>3. CASE childDepth(n) <= spawnDepth
  <2>1. Spawns(n)
    BY <1>1, <1>3 DEF Spawns, CutOff, childDepth
  <2>2. PICK i \in 1..numChildren(n) : m \in Below(Child(n, i)) \cup {Child(n, i)}
    BY BelowThroughChild
  <2>3. Child(n, i) \in Kids(n) /\ Own(n) = Kids(n)
    BY <1>1, <1>3, <2>1 DEF Kids, Children, Own, childDepth
  <2> QED
    BY <2>2, <2>3
<1> QED
  BY <1>1, <1>2, <1>3, SearchAssumption DEF childDepth

\* A node has one ancestor at each depth.
LEMMA AncestorsNested ==
    ASSUME NEW m \in Node, NEW n \in Node, NEW x \in Below(m), x \in Below(n),
           Len(m) = Len(n)
    PROVE  m = n
BY DEF Below

\* No node is accumulated by two tasks: if both are ancestors of it, the upper
\* one spawns, and accumulates only its children.
LEMMA OwnDisjoint ==
    ASSUME NEW m, Reached(m), NEW n, Reached(n), NEW x \in Own(m), x \in Own(n)
    PROVE  m = n
<1>1. /\ m \in Node /\ n \in Node /\ Len(m) \in Nat /\ Len(n) \in Nat
      /\ x \in Below(m) /\ x \in Below(n) /\ Len(x) \in Nat
      /\ spawnDepth \in Nat /\ maxDepth \in Nat
  BY OwnBelow, NodeLen, SearchAssumption DEF Reached, Below
<1>2. ASSUME NEW a, NEW b, Reached(a), Reached(b), x \in Own(a), x \in Below(b), Len(a) < Len(b)
      PROVE  FALSE
  <2>1. /\ a \in Node /\ Len(a) \in Nat /\ Len(b) \in Nat /\ Len(x) > Len(b)
        /\ childDepth(a) <= spawnDepth
    BY <1>1, <1>2, NodeLen DEF Reached, Below, childDepth
  <2>2. x \in Kids(a)
    BY <1>1, <1>2, <2>1 DEF Own, childDepth
  <2>3. PICK i \in 1..numChildren(a) : x = Child(a, i)
    BY <2>2 DEF Kids, Children
  <2>4. Len(x) = Len(a) + 1
    BY <2>1, <2>3, ChildTyped
  <2> QED
    BY <1>1, <1>2, <2>1, <2>4
<1>3. Len(m) = Len(n)
  BY <1>1, <1>2
<1> QED
  BY <1>1, <1>3, AncestorsNested
-----------------------------------------------------------------------------
\* The inductive invariant, about places.

\* A task for n exists.
Placed(n) == \/ \E l \in Locality : n \in Held(pool[l])
             \/ \E w \in Worker : Busy(w) /\ task[w] = n
             \/ \E tw \in waits : tw.task = n
             \/ n \in ready

\* The task of m has spawned its child i.
Left(m, i) == \/ \E w \in Worker : Busy(w) /\ task[w] = m /\ i < next[w]
              \/ \E tw \in waits : tw.task = m
              \/ m \in ready

Typed ==
    /\ pool = [l \in Locality |-> pool[l]]
    /\ \A l \in Locality : GoodPool(pool[l])
    /\ pc \in [Worker -> Places]
    /\ task \in [Worker -> Node \cup {NoTask}]
    /\ next \in [Worker -> Nat \ {0}]
    /\ acc \in [Worker -> SUBSET Node]
    /\ futures \in [Worker -> SUBSET Node]
    /\ enum \in [Locality -> [Node -> Nat]]
    /\ waits \subseteq [task : Node, futures : SUBSET Node]
    /\ ready \subseteq Node
    /\ main \in {"root", "create", "await", "stop", "returned"}

OnePlace ==
    /\ \A k, l \in Locality : \A n \in Held(pool[k]) : n \in Held(pool[l]) => k = l
    /\ \A v, w \in Worker : Busy(v) /\ Busy(w) /\ task[v] = task[w] => v = w
    /\ \A x, y \in waits : x.task = y.task => x = y
    /\ \A l \in Locality, w \in Worker : Busy(w) => task[w] \notin Held(pool[l])
    /\ \A l \in Locality : \A x \in waits : x.task \notin Held(pool[l])
    /\ \A l \in Locality : \A n \in ready : n \notin Held(pool[l])
    /\ \A w \in Worker : \A x \in waits : Busy(w) => task[w] # x.task
    /\ \A w \in Worker : Busy(w) => task[w] \notin ready
    /\ \A x \in waits : x.task \notin ready

\* What a running task has accumulated and spawned.
Frame(w) ==
    /\ task[w] \in Node
    /\ pc[w] = "expand" =>
          /\ futures[w] = {Child(task[w], i) : i \in 1..next[w] - 1}
          /\ acc[w] = futures[w]
          /\ IF Spawns(task[w]) THEN next[w] <= numChildren(task[w]) + 1
                                ELSE next[w] = 1
    /\ pc[w] = "count" => acc[w] = Own(task[w])
    /\ pc[w] \in {"count", "apply"} => /\ futures[w] = Kids(task[w])
                                       /\ Spawns(task[w]) => next[w] = numChildren(task[w]) + 1

Framed == \A w \in Worker : Busy(w) => Frame(w)

\* A promise is set after those of the children.
Settled == /\ \A tw \in waits : tw.futures = Kids(tw.task)
           /\ \A n \in ready : Kids(n) \subseteq ready

\* A task is the root's, or its parent has spawned it.
Parents ==
    /\ \A n \in Node : Placed(n) => Reached(n)
    /\ \A m \in Node : \A i \in 1..numChildren(m) :
          Placed(Child(m, i)) => Spawns(m) /\ Left(m, i)

\* Where search is, and that a task exists if and only if it was created.
Phases == /\ main \in {"root", "create"} => \A n \in Node : ~ Placed(n)
          /\ main \in {"stop", "returned"} => Root \in ready
          /\ main # "returned" => answer = -1
          /\ \A n \in Node : n \in created <=> Placed(n)

PlaceInv == Typed /\ OnePlace /\ Framed /\ Settled /\ Parents /\ Phases
-----------------------------------------------------------------------------
\* The inductive invariant, about counts.

\* The task of n has updated an enumerator.
Done(n) == \/ \E w \in Worker : pc[w] = "apply" /\ task[w] = n
           \/ \E tw \in waits : tw.task = n
           \/ n \in ready

\* One element for each time a locality has counted a node.
Counts == UNION {{<<l, n, k>> : k \in 1..enum[l][n]} : l \in Locality, n \in Node}

CountInv ==
    /\ IsFiniteSet(Counts)
    /\ \A n \in Node : Done(n) => Own(n) \subseteq Counted
    /\ \A n \in Counted : \/ n = Root /\ main # "root"
                          \/ \E m \in Node : Done(m) /\ n \in Own(m)
    /\ main # "root" => Root \in Counted
-----------------------------------------------------------------------------
LEMMA InitPlaces == Init => PlaceInv
<1> SUFFICES ASSUME Init PROVE PlaceInv
  OBVIOUS
<1>1. \A l \in Locality : GoodPool(pool[l]) /\ Held(pool[l]) = {}
  BY NewPoolEmpty DEF Init
<1>2. \A w \in Worker : ~ Busy(w)
  BY DEF Init, Busy
<1>3. Typed
  BY <1>1, SearchAssumption DEF Init, Typed, Places, Zero
<1>4. \A n \in Node : ~ Placed(n)
  BY <1>1, <1>2 DEF Placed, Init
<1>5. OnePlace /\ Framed /\ Settled
  BY <1>1, <1>2 DEF OnePlace, Framed, Settled, Init
<1>6. Parents
  BY <1>4, ChildTyped DEF Parents
<1> QED
  BY <1>3, <1>4, <1>5, <1>6 DEF PlaceInv, Phases, Init

\* A step that moves no task.
LEMMA Quiet ==
    ASSUME PlaceInv, Typed', Phases',
           \A l \in Locality : Held(pool'[l]) = Held(pool[l]),
           \A w \in Worker : pc'[w] # pc[w] => ~ Busy(w) /\ ~ Busy(w)',
           UNCHANGED <<task, next, acc, futures, waits, ready>>
    PROVE  PlaceInv'
<1>1. \A w \in Worker : Busy(w)' <=> Busy(w)
  BY DEF Busy
<1>2. \A w \in Worker : Busy(w) => pc'[w] = pc[w]
  OBVIOUS
<1>3. OnePlace'
  BY <1>1 DEF PlaceInv, OnePlace
<1>4. Framed'
  BY <1>1, <1>2 DEF PlaceInv, Framed, Frame
<1>5. Settled'
  BY DEF PlaceInv, Settled
<1>6. \A n : Placed(n)' <=> Placed(n)
  BY <1>1 DEF Placed
<1>7. \A m, i : Left(m, i) => Left(m, i)'
  BY <1>1 DEF Left
<1>8. Parents'
  BY <1>6, <1>7 DEF PlaceInv, Parents
<1> QED
  BY <1>3, <1>4, <1>5, <1>8 DEF PlaceInv

\* A handler answers a scheduler that asked for work.
LEMMA TakeKeeps ==
    ASSUME PlaceInv, NEW w \in Worker, pc[w] \in {"local", "steal", "again"},
           NEW l \in Locality, NEW r \in {steal(pool[l]), getLocal(pool[l])},
           NEW otherwise \in {"loop", "steal", "again"}, Take(w, l, r, otherwise)
    PROVE  PlaceInv'
<1>1. Typed /\ OnePlace /\ Framed /\ Settled /\ Parents /\ Phases
  BY DEF PlaceInv
<1>2. /\ GoodPool(r.pool)
      /\ \/ r.task = NoTask /\ Held(pool[l]) = {} /\ Held(r.pool) = {}
         \/ r.task \in Held(pool[l]) /\ Held(r.pool) = Held(pool[l]) \ {r.task}
      /\ Held(pool[l]) \subseteq Node /\ NoTask \notin Held(pool[l]) /\ NoTask \notin Node
  BY <1>1, HandlersAnswer, HeldTyped, SearchAssumption DEF Typed
<1>3. /\ pool' = [pool EXCEPT ![l] = r.pool]
      /\ UNCHANGED <<enum, waits, ready, created, running, joined, main, answer>>
      /\ ~ Busy(w)
  BY DEF Take, stop_vars, Busy
<1>4. /\ pool' = [k \in Locality |-> pool'[k]] /\ pool'[l] = r.pool
      /\ \A k \in Locality : GoodPool(pool'[k])
      /\ \A k \in Locality : k # l => pool'[k] = pool[k]
  BY <1>1, <1>2, <1>3 DEF Typed
<1> HIDE DEF Held
<1>5. CASE r.task = NoTask
  <2>1. pc' = [pc EXCEPT ![w] = otherwise] /\ UNCHANGED <<task, next, acc, futures>>
    BY <1>5 DEF Take, Goto, task_vars
  <2>2. \A k \in Locality : Held(pool'[k]) = Held(pool[k])
    BY <1>2, <1>4, <1>5
  <2>3. \A v \in Worker : pc'[v] # pc[v] => ~ Busy(v) /\ ~ Busy(v)'
    BY <1>1, <1>3, <2>1 DEF Busy, Typed
  <2>4. Typed'
    BY <1>1, <1>3, <1>4, <2>1 DEF Typed, Places
  <2>5. \A n : Placed(n)' <=> Placed(n)
    BY <2>1, <2>2, <2>3, <1>3 DEF Placed, Busy
  <2>6. Phases'
    BY <1>1, <1>3, <2>5 DEF Phases
  <2> QED
    BY <2>1, <2>2, <2>3, <2>4, <2>6, <1>3, Quiet
<1>6. CASE r.task # NoTask
  <2> DEFINE t == r.task
  <2>1. /\ t \in Held(pool[l]) /\ t \in Node
        /\ \A k \in Locality : Held(pool'[k]) = Held(pool[k]) \ {t}
    BY <1>1, <1>2, <1>4, <1>6 DEF OnePlace
  <2>2. /\ pc' = [pc EXCEPT ![w] = "expand"] /\ task' = [task EXCEPT ![w] = t]
        /\ next' = [next EXCEPT ![w] = 1] /\ acc' = [acc EXCEPT ![w] = {}]
        /\ futures' = [futures EXCEPT ![w] = {}]
    BY <1>6 DEF Take, Goto
  <2> HIDE DEF t
  <2>3. Typed'
    BY <1>1, <1>3, <1>4, <2>1, <2>2 DEF Typed, Places
  <2>4. /\ Busy(w)' /\ task'[w] = t /\ pc'[w] = "expand" /\ next'[w] = 1
        /\ acc'[w] = {} /\ futures'[w] = {}
        /\ \A v \in Worker \ {w} : /\ pc'[v] = pc[v] /\ (Busy(v)' <=> Busy(v))
                                   /\ task'[v] = task[v] /\ next'[v] = next[v]
                                   /\ acc'[v] = acc[v] /\ futures'[v] = futures[v]
    BY <1>1, <2>2 DEF Typed, Busy
  <2>5. OnePlace'
    <3>1. \A k \in Locality : Held(pool'[k]) \subseteq Held(pool[k]) /\ t \notin Held(pool'[k])
      BY <2>1
    <3>2. /\ \A v \in Worker : Busy(v) => task[v] # t
          /\ \A x \in waits : x.task # t
          /\ t \notin ready
      BY <1>1, <2>1 DEF OnePlace
    <3>3. \A v \in Worker : Busy(v)' => \/ v = w /\ task'[v] = t
                                        \/ v # w /\ Busy(v) /\ task'[v] = task[v]
      BY <2>4
    <3>4. \A k, j \in Locality : \A n \in Held(pool'[k]) : n \in Held(pool'[j]) => k = j
      BY <1>1, <3>1 DEF OnePlace
    <3>5. \A u, v \in Worker : Busy(u)' /\ Busy(v)' /\ task'[u] = task'[v] => u = v
      BY <1>1, <3>2, <3>3 DEF OnePlace
    <3>6. \A k \in Locality, v \in Worker : Busy(v)' => task'[v] \notin Held(pool'[k])
      BY <1>1, <3>1, <3>3 DEF OnePlace
    <3>7. \A v \in Worker : Busy(v)' => /\ \A x \in waits : task'[v] # x.task
                                        /\ task'[v] \notin ready
      BY <1>1, <3>2, <3>3 DEF OnePlace
    <3>8. \A k \in Locality : /\ \A x \in waits : x.task \notin Held(pool'[k])
                              /\ \A n \in ready : n \notin Held(pool'[k])
      BY <1>1, <3>1 DEF OnePlace
    <3> QED
      BY <1>1, <1>3, <3>4, <3>5, <3>6, <3>7, <3>8 DEF OnePlace
  <2>6. Framed'
    <3>1. {Child(t, i) : i \in 1..1 - 1} = {}
      OBVIOUS
    <3>2. 1 <= numChildren(t) + 1
      BY <2>1, NodeLen
    <3>3. Frame(w)'
      BY <2>1, <2>4, <3>1, <3>2 DEF Frame
    <3>4. ASSUME NEW v \in Worker \ {w}, Busy(v)' PROVE Frame(v)'
      BY <1>1, <2>4, <3>4 DEF Framed, Frame
    <3> QED
      BY <3>3, <3>4 DEF Framed
  <2>7. Settled'
    BY <1>1, <1>3 DEF Settled
  <2>8. \A n : Placed(n)' <=> Placed(n)
    BY <1>1, <1>3, <2>1, <2>4 DEF Placed
  <2>9. \A m, i : Left(m, i) => Left(m, i)'
    BY <1>3, <2>4 DEF Left
  <2>10. Parents' /\ Phases'
    BY <1>1, <1>3, <2>8, <2>9 DEF Parents, Phases
  <2> QED
    BY <2>3, <2>5, <2>6, <2>7, <2>10 DEF PlaceInv
<1> QED
  BY <1>5, <1>6

\* expandWithSpawns spawns a child, which has no task yet.
LEMMA SpawnKeeps ==
    ASSUME DepthsCovered, PlaceInv, NEW w \in Worker, SpawnChild(w)
    PROVE  PlaceInv'
<1>1. Typed /\ OnePlace /\ Framed /\ Settled /\ Parents /\ Phases
  BY DEF PlaceInv
<1>0. PICK m, i, h : m = task[w] /\ i = next[w] /\ h = home[w]
  OBVIOUS
<1> DEFINE c == Child(m, i)
<1>2. /\ pc[w] = "expand" /\ Spawns(m) /\ i <= numChildren(m)
      /\ acc' = [acc EXCEPT ![w] = @ \cup {c}]
      /\ futures' = [futures EXCEPT ![w] = @ \cup {c}]
      /\ pool' = [pool EXCEPT ![h] = addWork(@, c, childDepth(c) - 1)]
      /\ next' = [next EXCEPT ![w] = @ + 1]
      /\ created' = created \cup {c}
      /\ UNCHANGED <<pc, task, enum, waits, ready, running, joined, main, answer>>
  BY <1>0 DEF SpawnChild, createTask, Spawns, stop_vars
<1>3. Busy(w) /\ Frame(w) /\ m \in Node /\ h \in Locality /\ i \in Nat \ {0}
  BY <1>0, <1>1, <1>2, SearchAssumption DEF Busy, Framed, Frame, Typed
<1>4. /\ i \in 1..numChildren(m) /\ numChildren(m) \in Nat /\ c \in Node
      /\ Len(c) = Len(m) + 1 /\ Len(m) \in Nat
  BY <1>2, <1>3, NodeLen, ChildTyped
<1>5. Reached(c) /\ childDepth(c) - 1 \in Nat /\ childDepth(c) - 1 < 2 * InitDepth
  <2>1. Reached(m)
    BY <1>0, <1>1, <1>3 DEF Parents, Placed
  <2>2. Len(c) <= spawnDepth /\ (DepthLimited => Len(c) < maxDepth)
    BY <1>2, <1>4, <2>1, SearchAssumption DEF Spawns, CutOff, childDepth, Reached
  <2> QED
    BY <1>4, <2>2, InitDepthAssumption, SearchAssumption
       DEF Reached, childDepth, DepthsCovered
<1>6. ~ Placed(c)
  <2>1. SUFFICES ASSUME Placed(c) PROVE FALSE
    OBVIOUS
  <2>2. Left(m, i)
    BY <1>1, <1>3, <1>4, <2>1 DEF Parents
  <2> QED
    BY <1>0, <1>1, <1>3, <2>2 DEF Left, OnePlace
<1>7. /\ \A l \in Locality : GoodPool(pool'[l])
      /\ pool' = [l \in Locality |-> pool'[l]]
      /\ Held(pool'[h]) = Held(pool[h]) \cup {c}
      /\ \A l \in Locality : l # h => Held(pool'[l]) = Held(pool[l])
  <2>1. GoodPool(pool[h]) /\ c \notin Held(pool[h])
    BY <1>1, <1>3, <1>6 DEF Typed, Placed
  <2> DEFINE q == addWork(pool[h], c, childDepth(c) - 1)
  <2>2. GoodPool(q) /\ Held(q) = Held(pool[h]) \cup {c}
    BY <1>4, <1>5, <2>1, addWorkAdds
  <2>3. pool' = [pool EXCEPT ![h] = q]
    BY <1>2
  <2> HIDE DEF q, c
  <2> QED
    BY <1>1, <1>3, <2>2, <2>3 DEF Typed
<1> HIDE DEF c, Held
<1>8. /\ \A v \in Worker : (Busy(v)' <=> Busy(v)) /\ task'[v] = task[v] /\ pc'[v] = pc[v]
      /\ next'[w] = i + 1 /\ acc'[w] = acc[w] \cup {c} /\ futures'[w] = futures[w] \cup {c}
      /\ \A v \in Worker \ {w} : /\ next'[v] = next[v] /\ acc'[v] = acc[v]
                                 /\ futures'[v] = futures[v]
  BY <1>0, <1>1, <1>2 DEF Typed, Busy
<1>9. Typed'
  BY <1>1, <1>2, <1>3, <1>4, <1>7 DEF Typed
<1>10. OnePlace'
  <2>1. /\ \A l \in Locality : c \notin Held(pool[l])
        /\ \A v \in Worker : Busy(v) => task[v] # c
        /\ \A tw \in waits : tw.task # c
        /\ c \notin ready
    BY <1>6 DEF Placed
  <2>2. \A l \in Locality : \A n : n \in Held(pool'[l]) <=> n \in Held(pool[l]) \/ (l = h /\ n = c)
    BY <1>3, <1>7
  <2>3. waits' = waits /\ ready' = ready
    BY <1>2
  <2>4. \A k, l \in Locality : \A n \in Held(pool'[k]) : n \in Held(pool'[l]) => k = l
    BY <1>1, <2>1, <2>2 DEF OnePlace
  <2>5. \A v \in Worker : Busy(v)' => task'[v] # c /\ Busy(v) /\ task'[v] = task[v]
    BY <1>8, <2>1
  <2> QED
    BY <1>1, <2>1, <2>2, <2>3, <2>4, <2>5 DEF OnePlace
<1>11. Framed'
  <2>1. Frame(w)'
    <3>1. {Child(m, j) : j \in 1..(i + 1) - 1} = {Child(m, j) : j \in 1..i - 1} \cup {c}
      BY <1>3 DEF c
    <3>2. acc[w] = futures[w] /\ futures[w] = {Child(m, j) : j \in 1..i - 1}
      BY <1>0, <1>2, <1>3 DEF Frame
    <3>3. acc'[w] = futures'[w] /\ futures'[w] = {Child(m, j) : j \in 1..next'[w] - 1}
      BY <1>8, <3>1, <3>2
    <3>4. next'[w] <= numChildren(m) + 1 /\ task'[w] = m /\ pc'[w] = "expand"
      BY <1>0, <1>2, <1>3, <1>4, <1>8
    <3> QED
      BY <1>2, <1>3, <3>3, <3>4 DEF Frame
  <2>2. ASSUME NEW v \in Worker \ {w}, Busy(v)' PROVE Frame(v)'
    BY <1>1, <1>8, <2>2 DEF Framed, Frame
  <2> QED
    BY <2>1, <2>2 DEF Framed
<1>12. Settled'
  BY <1>1, <1>2 DEF Settled
<1>13. \A n : Placed(n)' <=> Placed(n) \/ n = c
  BY <1>2, <1>3, <1>7, <1>8 DEF Placed
<1>14. \A n, j : Left(n, j) /\ j \in Nat => Left(n, j)'
  BY <1>0, <1>2, <1>3, <1>8 DEF Left
<1>15. Left(m, i)'
  BY <1>0, <1>3, <1>8 DEF Left
<1>16. Parents'
  <2>1. \A n \in Node : Placed(n)' => Reached(n)
    BY <1>1, <1>5, <1>13 DEF Parents
  <2>2. ASSUME NEW n \in Node, NEW j \in 1..numChildren(n), Placed(Child(n, j))'
        PROVE  Spawns(n) /\ Left(n, j)'
    <3>1. j \in Nat
      BY NodeLen
    <3>2. CASE Placed(Child(n, j))
      BY <1>1, <1>14, <3>1, <3>2 DEF Parents
    <3>3. CASE Child(n, j) = c
      <4>1. n = m /\ j = i
        BY <1>3, <1>4, <3>3, ChildUnique DEF c
      <4> QED
        BY <1>2, <1>15, <4>1
    <3> QED
      BY <1>13, <2>2, <3>2, <3>3
  <2> QED
    BY <2>1, <2>2 DEF Parents
<1>17. Phases'
  BY <1>0, <1>1, <1>2, <1>3, <1>13 DEF Phases, Placed
<1> QED
  BY <1>9, <1>10, <1>11, <1>12, <1>16, <1>17 DEF PlaceInv

\* A running task goes on to its next step.
LEMMA RunsOn ==
    ASSUME PlaceInv, NEW w \in Worker, Typed', Frame(w)', Busy(w), Busy(w)',
           \A v \in Worker \ {w} : pc'[v] = pc[v] /\ acc'[v] = acc[v],
           UNCHANGED <<pool, task, next, futures, waits, ready, created, main, answer>>
    PROVE  PlaceInv'
<1>1. \A v \in Worker : Busy(v)' <=> Busy(v)
  BY DEF Busy
<1>2. OnePlace'
  BY <1>1 DEF PlaceInv, OnePlace
<1>3. Framed'
  <2>1. ASSUME NEW v \in Worker \ {w}, Busy(v)' PROVE Frame(v)'
    BY <1>1, <2>1 DEF PlaceInv, Framed, Frame
  <2> QED
    BY <2>1 DEF Framed
<1>4. Settled'
  BY DEF PlaceInv, Settled
<1>5. \A n : Placed(n)' <=> Placed(n)
  BY <1>1 DEF Placed
<1>6. \A m, i : Left(m, i) => Left(m, i)'
  BY <1>1 DEF Left
<1>7. Parents' /\ Phases'
  BY <1>5, <1>6 DEF PlaceInv, Parents, Phases
<1> QED
  BY <1>2, <1>3, <1>4, <1>7 DEF PlaceInv

LEMMA ExpandedKeeps ==
    ASSUME PlaceInv, NEW w \in Worker,
           ExpandedWithSpawns(w) \/ ExpandNoSpawns(w) \/ UpdateEnumerator(w)
    PROVE  PlaceInv'
<1>1. Typed /\ Busy(w) /\ Frame(w)
  BY DEF PlaceInv, Framed, ExpandedWithSpawns, ExpandNoSpawns, UpdateEnumerator, Busy
<1>2. Typed' /\ Busy(w)' /\ \A v \in Worker \ {w} : pc'[v] = pc[v] /\ acc'[v] = acc[v]
  <2>1. CASE ExpandedWithSpawns(w)
    BY <1>1, <2>1 DEF ExpandedWithSpawns, Goto, Typed, Busy, Places, task_vars, stop_vars
  <2>2. CASE ExpandNoSpawns(w)
    <3>1. Visited(task[w]) \subseteq Node
      BY DEF Visited, Below
    <3> QED
      BY <1>1, <2>2, <3>1 DEF ExpandNoSpawns, Goto, Typed, Busy, Places, stop_vars
  <2>3. CASE UpdateEnumerator(w)
    <3>1. home[w] \in Locality /\ enum \in [Locality -> [Node -> Nat]]
      BY <1>1, SearchAssumption DEF Typed
    <3>2. Add(enum[home[w]], acc[w]) \in [Node -> Nat]
      BY <3>1 DEF Add
    <3>3. enum' \in [Locality -> [Node -> Nat]]
      BY <2>3, <3>1, <3>2 DEF UpdateEnumerator
    <3> QED
      BY <1>1, <2>3, <3>3 DEF UpdateEnumerator, Goto, Typed, Busy, Places, task_vars, stop_vars
  <2> QED
    BY <2>1, <2>2, <2>3
<1>3. UNCHANGED <<pool, task, next, futures, waits, ready, created, main, answer>>
  BY DEF ExpandedWithSpawns, ExpandNoSpawns, UpdateEnumerator, task_vars, stop_vars
<1>4. Frame(w)'
  <2>1. task[w] \in Node /\ numChildren(task[w]) \in Nat /\ next[w] \in Nat
    BY <1>1, NodeLen DEF Frame, Typed
  <2>2. CASE ExpandedWithSpawns(w)
    <3>1. pc'[w] = "count" /\ acc'[w] = acc[w] /\ pc[w] = "expand"
      BY <1>1, <2>2 DEF ExpandedWithSpawns, Goto, Typed, task_vars
    <3>2. childDepth(task[w]) <= spawnDepth
      BY <2>2 DEF ExpandedWithSpawns
    <3>3. futures[w] = Kids(task[w]) /\ acc[w] = futures[w]
          /\ (Spawns(task[w]) => next[w] = numChildren(task[w]) + 1)
      <4>1. CASE Spawns(task[w])
        <5>1. next[w] = numChildren(task[w]) + 1
          BY <1>1, <2>1, <2>2, <3>1, <4>1 DEF Frame, ExpandedWithSpawns, Spawns
        <5>2. next[w] - 1 = numChildren(task[w])
          BY <2>1, <5>1
        <5> QED
          BY <1>1, <3>1, <4>1, <5>1, <5>2 DEF Frame, Kids, Children
      <4>2. CASE ~ Spawns(task[w])
        <5>1. next[w] = 1 /\ 1..1 - 1 = {}
          BY <1>1, <3>1, <4>2 DEF Frame
        <5> QED
          BY <1>1, <3>1, <4>2, <5>1 DEF Frame, Kids
      <4> QED
        BY <4>1, <4>2
    <3>4. Own(task[w]) = Kids(task[w])
      <4>1. childDepth(task[w]) \in Nat /\ spawnDepth \in Nat
        BY <2>1, NodeLen, SearchAssumption DEF childDepth
      <4> QED
        BY <3>2, <4>1 DEF Own
    <3> QED
      BY <1>3, <2>1, <3>1, <3>3, <3>4 DEF Frame
  <2>3. CASE ExpandNoSpawns(w)
    <3>1. /\ pc'[w] = "count" /\ acc'[w] = Visited(task[w]) /\ pc[w] = "expand"
          /\ childDepth(task[w]) > spawnDepth
      BY <1>1, <2>3 DEF ExpandNoSpawns, Goto, Typed
    <3>2. ~ Spawns(task[w])
      <4>1. childDepth(task[w]) \in Nat /\ spawnDepth \in Nat
        BY <2>1, NodeLen, SearchAssumption DEF childDepth
      <4> QED
        BY <3>1, <4>1 DEF Spawns
    <3>3. futures[w] = {}
      <4>1. next[w] = 1 /\ 1..1 - 1 = {}
        BY <1>1, <3>1, <3>2 DEF Frame
      <4> QED
        BY <1>1, <3>1, <4>1 DEF Frame
    <3> QED
      BY <1>3, <2>1, <3>1, <3>2, <3>3 DEF Frame, Kids, Own
  <2>4. CASE UpdateEnumerator(w)
    <3>1. pc'[w] = "apply" /\ pc[w] = "count"
      BY <1>1, <2>4 DEF UpdateEnumerator, Goto, Typed
    <3> QED
      BY <1>1, <1>3, <3>1 DEF Frame
  <2> QED
    BY <2>2, <2>3, <2>4
<1> QED
  BY <1>1, <1>2, <1>3, <1>4, RunsOn

LEMMA ApplyKeeps ==
    ASSUME PlaceInv, NEW w \in Worker, ApplyTermination(w)
    PROVE  PlaceInv'
<1>1. Typed /\ OnePlace /\ Framed /\ Settled /\ Parents /\ Phases
  BY DEF PlaceInv
<1>0. PICK m, f : m = task[w] /\ f = futures[w]
  OBVIOUS
<1> DEFINE tw == [task |-> m, futures |-> f]
<1>2. /\ pc[w] = "apply" /\ pc' = [pc EXCEPT ![w] = "loop"] /\ waits' = waits \cup {tw}
      /\ UNCHANGED <<pool, task, next, acc, futures, enum, ready, created, main, answer>>
  BY <1>0 DEF ApplyTermination, Goto, task_vars, stop_vars
<1>3. Busy(w) /\ m \in Node /\ f = Kids(m) /\ f \subseteq Node
  BY <1>0, <1>1, <1>2 DEF Busy, Framed, Frame, Typed
<1>4. tw.task = m /\ tw.futures = f /\ tw \in [task : Node, futures : SUBSET Node]
  BY <1>3
<1> HIDE DEF tw, Held
<1>5. /\ ~ Busy(w)'
      /\ \A v \in Worker \ {w} : pc'[v] = pc[v] /\ (Busy(v)' <=> Busy(v))
  BY <1>1, <1>2 DEF Typed, Busy
<1>6. Typed'
  BY <1>1, <1>2, <1>4 DEF Typed, Places
<1>7. OnePlace'
  <2>1. /\ \A l \in Locality : m \notin Held(pool[l])
        /\ \A v \in Worker \ {w} : Busy(v) => task[v] # m
        /\ \A x \in waits : x.task # m
        /\ m \notin ready
    BY <1>0, <1>1, <1>3 DEF OnePlace
  <2>2. \A v \in Worker : Busy(v)' => v # w /\ Busy(v)
    BY <1>5
  <2> QED
    BY <1>1, <1>2, <1>4, <2>1, <2>2 DEF OnePlace
<1>8. Framed'
  BY <1>1, <1>2, <1>5 DEF Framed, Frame
<1>9. Settled'
  BY <1>1, <1>2, <1>3, <1>4 DEF Settled
<1>10. \A n : Placed(n)' <=> Placed(n)
  BY <1>0, <1>2, <1>3, <1>4, <1>5 DEF Placed
<1>11. \A n, i : Left(n, i) => Left(n, i)'
  BY <1>0, <1>2, <1>4, <1>5 DEF Left
<1>12. Parents' /\ Phases'
  BY <1>1, <1>2, <1>10, <1>11 DEF Parents, Phases
<1> QED
  BY <1>6, <1>7, <1>8, <1>9, <1>12 DEF PlaceInv

LEMMA WaitKeeps ==
    ASSUME PlaceInv, NEW tw \in waits, TerminationWait(tw)
    PROVE  PlaceInv'
<1>1. Typed /\ OnePlace /\ Framed /\ Settled /\ Parents /\ Phases
  BY DEF PlaceInv
<1>2. /\ tw.futures \subseteq ready /\ ready' = ready \cup {tw.task} /\ waits' = waits \ {tw}
      /\ UNCHANGED <<pool, pc, task, next, acc, futures, enum, created, main, answer>>
  BY DEF TerminationWait, task_vars, stop_vars
<1>3. tw.task \in Node /\ tw.futures = Kids(tw.task)
  BY <1>1 DEF Typed, Settled
<1> HIDE DEF Held
<1>4. Typed'
  BY <1>1, <1>2, <1>3 DEF Typed
<1>5. \A v \in Worker : Busy(v)' <=> Busy(v)
  BY <1>2 DEF Busy
<1>6. OnePlace'
  BY <1>1, <1>2, <1>5 DEF OnePlace
<1>7. Framed' /\ Settled'
  BY <1>1, <1>2, <1>3, <1>5 DEF Framed, Frame, Settled
<1>8. \A n : Placed(n)' <=> Placed(n)
  BY <1>2, <1>5 DEF Placed
<1>9. \A n, i : Left(n, i) => Left(n, i)'
  BY <1>2, <1>5 DEF Left
<1>10. Parents' /\ Phases'
  BY <1>1, <1>2, <1>8, <1>9 DEF Parents, Phases
<1> QED
  BY <1>4, <1>6, <1>7, <1>10 DEF PlaceInv

LEMMA CreateKeeps ==
    ASSUME DepthsCovered, PlaceInv, CreateRoot
    PROVE  PlaceInv'
<1>1. Typed /\ OnePlace /\ Framed /\ Settled /\ Parents /\ Phases
  BY DEF PlaceInv
<1>2. /\ main = "create" /\ main' = "await"
      /\ pool' = [pool EXCEPT ![MainLoc] = addWork(@, Root, childDepth(Root) - 1)]
      /\ created' = created \cup {Root}
      /\ UNCHANGED <<pc, task, next, acc, futures, enum, waits, ready, answer>>
  BY DEF CreateRoot, createTask, task_vars
<1>3. /\ Root \in Node /\ Len(Root) = 0 /\ MainLoc \in Locality /\ 0 < 2 * InitDepth
      /\ childDepth(Root) - 1 = 0 /\ Reached(Root)
  BY TreeAssumption, SearchAssumption, InitDepthAssumption DEF Root, childDepth, Reached
<1>4. \A n \in Node : ~ Placed(n)
  BY <1>1, <1>2 DEF Phases
<1>5. \A n : ~ Placed(n)
  BY <1>1, <1>4, HeldTyped DEF Typed, Placed, Framed, Frame
<1>6. \A l \in Locality : Held(pool[l]) = {}
  BY <1>5 DEF Placed
<1>7. /\ \A w \in Worker : ~ Busy(w) /\ ~ Busy(w)'
      /\ waits = {} /\ waits' = {} /\ ready = {} /\ ready' = {}
  BY <1>1, <1>2, <1>5 DEF Placed, Busy
<1>8. /\ \A l \in Locality : GoodPool(pool'[l])
      /\ pool' = [l \in Locality |-> pool'[l]]
      /\ \A l \in Locality : Held(pool'[l]) = IF l = MainLoc THEN {Root} ELSE {}
  <2> DEFINE q == addWork(pool[MainLoc], Root, 0)
  <2>1. GoodPool(q) /\ Held(q) = {Root}
    <3>1. GoodPool(pool[MainLoc]) /\ Held(pool[MainLoc]) = {} /\ Root \in Node /\ 0 \in Nat
      BY <1>1, <1>3, <1>6 DEF Typed
    <3> HIDE DEF Held
    <3>2. GoodPool(q) /\ Held(q) = Held(pool[MainLoc]) \cup {Root}
      BY <1>3, <3>1, addWorkAdds
    <3> QED
      BY <3>1, <3>2
  <2>2. pool' = [pool EXCEPT ![MainLoc] = q]
    BY <1>2, <1>3
  <2> HIDE DEF q
  <2> QED
    BY <1>1, <1>3, <1>6, <2>1, <2>2 DEF Typed
<1> HIDE DEF Held
<1>9. Typed'
  BY <1>1, <1>2, <1>8 DEF Typed
<1>10. OnePlace'
  BY <1>7, <1>8 DEF OnePlace
<1>11. Framed' /\ Settled'
  BY <1>7 DEF Framed, Settled
<1>12. \A n : Placed(n)' <=> n = Root
  BY <1>3, <1>7, <1>8 DEF Placed
<1>13. Parents'
  <2>1. ASSUME NEW m \in Node, NEW i \in 1..numChildren(m) PROVE Child(m, i) # Root
    BY <1>3, NodeLen, ChildTyped
  <2> QED
    BY <1>3, <1>12, <2>1 DEF Parents
<1>14. Phases'
  <2>1. \A n \in Node : n \notin created
    BY <1>1, <1>4 DEF Phases
  <2>2. \A n \in Node : (n \in created)' <=> Placed(n)'
    BY <1>2, <1>12, <2>1
  <2> QED
    BY <1>1, <1>2, <2>2 DEF Phases
<1> QED
  BY <1>9, <1>10, <1>11, <1>13, <1>14 DEF PlaceInv

LEMMA NextPlaces == DepthsCovered /\ PlaceInv /\ [Next]_vars => PlaceInv'
<1> SUFFICES ASSUME DepthsCovered, PlaceInv, [Next]_vars PROVE PlaceInv'
  OBVIOUS
<1>1. Typed /\ Phases
  BY DEF PlaceInv
<1>2. ASSUME NEW w \in Worker, Register(w) \/ Loop(w) PROVE PlaceInv'
  <2>1. /\ UNCHANGED <<pool, task, next, acc, futures, enum, waits, ready, created, main, answer>>
        /\ pc[w] \in {"new", "loop"} /\ \E p \in {"loop", "local", "gone"} :
              pc' = [pc EXCEPT ![w] = p]
    BY <1>2 DEF Register, Loop, Goto, task_vars, stop_vars
  <2>2. Typed'
    BY <1>1, <2>1 DEF Typed, Places
  <2>3. \A v \in Worker : pc'[v] # pc[v] => ~ Busy(v) /\ ~ Busy(v)'
    BY <1>1, <2>1 DEF Typed, Busy
  <2>4. \A n : Placed(n)' <=> Placed(n)
    BY <2>1, <2>3 DEF Placed, Busy
  <2>5. Phases'
    BY <1>1, <2>1, <2>4 DEF Phases
  <2> QED
    BY <2>1, <2>2, <2>3, <2>5, Quiet
<1>3. ASSUME NEW w \in Worker, TakeLocal(w) \/ StealFirst(w) \/ StealAgain(w) PROVE PlaceInv'
  <2>1. home[w] \in Locality
    BY SearchAssumption
  <2>2. CASE TakeLocal(w)
    BY <2>1, <2>2, TakeKeeps DEF TakeLocal
  <2>3. CASE StealFirst(w) \/ StealAgain(w)
    BY <2>3, TakeKeeps DEF StealFirst, StealAgain
  <2> QED
    BY <1>3, <2>2, <2>3
<1>4. ASSUME NEW w \in Worker, Step(w) PROVE PlaceInv'
  BY <1>2, <1>3, <1>4, SpawnKeeps, ExpandedKeeps, ApplyKeeps DEF Step
<1>5. ASSUME UNCHANGED <<pool, pc, task, next, acc, futures, waits, ready>>, Typed', Phases'
      PROVE  PlaceInv'
  <2>1. /\ \A l \in Locality : Held(pool'[l]) = Held(pool[l])
        /\ \A w \in Worker : pc'[w] # pc[w] => ~ Busy(w) /\ ~ Busy(w)'
    BY <1>5
  <2> QED
    BY <1>5, <2>1, Quiet
<1>6. ASSUME UNCHANGED <<pool, pc, task, next, acc, futures, waits, ready>>
      PROVE  \A n : Placed(n)' <=> Placed(n)
  BY <1>6 DEF Placed, Busy
<1>7. CASE AccumulateRoot
  <2>1. Add(enum[MainLoc], {Root}) \in [Node -> Nat]
    BY <1>1, SearchAssumption DEF Typed, Add
  <2>2. enum' \in [Locality -> [Node -> Nat]]
    BY <1>1, <1>7, <2>1 DEF AccumulateRoot, Typed
  <2>3. Typed' /\ UNCHANGED <<pool, pc, task, next, acc, futures, waits, ready>>
    BY <1>1, <1>7, <2>2 DEF AccumulateRoot, Typed, task_vars
  <2>4. Phases'
    BY <1>1, <1>6, <1>7, <2>3 DEF AccumulateRoot, Phases
  <2> QED
    BY <1>5, <2>3, <2>4
<1>8. CASE RootReady
  <2>1. Typed' /\ UNCHANGED <<pool, pc, task, next, acc, futures, waits, ready>>
    BY <1>1, <1>8 DEF RootReady, Typed, task_vars
  <2>2. Phases'
    BY <1>1, <1>6, <1>8, <2>1 DEF RootReady, Phases
  <2> QED
    BY <1>5, <2>1, <2>2
<1>9. CASE combineEnumerators
  <2>1. Typed' /\ UNCHANGED <<pool, pc, task, next, acc, futures, waits, ready>>
    BY <1>1, <1>9 DEF combineEnumerators, Typed, task_vars
  <2>2. Phases'
    BY <1>1, <1>6, <1>9, <2>1 DEF combineEnumerators, Phases
  <2> QED
    BY <1>5, <2>1, <2>2
<1>10. CASE UNCHANGED vars \/ \E l \in Locality : StopFlag(l) \/ Join(l)
  <2>1. UNCHANGED <<pool, pc, task, next, acc, futures, enum, waits, ready, created, main, answer>>
    BY <1>10 DEF vars, StopFlag, Join, task_vars, stop_vars
  <2>2. Typed'
    BY <1>1, <2>1 DEF Typed
  <2>3. Phases'
    BY <1>1, <1>6, <2>1 DEF Phases
  <2> QED
    BY <1>5, <2>1, <2>2, <2>3
<1> QED
  BY <1>4, <1>7, <1>8, <1>9, <1>10, CreateKeeps, WaitKeeps DEF Next, Search

\* The invariant about places holds: pools, running tasks and waiting promises of
\* DepthBounded.hpp together hold each task of the tree at one place.
THEOREM PlacesHold == ASSUME DepthsCovered PROVE Spec => []PlaceInv
<1> QED
  BY InitPlaces, NextPlaces, PTL DEF Spec

\* A task is queued, running, waiting or done, at one place: neither a steal nor
\* the two attempts of getWork duplicate it (DepthBounded.hpp, Workpool
\* handlers), whatever the tree and the cluster.
THEOREM TaskAtOnePlace == ASSUME DepthsCovered PROVE Spec => []TaskInOnePlace
<1>1. PlaceInv => TaskInOnePlace
  <2> SUFFICES ASSUME PlaceInv, NEW n \in Node
               PROVE  Cardinality(PlacesOf(n)) = IF n \in created THEN 1 ELSE 0
    BY DEF TaskInOnePlace
  <2>1. \A a, b \in PlacesOf(n) : a = b
    <3> HIDE DEF Held
    <3> QED
      BY DEF PlaceInv, OnePlace, PlacesOf
  <2>2. PlacesOf(n) # {} <=> n \in created
    <3> HIDE DEF Held
    <3>1. PlacesOf(n) # {} <=> Placed(n)
      BY DEF PlacesOf, Placed
    <3> QED
      BY <3>1 DEF PlaceInv, Phases
  <2> HIDE DEF PlacesOf
  <2>3. CASE PlacesOf(n) = {}
    BY <2>2, <2>3, FS_EmptySet
  <2>4. CASE PlacesOf(n) # {}
    <3>1. PICK a : PlacesOf(n) = {a}
      BY <2>1, <2>4
    <3>2. Cardinality({a}) = 1
      BY FS_Singleton
    <3> QED
      BY <2>2, <2>4, <3>1, <3>2
  <2> QED
    BY <2>3, <2>4
<1> QED
  BY <1>1, PlacesHold, PTL

\* When search stops the schedulers no task is left: of the tasks that are not
\* done take one nearest to the root; its parent is done, so it is as well.
LEMMA StopsQuiet == PlaceInv => StopMeansQuiet
<1> SUFFICES ASSUME PlaceInv, main \in {"stop", "returned"}
             PROVE  /\ \A l \in Locality : Held(pool[l]) = {}
                    /\ \A w \in Worker : ~ Busy(w)
                    /\ waits = {}
  BY DEF StopMeansQuiet
<1>1. Typed /\ OnePlace /\ Framed /\ Settled /\ Parents /\ Root \in ready
  BY DEF PlaceInv, Phases
<1> DEFINE Undone == {n \in Node : Placed(n) /\ n \notin ready}
<1>2. Undone = {}
  <2> SUFFICES ASSUME Undone # {} PROVE FALSE
    OBVIOUS
  <2> DEFINE D == {Len(n) : n \in Undone}
  <2>1. D \subseteq Nat /\ D # {}
    BY NodeLen
  <2>2. PICK n \in Undone : \A m \in Undone : Len(n) <= Len(m)
    <3> HIDE DEF D
    <3>1. PICK d \in D : \A e \in D : d <= e
      BY <2>1, PoolsAssumed, Pools!LeastExists
    <3> USE DEF D
    <3> QED
      BY <3>1
  <2>3. PICK m \in Node : \E j \in 1..numChildren(m) : n = Child(m, j)
    BY <1>1, HasParent
  <2>i. PICK i \in 1..numChildren(m) : n = Child(m, i)
    BY <2>3
  <2>4. Spawns(m) /\ Left(m, i) /\ n \in Kids(m)
    BY <1>1, <2>i DEF Parents, Kids, Children
  <2>5. m \notin ready
    BY <1>1, <2>4 DEF Settled
  <2>6. m \in Undone
    BY <2>4, <2>5 DEF Left, Placed
  <2>7. Len(n) = Len(m) + 1 /\ Len(m) \in Nat
    BY <2>i, NodeLen, ChildTyped
  <2> QED
    BY <2>2, <2>6, <2>7
<1>3. \A n \in Node : Placed(n) => n \in ready
  BY <1>2
<1>4. ASSUME NEW l \in Locality PROVE Held(pool[l]) = {}
  <2>1. Held(pool[l]) \subseteq Node
    BY <1>1, HeldTyped DEF Typed
  <2> QED
    BY <1>1, <1>3, <2>1 DEF Placed, OnePlace
<1>5. ASSUME NEW w \in Worker PROVE ~ Busy(w)
  BY <1>1, <1>3 DEF Placed, OnePlace, Framed, Frame
<1>6. waits = {}
  BY <1>1, <1>3 DEF Placed, OnePlace, Typed
<1> QED
  BY <1>4, <1>5, <1>6

\* When search calls stopSchedulers (DepthBounded.hpp) no task is queued, running
\* or waiting anywhere, however late the last termination_wait was started.
THEOREM StopQuiet == ASSUME DepthsCovered PROVE Spec => []StopMeansQuiet
<1> QED
  BY StopsQuiet, PlacesHold, PTL
-----------------------------------------------------------------------------
LEMMA CountsMembers ==
    ASSUME NEW e, NEW x
    PROVE  x \in UNION {{<<l, n, k>> : k \in 1..e[l][n]} : l \in Locality, n \in Node}
              <=> \E l \in Locality : \E n \in Node : \E k \in 1..e[l][n] : x = <<l, n, k>>
<1> DEFINE of(l, n) == {<<l, n, k>> : k \in 1..e[l][n]}
           all == {of(l, n) : l \in Locality, n \in Node}
<1>1. \A l \in Locality, n \in Node : of(l, n) \in all
  OBVIOUS
<1>2. \A T \in all : \E l \in Locality, n \in Node : T = of(l, n)
  OBVIOUS
<1>3. \A l, n : x \in of(l, n) <=> \E k \in 1..e[l][n] : x = <<l, n, k>>
  OBVIOUS
<1> HIDE DEF of, all
<1>4. x \in UNION all <=> \E l \in Locality, n \in Node : x \in of(l, n)
  BY <1>1, <1>2
<1>5. x \in UNION all <=> \E l \in Locality : \E n \in Node : \E k \in 1..e[l][n] : x = <<l, n, k>>
  BY <1>3, <1>4
<1> QED
  BY <1>5 DEF all, of

\* Nodes that no locality has counted yet are added to an enumerator.
LEMMA AddCounts ==
    ASSUME Typed, IsFiniteSet(Counts), NEW l \in Locality, NEW S \in SUBSET Node,
           S \cap Counted = {}, enum' = [enum EXCEPT ![l] = Add(@, S)]
    PROVE  /\ Counted' = Counted \cup S
           /\ IsFiniteSet(Counts')
           /\ Total' = Total + Cardinality(S)
<1>1. enum \in [Locality -> [Node -> Nat]]
  BY DEF Typed
<1>2. \A k \in Locality, n \in Node :
         enum'[k][n] = enum[k][n] + IF k = l /\ n \in S THEN 1 ELSE 0
  BY <1>1 DEF Add
<1>3. \A k \in Locality, n \in S : enum[k][n] = 0
  BY <1>1 DEF Counted
<1>4. Counted' = Counted \cup S
  <2>1. ASSUME NEW n \in Node PROVE n \in Counted' <=> n \in Counted \/ n \in S
    BY <1>1, <1>2 DEF Counted
  <2> QED
    BY <2>1 DEF Counted
<1> DEFINE f == [n \in S |-> <<l, n, 1>>]
           N == {<<l, n, 1>> : n \in S}
<1>5. Counts' = Counts \cup N
  <2>1. ASSUME NEW k \in Locality, NEW n \in Node, NEW j
        PROVE  j \in 1..enum'[k][n] <=> j \in 1..enum[k][n] \/ (k = l /\ n \in S /\ j = 1)
    <3>1. CASE k = l /\ n \in S
      <4>1. enum[k][n] = 0 /\ enum'[k][n] = 1
        BY <1>2, <1>3, <3>1
      <4> QED
        BY <3>1, <4>1
    <3>2. CASE ~ (k = l /\ n \in S)
      BY <1>1, <1>2, <3>2
    <3> QED
      BY <3>1, <3>2
  <2>2. /\ \A x : x \in Counts' <=> \E k \in Locality : \E n \in Node :
                       \E j \in 1..enum'[k][n] : x = <<k, n, j>>
        /\ \A x : x \in Counts <=> \E k \in Locality : \E n \in Node :
                       \E j \in 1..enum[k][n] : x = <<k, n, j>>
    BY CountsMembers DEF Counts
  <2>3. ASSUME NEW x PROVE x \in Counts' <=> x \in Counts \/ x \in N
    BY <2>1, <2>2
  <2> QED
    BY <2>3
<1>6. Counts \cap N = {}
  <2> SUFFICES ASSUME NEW n \in S, <<l, n, 1>> \in Counts PROVE FALSE
    OBVIOUS
  <2>1. \E k \in Locality : \E m \in Node : \E j \in 1..enum[k][m] : <<l, n, 1>> = <<k, m, j>>
    BY CountsMembers DEF Counts
  <2>2. 1 \in 1..enum[l][n]
    BY <2>1
  <2> QED
    BY <1>3, <2>2
<1>7. IsFiniteSet(S)
  BY TreeAssumption, FS_Subset
<1>8. IsFiniteSet(N) /\ Cardinality(N) = Cardinality(S)
  <2>1. f \in Bijection(S, N)
    BY DEF Bijection, Injection, Surjection, IsInjective
  <2>2. ExistsBijection(S, N)
    BY <2>1 DEF ExistsBijection
  <2> HIDE DEF N, f
  <2> QED
    BY <1>7, <2>2, FS_Bijection
<1> HIDE DEF N
<1>9. IsFiniteSet(Counts') /\ Cardinality(Counts') = Cardinality(Counts) + Cardinality(N)
  <2>1. Counts \cap N = {} /\ Cardinality(Counts) \in Nat /\ Cardinality(N) \in Nat
    BY <1>6, <1>8, FS_CardinalityType
  <2> HIDE DEF Counts
  <2>2. /\ IsFiniteSet(Counts \cup N)
        /\ Cardinality(Counts \cup N)
              = Cardinality(Counts) + Cardinality(N) - Cardinality(Counts \cap N)
    BY <1>8, FS_Union
  <2>3. Cardinality(Counts \cap N) = 0
    BY <2>1, FS_EmptySet
  <2> QED
    BY <1>5, <2>1, <2>2, <2>3
<1> QED
  BY <1>4, <1>8, <1>9 DEF Total, Counts

\* Only updateEnumerator and the root's own count move a count, and only
\* updateEnumerator completes a task's part.
LEMMA DoneStable ==
    ASSUME PlaceInv, [Next]_vars, \A w \in Worker : ~ UpdateEnumerator(w)
    PROVE  \A n \in Node : Done(n)' <=> Done(n)
<1>1. Typed
  BY DEF PlaceInv
<1>2. ASSUME NEW w \in Worker, Register(w) \/ Loop(w) \/ SpawnChild(w)
                               \/ ExpandedWithSpawns(w) \/ ExpandNoSpawns(w)
      PROVE  \A n \in Node : Done(n)' <=> Done(n)
  <2>1. /\ UNCHANGED <<task, waits, ready>>
        /\ \A v \in Worker : pc'[v] = "apply" <=> pc[v] = "apply"
    BY <1>1, <1>2 DEF Register, Loop, SpawnChild, ExpandedWithSpawns, ExpandNoSpawns,
                      Goto, Typed, task_vars
  <2> QED
    BY <2>1 DEF Done
<1>3. ASSUME NEW w \in Worker, TakeLocal(w) \/ StealFirst(w) \/ StealAgain(w)
      PROVE  \A n \in Node : Done(n)' <=> Done(n)
  <2>1. pc[w] \in {"local", "steal", "again"}
    BY <1>3 DEF TakeLocal, StealFirst, StealAgain
  <2>2. PICK p \in {"expand", "loop", "steal", "again"} :
           /\ pc' = [pc EXCEPT ![w] = p] /\ UNCHANGED <<waits, ready>>
           /\ \/ task' = task
              \/ \E t : task' = [task EXCEPT ![w] = t]
    BY <1>3 DEF TakeLocal, StealFirst, StealAgain, Take, Goto, task_vars
  <2>3. \A v \in Worker : (pc'[v] = "apply" <=> pc[v] = "apply")
                          /\ (pc[v] = "apply" => task'[v] = task[v])
    BY <1>1, <2>1, <2>2 DEF Typed
  <2> QED
    BY <2>2, <2>3 DEF Done
<1>4. ASSUME NEW w \in Worker, ApplyTermination(w)
      PROVE  \A n \in Node : Done(n)' <=> Done(n)
  <2>1. PICK tw : tw.task = task[w] /\ waits' = waits \cup {tw}
    <3>1. [task |-> task[w], futures |-> futures[w]].task = task[w]
      OBVIOUS
    <3> QED
      BY <1>4, <3>1 DEF ApplyTermination
  <2>2. /\ pc[w] = "apply" /\ pc' = [pc EXCEPT ![w] = "loop"]
        /\ UNCHANGED <<task, ready>>
    BY <1>4 DEF ApplyTermination, Goto, task_vars
  <2>3. \A v \in Worker : pc'[v] = "apply" <=> pc[v] = "apply" /\ v # w
    BY <1>1, <2>2 DEF Typed
  <2> QED
    BY <2>1, <2>2, <2>3 DEF Done
<1>5. ASSUME NEW tw \in waits, TerminationWait(tw)
      PROVE  \A n \in Node : Done(n)' <=> Done(n)
  BY <1>5 DEF TerminationWait, Done, task_vars
<1>6. ASSUME Search \/ UNCHANGED vars
      PROVE  \A n \in Node : Done(n)' <=> Done(n)
  <2>1. UNCHANGED <<pc, task, waits, ready>>
    BY <1>6 DEF Search, AccumulateRoot, CreateRoot, RootReady, combineEnumerators,
                StopFlag, Join, vars, task_vars
  <2> QED
    BY <2>1 DEF Done
<1> QED
  BY <1>2, <1>3, <1>4, <1>5, <1>6 DEF Next, Step

LEMMA CountsStable ==
    ASSUME [Next]_vars, \A w \in Worker : ~ UpdateEnumerator(w), ~ AccumulateRoot
    PROVE  /\ UNCHANGED <<enum, Counted, Counts, Total>>
           /\ main # "root" <=> main' # "root"
           /\ answer' = answer \/ combineEnumerators
<1>1. enum' = enum /\ (main # "root" <=> main' # "root") /\ (answer' = answer \/ combineEnumerators)
  BY DEF Next, Step, Search, Register, Loop, TakeLocal, StealFirst, StealAgain, Take,
         SpawnChild, ExpandedWithSpawns, ExpandNoSpawns, ApplyTermination,
         TerminationWait, CreateRoot, RootReady, combineEnumerators, StopFlag, Join,
         vars, task_vars, stop_vars
<1> QED
  BY <1>1 DEF Counted, Counts, Total

\* What a task is about to add has not been counted, because no other task
\* accumulates it.
LEMMA FreshPart ==
    ASSUME PlaceInv, CountInv, NEW w \in Worker, UpdateEnumerator(w)
    PROVE  /\ task[w] \in Node /\ home[w] \in Locality
           /\ acc[w] = Own(task[w]) /\ acc[w] \subseteq Node \cap Space
           /\ acc[w] \cap Counted = {}
           /\ enum' = [enum EXCEPT ![home[w]] = Add(@, acc[w])]
           /\ main \notin {"root", "create", "stop", "returned"} /\ main' = main
           /\ answer' = answer
           /\ \A n \in Node : Done(n)' <=> Done(n) \/ n = task[w]
<1>1. /\ pc[w] = "count" /\ pc' = [pc EXCEPT ![w] = "apply"]
      /\ enum' = [enum EXCEPT ![home[w]] = Add(@, acc[w])]
      /\ UNCHANGED <<task, waits, ready, main, answer>>
  BY DEF UpdateEnumerator, Goto, task_vars, stop_vars
<1>2. Typed /\ OnePlace /\ Framed /\ Parents /\ Phases /\ Busy(w) /\ Frame(w)
  BY <1>1 DEF PlaceInv, Framed, Busy
<1>3. task[w] \in Node /\ home[w] \in Locality /\ acc[w] = Own(task[w]) /\ Placed(task[w])
  BY <1>1, <1>2, SearchAssumption DEF Frame, Placed
<1>4. Reached(task[w])
  BY <1>2, <1>3 DEF Parents
<1>5. acc[w] \subseteq Below(task[w]) \cap Space /\ acc[w] \subseteq Node \cap Space
  BY <1>3, <1>4, OwnBelow DEF Below
<1>6. main \notin {"root", "create", "stop", "returned"}
  BY <1>2, <1>3, StopsQuiet DEF Phases, StopMeansQuiet
<1>7. ASSUME NEW n \in acc[w], n \in Counted PROVE FALSE
  <2>1. n # Root
    BY <1>3, <1>5, NodeLen DEF Below, Root
  <2>2. PICK m \in Node : Done(m) /\ n \in Own(m)
    BY <1>7, <2>1 DEF CountInv
  <2>3. Placed(m) /\ m # task[w]
    BY <1>1, <1>2, <2>2 DEF Done, Placed, Busy, OnePlace
  <2>4. Reached(m)
    BY <1>2, <2>3 DEF Parents
  <2> QED
    BY <1>3, <1>4, <2>2, <2>3, <2>4, OwnDisjoint
<1>8. \A n \in Node : Done(n)' <=> Done(n) \/ n = task[w]
  <2>1. \A v \in Worker : pc'[v] = "apply" <=> pc[v] = "apply" \/ v = w
    BY <1>1, <1>2 DEF Typed
  <2> QED
    BY <1>1, <2>1 DEF Done
<1> QED
  BY <1>1, <1>3, <1>5, <1>6, <1>7, <1>8

LEMMA InitCounts == Init => CountInv /\ Counted = {} /\ Counts = {} /\ Total = 0
<1> SUFFICES ASSUME Init PROVE CountInv /\ Counted = {} /\ Counts = {} /\ Total = 0
  OBVIOUS
<1>1. \A l \in Locality, n \in Node : enum[l][n] = 0
  BY DEF Init, Zero
<1>2. Counted = {}
  BY <1>1 DEF Counted
<1>3. Counts = {}
  <2> SUFFICES ASSUME NEW x \in Counts PROVE FALSE
    OBVIOUS
  <2>1. \E l \in Locality : \E n \in Node : \E k \in 1..enum[l][n] : x = <<l, n, k>>
    BY CountsMembers DEF Counts
  <2> QED
    BY <1>1, <2>1
<1>4. Total = Cardinality(Counts)
  BY DEF Total, Counts
<1>5. \A n : ~ Done(n)
  BY DEF Init, Done
<1> QED
  BY <1>2, <1>3, <1>4, <1>5, FS_EmptySet DEF CountInv, Init

LEMMA NextCounts == PlaceInv /\ CountInv /\ [Next]_vars => CountInv'
<1> SUFFICES ASSUME PlaceInv, CountInv, [Next]_vars PROVE CountInv'
  OBVIOUS
<1>1. Typed
  BY DEF PlaceInv
<1>2. ASSUME NEW w \in Worker, UpdateEnumerator(w) PROVE CountInv'
  <2>0. PICK m, S : m = task[w] /\ S = acc[w]
    OBVIOUS
  <2>1. /\ m \in Node /\ S = Own(m) /\ S \in SUBSET Node /\ S \cap Counted = {}
        /\ main # "root" /\ main' # "root" /\ home[w] \in Locality
        /\ enum' = [enum EXCEPT ![home[w]] = Add(@, S)]
        /\ \A n \in Node : Done(n)' <=> Done(n) \/ n = m
    BY <1>2, <2>0, FreshPart
  <2>2. Counted' = Counted \cup S /\ IsFiniteSet(Counts')
    BY <1>1, <2>1, AddCounts DEF CountInv
  <2>3. \A n \in Node : Done(n)' => Own(n) \subseteq Counted'
    BY <2>1, <2>2 DEF CountInv
  <2>4. \A n \in Counted' : n = Root \/ \E k \in Node : Done(k)' /\ n \in Own(k)
    BY <2>1, <2>2 DEF CountInv
  <2> QED
    BY <2>1, <2>2, <2>3, <2>4 DEF CountInv
<1>3. CASE AccumulateRoot /\ \A w \in Worker : ~ UpdateEnumerator(w)
  <2>1. /\ main = "root" /\ main' # "root" /\ {Root} \in SUBSET Node /\ MainLoc \in Locality
        /\ enum' = [enum EXCEPT ![MainLoc] = Add(@, {Root})]
    BY <1>3, TreeAssumption, SearchAssumption DEF AccumulateRoot
  <2>2. \A n \in Node : ~ Done(n) /\ ~ Done(n)'
    <3>1. \A n \in Node : ~ Done(n)
      BY <2>1 DEF PlaceInv, Phases, Done, Placed, Busy
    <3> QED
      BY <1>3, <3>1, DoneStable
  <2>3. Counted = {}
    BY <2>1, <2>2 DEF CountInv
  <2>4. Counted' = Counted \cup {Root} /\ IsFiniteSet(Counts')
    BY <1>1, <2>1, <2>3, AddCounts DEF CountInv
  <2> QED
    BY <2>1, <2>2, <2>3, <2>4 DEF CountInv
<1>4. CASE ~ AccumulateRoot /\ \A w \in Worker : ~ UpdateEnumerator(w)
  BY <1>4, DoneStable, CountsStable DEF CountInv
<1> QED
  BY <1>2, <1>3, <1>4

\* The invariant about counts holds: what the enumerators of all localities have
\* received is the root and the nodes of the tasks that called updateEnumerator.
THEOREM CountsHold == ASSUME DepthsCovered PROVE Spec => [](PlaceInv /\ CountInv)
<1> QED
  BY InitPlaces, NextPlaces, InitCounts, NextCounts, PTL DEF Spec

\* A promise tells the truth: of the nodes below a done task that are not counted
\* take one nearest to a done task above it; it is the task's own part, or it
\* is below a child, whose promise was set before.
LEMMA PromisesTrue == PlaceInv /\ CountInv => ReadyMeansCounted
<1> SUFFICES ASSUME PlaceInv, CountInv PROVE ReadyMeansCounted
  OBVIOUS
<1>1. Typed /\ Settled /\ ready \subseteq Node
  BY DEF PlaceInv, Typed
<1> DEFINE Missing(n) == (Below(n) \cap Space) \ Counted
           D == {d \in Nat : \E n \in ready : \E m \in Missing(n) : d = Len(m) - Len(n)}
<1>2. SUFFICES ASSUME D # {} PROVE FALSE
  <2>1. ASSUME NEW n \in ready, NEW m \in Missing(n) PROVE Len(m) - Len(n) \in D
    BY <1>1, NodeLen DEF Below
  <2> QED
    BY <2>1 DEF ReadyMeansCounted
<1>3. PICK d \in D : \A e \in D : d <= e
  <2>1. D \subseteq Nat
    OBVIOUS
  <2> HIDE DEF D
  <2> QED
    BY <1>2, <2>1, PoolsAssumed, Pools!LeastExists
<1>4. PICK n \in ready : \E m \in Missing(n) : d = Len(m) - Len(n)
  BY <1>3
<1>5. PICK m \in Missing(n) : d = Len(m) - Len(n)
  BY <1>4
<1>6. n \in Node /\ m \in Node /\ m \in Below(n) \cap Space /\ m \notin Counted
  BY <1>1, <1>5 DEF Below
<1>7. m \notin Own(n)
  BY <1>6 DEF CountInv, Done
<1>8. PICK c \in Kids(n) : m \in Below(c)
  BY <1>6, <1>7, OwnCovers
<1>9. c \in ready /\ m \in Missing(c)
  BY <1>1, <1>6, <1>8 DEF Settled
<1>10. c \in Node /\ Len(c) = Len(n) + 1 /\ Len(n) \in Nat /\ Len(m) \in Nat
       /\ Len(m) > Len(c)
  <2>1. PICK i \in 1..numChildren(n) : c = Child(n, i)
    BY <1>8 DEF Kids, Children
  <2> QED
    BY <1>6, <1>8, <2>1, NodeLen, ChildTyped DEF Below
<1>11. Len(m) - Len(c) \in D
  BY <1>9, <1>10
<1>12. d <= Len(m) - Len(c)
  BY <1>3, <1>11
<1> QED
  BY <1>5, <1>10, <1>12

\* A promise that termination_wait has set says that the whole subtree of its task
\* has been counted, wherever the tasks spawned below it have run.
THEOREM PromisesSound == ASSUME DepthsCovered PROVE Spec => []ReadyMeansCounted
<1> QED
  BY PromisesTrue, CountsHold, PTL
-----------------------------------------------------------------------------
LEMMA SameCardinality == \A S : Promise!Cardinality(S) = Cardinality(S)
BY DEF Promise!Cardinality, Cardinality

\* DepthBounded implements Enumeration: whatever the tree, the cluster, the
\* victims and the order in which tasks run, search counts every node of the
\* search space exactly once, and answers with their number.
THEOREM CountsOnce == ASSUME DepthsCovered PROVE Spec => CountsEachNodeOnce
<1>1. Init => Promise!Init
  BY InitCounts DEF Init, Promise!Init
<1>2. PlaceInv /\ CountInv /\ [Next]_vars => [Promise!Next]_(Promise!vars)
  <2> SUFFICES ASSUME PlaceInv, CountInv, [Next]_vars
               PROVE  [Promise!Next]_(Promise!vars)
    OBVIOUS
  <2>1. Typed /\ Phases
    BY DEF PlaceInv
  <2>2. ASSUME NEW w \in Worker, UpdateEnumerator(w) PROVE Promise!Accumulate
    <3>0. PICK S : S = acc[w]
      OBVIOUS
    <3>1. /\ S \in SUBSET Node /\ S \subseteq Space /\ S \cap Counted = {}
          /\ home[w] \in Locality /\ enum' = [enum EXCEPT ![home[w]] = Add(@, S)]
          /\ main # "returned" /\ answer' = answer
      BY <2>2, <3>0, FreshPart
    <3>2. Counted' = Counted \cup S /\ Total' = Total + Cardinality(S)
      BY <2>1, <3>1, AddCounts DEF CountInv
    <3>3. S \in SUBSET (Space \ Counted) /\ answer = -1
      BY <2>1, <3>1 DEF Phases
    <3> QED
      BY <3>1, <3>2, <3>3, SameCardinality DEF Promise!Accumulate
  <2>3. CASE AccumulateRoot
    <3>1. /\ main = "root" /\ {Root} \in SUBSET Node /\ MainLoc \in Locality
          /\ enum' = [enum EXCEPT ![MainLoc] = Add(@, {Root})] /\ answer' = answer
      BY <2>3, TreeAssumption, SearchAssumption DEF AccumulateRoot
    <3>2. Counted = {}
      BY <2>1, <3>1 DEF CountInv, Phases, Done, Placed, Busy
    <3>3. Counted' = Counted \cup {Root} /\ Total' = Total + Cardinality({Root})
      BY <2>1, <3>1, <3>2, AddCounts DEF CountInv
    <3>4. {Root} \in SUBSET (Space \ Counted) /\ answer = -1
      BY <2>1, <3>1, <3>2, SearchAssumption DEF Phases, Space, Root
    <3> QED
      BY <3>1, <3>3, <3>4, SameCardinality DEF Promise!Accumulate, Promise!Next
  <2>4. CASE combineEnumerators
    <3>1. main = "stop" /\ answer' = Total /\ enum' = enum
      BY <2>4 DEF combineEnumerators
    <3>2. Root \in ready /\ Root \in Counted /\ answer = -1
      BY <2>1, <3>1 DEF Phases, CountInv
    <3>3. Below(Root) \cap Space \subseteq Counted
      BY <3>2, PromisesTrue DEF ReadyMeansCounted
    <3>4. Space \subseteq Counted
      <4>1. ASSUME NEW n \in Node, n # Root PROVE n \in Below(Root)
        BY <4>1, TreesAssumed, SameTree, Trees!BelowRoot
      <4> QED
        BY <3>2, <3>3, <4>1 DEF Space
    <3>5. Counted \subseteq Space
      <4> SUFFICES ASSUME NEW n \in Counted, n # Root PROVE n \in Space
        BY TreeAssumption, SearchAssumption DEF Space, Root
      <4>1. PICK m \in Node : Done(m) /\ n \in Own(m)
        BY DEF CountInv
      <4>2. Reached(m)
        BY <4>1 DEF PlaceInv, Parents, Done, Placed, Busy
      <4> QED
        BY <4>1, <4>2, OwnBelow
    <3>6. UNCHANGED <<Counted, Total>>
      BY <3>1 DEF Counted, Total
    <3> QED
      BY <3>1, <3>2, <3>4, <3>5, <3>6 DEF Promise!Return, Promise!Next
  <2>5. CASE /\ ~ combineEnumerators /\ ~ AccumulateRoot
             /\ \A w \in Worker : ~ UpdateEnumerator(w)
    BY <2>5, CountsStable DEF Promise!vars
  <2> QED
    BY <2>2, <2>3, <2>4, <2>5 DEF Promise!Next
<1> QED
  BY <1>1, <1>2, CountsHold, PTL DEF Spec, CountsEachNodeOnce, Promise!Spec
=============================================================================
