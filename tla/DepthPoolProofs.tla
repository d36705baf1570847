-------------------------- MODULE DepthPoolProofs ---------------------------
(***************************************************************************)
(* Proofs about DepthPool for every set of tasks, every initial length of  *)
(* the vector and every depth the doubled vector covers.                   *)
(***************************************************************************)
EXTENDS DepthPool, FiniteSetTheorems, SequenceTheorems, TLAPS

\* A non-empty set of naturals has a least element.
LEMMA LeastExists ==
    ASSUME NEW S, S \subseteq Nat, S # {}
    PROVE  \E m \in S : \A n \in S : m <= n
<1>1. PICK m \in S : \A n \in S : <<n, m>> \notin OpToRel(<, Nat)
  BY NatLessThanWellFounded, WFMin
<1>2. \A n \in S : ~ (n < m)
  BY <1>1 DEF OpToRel
<1> QED
  BY <1>2

\* A non-empty set of naturals up to k has a greatest element.
LEMMA GreatestExists ==
    ASSUME NEW k \in Nat, NEW S, S \subseteq 0..k, S # {}
    PROVE  \E m \in S : \A n \in S : n <= m
<1> DEFINE T == {k - n : n \in S}
<1>1. T \subseteq Nat
  OBVIOUS
<1>2. T # {}
  <2>1. PICK n \in S : TRUE
    OBVIOUS
  <2>2. k - n \in T
    BY <2>1
  <2> QED
    BY <2>2
<1>3. PICK l \in T : \A n \in T : l <= n
  BY <1>1, <1>2, LeastExists
<1>4. PICK m \in S : l = k - m
  OBVIOUS
<1>5. \A n \in S : k - m <= k - n
  BY <1>3, <1>4
<1> QED
  BY <1>5
-----------------------------------------------------------------------------
\* Taking the head of a non-empty queue removes exactly that task from the
\* pool; this is the only way a handler removes one (DepthPool.cpp:10, 27).
LEMMA PoppedRemovesHead ==
    ASSUME NEW T, NEW p, IsPool(p, T), Unique(p),
           NEW d \in DOMAIN p.pools, p.pools[d] # <<>>,
           NEW low \in 0..(p.max_depth - 1)
    PROVE  /\ Head(p.pools[d]) \in Held(p)
           /\ Held(p) \subseteq T
           /\ IsPool(Popped(p, d, low), T)
           /\ Unique(Popped(p, d, low))
           /\ Held(Popped(p, d, low)) = Held(p) \ {Head(p.pools[d])}
<1> DEFINE s == p.pools[d]
<1> SUFFICES ASSUME NEW q, q = Popped(p, d, low)
             PROVE  /\ Head(s) \in Held(p)
                    /\ Held(p) \subseteq T
                    /\ IsPool(q, T)
                    /\ Unique(q)
                    /\ Held(q) = Held(p) \ {Head(s)}
  OBVIOUS
<1>0. s \in Seq(T) /\ s # <<>>
  BY DEF IsPool
<1> HIDE DEF s
<1>1. /\ s \in Seq(T) /\ Len(s) \in Nat \ {0} /\ Head(s) = s[1]
      /\ Tail(s) \in Seq(T) /\ Len(Tail(s)) = Len(s) - 1
      /\ \A i \in 1..(Len(s) - 1) : Tail(s)[i] = s[i + 1]
  BY <1>0, HeadTailProperties, EmptySeq
<1>s. s = p.pools[d]
  BY DEF s
<1>2. /\ q.pools = [p.pools EXCEPT ![d] = Tail(s)]
      /\ q.lowest = low /\ q.max_depth = p.max_depth
      /\ q.tasks_count = p.tasks_count - 1
      /\ DOMAIN q.pools = DOMAIN p.pools
  BY <1>s DEF Popped, IsPool
<1>3. IsPool(q, T)
  BY <1>s, <1>1, <1>2 DEF IsPool, Popped
<1>4. \A e \in DOMAIN p.pools : p.pools[e] \in Seq(T) /\ Len(p.pools[e]) \in Nat
                               /\ \A i \in 1..Len(p.pools[e]) : p.pools[e][i] \in T
  BY LenProperties, ElementOfSeq DEF IsPool
<1>5. Head(s) \in Held(p) /\ Held(p) \subseteq T
  BY <1>s, <1>1, <1>4 DEF Held, TasksAt
<1>6. Unique(q)
  <2> SUFFICES ASSUME NEW e \in DOMAIN p.pools, NEW f \in DOMAIN p.pools,
                      NEW i \in 1..Len(q.pools[e]), NEW j \in 1..Len(q.pools[f]),
                      q.pools[e][i] = q.pools[f][j]
               PROVE  e = f /\ i = j
    BY <1>2 DEF Unique
  <2> DEFINE at(x, n) == IF x = d THEN n + 1 ELSE n
  <2>1. at(e, i) \in 1..Len(p.pools[e]) /\ q.pools[e][i] = p.pools[e][at(e, i)]
    BY <1>s, <1>1, <1>2, <1>4
  <2>2. at(f, j) \in 1..Len(p.pools[f]) /\ q.pools[f][j] = p.pools[f][at(f, j)]
    BY <1>s, <1>1, <1>2, <1>4
  <2>3. e = f /\ at(e, i) = at(f, j)
    <3>1. p.pools[e][at(e, i)] = p.pools[f][at(f, j)]
      BY <2>1, <2>2
    <3> HIDE DEF at
    <3> QED
      BY <3>1, <2>1, <2>2 DEF Unique
  <2>4. i \in Int /\ j \in Int
    BY <1>s, <1>1, <1>2, <1>4
  <2> QED
    BY <2>3, <2>4
<1>7. Held(q) = Held(p) \ {Head(s)}
  <2>1. ASSUME NEW t \in Held(q)
        PROVE  t \in Held(p) /\ t # Head(s)
    <3>0. PICK e \in DOMAIN p.pools :
            \E i \in 1..Len(q.pools[e]) : t = q.pools[e][i]
      BY <1>2 DEF Held, TasksAt
    <3>1. PICK i \in 1..Len(q.pools[e]) : t = q.pools[e][i]
      BY <3>0
    <3> DEFINE n == IF e = d THEN i + 1 ELSE i
    <3>2. n \in 1..Len(p.pools[e]) /\ t = p.pools[e][n]
      BY <3>1, <1>s, <1>1, <1>2, <1>4
    <3>3. ~ (e = d /\ n = 1)
      BY <3>1, <1>s, <1>1, <1>2, <1>4
    <3>4. t # s[1]
      BY <1>s, <3>2, <3>3, <1>1 DEF Unique
    <3> QED
      BY <1>s, <3>2, <3>4, <1>1 DEF Held, TasksAt
  <2>2. ASSUME NEW t \in Held(p), t # Head(s)
        PROVE  t \in Held(q)
    <3>0. PICK e \in DOMAIN p.pools :
            \E i \in 1..Len(p.pools[e]) : t = p.pools[e][i]
      BY DEF Held, TasksAt
    <3>1. PICK i \in 1..Len(p.pools[e]) : t = p.pools[e][i]
      BY <3>0
    <3>2. CASE e # d
      BY <3>1, <3>2, <1>2 DEF Held, TasksAt
    <3>3. CASE e = d
      <4>1. i \in 1..Len(s) /\ t = s[i] /\ i # 1
        BY <1>s, <3>1, <3>3, <2>2, <1>1
      <4>2. i - 1 \in 1..Len(Tail(s)) /\ Tail(s)[i - 1] = t
        BY <4>1, <1>1
      <4>3. q.pools[d] = Tail(s)
        BY <1>2
      <4>4. t \in TasksAt(q, d)
        BY <4>2, <4>3 DEF TasksAt
      <4> QED
        BY <4>4, <1>2 DEF Held
    <3> QED
      BY <3>2, <3>3
  <2> QED
    BY <2>1, <2>2
<1> QED
  BY <1>3, <1>5, <1>6, <1>7

\* When the hint covers every task, the scan sees every task: it comes back
\* empty exactly when the pool is empty.
LEMMA ScanFindsAll ==
    ASSUME NEW T, NEW p, IsPool(p, T), HintCovers(p)
    PROVE  /\ Scanned(p) = {} <=> Held(p) = {}
           /\ Scanned(p) \subseteq 0..p.lowest
           /\ Scanned(p) = {d \in DOMAIN p.pools : p.pools[d] # <<>>}
           /\ 0..p.lowest \subseteq DOMAIN p.pools
<1>1. /\ DOMAIN p.pools = 0..(p.max_depth - 1) /\ p.max_depth \in Nat
      /\ p.lowest \in 0..(p.max_depth - 1)
  BY DEF IsPool
<1>2. Scanned(p) = {d \in DOMAIN p.pools : p.pools[d] # <<>>}
  BY <1>1 DEF Scanned, HintCovers
<1>3. ASSUME NEW d \in DOMAIN p.pools
      PROVE  TasksAt(p, d) = {} <=> p.pools[d] = <<>>
  <2>1. p.pools[d] \in Seq(T)
    BY DEF IsPool
  <2>2. CASE p.pools[d] = <<>>
    <3>1. Len(p.pools[d]) = 0
      BY <2>2, EmptySeq
    <3> QED
      BY <2>2, <3>1 DEF TasksAt
  <2>3. CASE p.pools[d] # <<>>
    <3>1. 1 \in 1..Len(p.pools[d])
      BY <2>1, <2>3, EmptySeq
    <3> QED
      BY <2>3, <3>1 DEF TasksAt
  <2> QED
    BY <2>2, <2>3
<1>4. Held(p) = {} <=> \A d \in DOMAIN p.pools : TasksAt(p, d) = {}
  BY DEF Held
<1> QED
  BY <1>1, <1>2, <1>3, <1>4 DEF Scanned

\* What a call that hands a task out (or finds none) leaves behind.
HandsOut(p, r) ==
    \/ /\ Held(p) = {}
       /\ r.task = NoTask
       /\ Held(r.pool) = {}
       /\ r.pool.tasks_count = p.tasks_count
    \/ /\ r.task \in Held(p)
       /\ Held(r.pool) = Held(p) \ {r.task}
       /\ r.pool.tasks_count = p.tasks_count - 1

GoodPool(p, T) == IsPool(p, T) /\ HintCovers(p) /\ Unique(p)

\* steal hands out a task of the pool whenever there is one.
LEMMA StealHandsOut ==
    ASSUME NEW T, NEW p, GoodPool(p, T)
    PROVE  HandsOut(p, steal(p)) /\ GoodPool(steal(p).pool, T)
<1>1. IsPool(p, T) /\ HintCovers(p) /\ Unique(p)
  BY DEF GoodPool
<1>2. CASE Scanned(p) = {}
  <2>1. steal(p) = [task |-> NoTask, pool |-> p]
    BY <1>2 DEF steal
  <2>2. Held(p) = {}
    BY <1>1, <1>2, ScanFindsAll
  <2> QED
    BY <2>1, <2>2 DEF HandsOut, GoodPool
<1>3. CASE Scanned(p) # {}
  <2>1. /\ Scanned(p) \subseteq 0..p.lowest /\ Scanned(p) \subseteq Nat
        /\ 0..p.lowest \subseteq DOMAIN p.pools
        /\ p.lowest \in 0..(p.max_depth - 1)
    BY <1>1, ScanFindsAll DEF IsPool
  <2>2. \E m \in 0..p.lowest : IsShallowest(p, m)
    BY <1>3, <2>1, LeastExists DEF IsShallowest
  <2> DEFINE d == CHOOSE m \in 0..p.lowest : IsShallowest(p, m)
  <2>3. d \in 0..p.lowest /\ IsShallowest(p, d)
    BY <2>2
  <2>4. steal(p) = [task |-> Head(p.pools[d]), pool |-> Popped(p, d, p.lowest)]
    BY <1>3 DEF steal
  <2> HIDE DEF d
  <2>5. d \in DOMAIN p.pools /\ p.pools[d] # <<>>
    BY <2>1, <2>3 DEF IsShallowest, Scanned
  <2> DEFINE q == Popped(p, d, p.lowest)
  <2>6. /\ Head(p.pools[d]) \in Held(p) /\ IsPool(q, T) /\ Unique(q)
        /\ Held(q) = Held(p) \ {Head(p.pools[d])}
    BY <1>1, <2>1, <2>5, PoppedRemovesHead
  <2>7. q.tasks_count = p.tasks_count - 1
    BY DEF Popped
  <2>8. HintCovers(q)
    BY <1>1, <2>1, <2>3, <2>5 DEF HintCovers, Popped, IsPool
  <2> QED
    BY <2>4, <2>6, <2>7, <2>8 DEF HandsOut, GoodPool
<1> QED
  BY <1>2, <1>3

\* getLocal hands out a task of the pool whenever there is one, and the hint
\* it leaves behind still covers every task: lowering it skips empty queues
\* only.
LEMMA GetLocalHandsOut ==
    ASSUME NEW T, NEW p, GoodPool(p, T)
    PROVE  HandsOut(p, getLocal(p)) /\ GoodPool(getLocal(p).pool, T)
<1>1. IsPool(p, T) /\ HintCovers(p) /\ Unique(p)
  BY DEF GoodPool
<1>2. /\ DOMAIN p.pools = 0..(p.max_depth - 1) /\ p.max_depth \in Nat \ {0}
      /\ Scanned(p) = {d \in DOMAIN p.pools : p.pools[d] # <<>>}
  BY <1>1, ScanFindsAll DEF IsPool
<1>3. CASE Scanned(p) = {}
  <2> DEFINE q == [p EXCEPT !.lowest = 0]
  <2>1. getLocal(p) = [task |-> NoTask, pool |-> q]
    BY <1>3 DEF getLocal
  <2>2. Held(p) = {}
    BY <1>1, <1>3, ScanFindsAll
  <2>3. q = [pools |-> p.pools, lowest |-> 0, max_depth |-> p.max_depth,
             tasks_count |-> p.tasks_count]
    BY <1>1 DEF IsPool
  <2> HIDE DEF q
  <2>4. IsPool(q, T)
    BY <1>1, <2>3 DEF IsPool
  <2>5. HintCovers(q)
    BY <1>2, <1>3, <2>3 DEF HintCovers
  <2>6. Unique(q) /\ Held(q) = Held(p)
    BY <1>1, <2>3 DEF Unique, Held, TasksAt
  <2> QED
    BY <2>1, <2>2, <2>3, <2>4, <2>5, <2>6 DEF HandsOut, GoodPool
<1>4. CASE Scanned(p) # {}
  <2>1. /\ Scanned(p) \subseteq 0..p.lowest /\ p.lowest \in Nat
        /\ 0..p.lowest \subseteq DOMAIN p.pools
    BY <1>1, ScanFindsAll DEF IsPool
  <2>2. \E m \in 0..p.lowest : IsDeepest(p, m)
    BY <1>4, <2>1, GreatestExists DEF IsDeepest
  <2> DEFINE d == CHOOSE m \in 0..p.lowest : IsDeepest(p, m)
  <2>3. d \in 0..p.lowest /\ IsDeepest(p, d)
    BY <2>2
  <2>4. getLocal(p) = [task |-> Head(p.pools[d]), pool |-> Popped(p, d, d)]
    BY <1>4 DEF getLocal
  <2> HIDE DEF d
  <2>5. d \in 0..(p.max_depth - 1) /\ p.pools[d] # <<>>
    BY <1>2, <2>1, <2>3 DEF IsDeepest, Scanned
  <2> DEFINE q == Popped(p, d, d)
  <2>6. /\ Head(p.pools[d]) \in Held(p) /\ IsPool(q, T) /\ Unique(q)
        /\ Held(q) = Held(p) \ {Head(p.pools[d])}
    BY <1>1, <1>2, <2>5, PoppedRemovesHead
  <2>7. q.tasks_count = p.tasks_count - 1 /\ q.lowest = d
        /\ q.pools = [p.pools EXCEPT ![d] = Tail(@)]
    BY DEF Popped
  <2>8. \A e \in DOMAIN p.pools : e > d => p.pools[e] = <<>>
    BY <1>2, <2>1, <2>3 DEF IsDeepest
  <2>9. HintCovers(q)
    BY <1>2, <2>5, <2>7, <2>8 DEF HintCovers
  <2> QED
    BY <2>4, <2>6, <2>7, <2>9 DEF HandsOut, GoodPool
<1> QED
  BY <1>3, <1>4

\* addWork puts the task at the back of its queue, provided that doubling the
\* vector once is enough for its depth; every other task stays where it is.
LEMMA AddWorkPlaces ==
    ASSUME NEW T, NEW p, IsPool(p, T), NEW t \in T,
           NEW depth \in Nat, depth < 2 * p.max_depth,
           NEW q, q = addWork(p, t, depth)
    PROVE  /\ IsPool(q, T)
           /\ DOMAIN p.pools \subseteq DOMAIN q.pools
           /\ \A d \in DOMAIN p.pools : \A i \in 1..Len(p.pools[d]) :
                 i \in 1..Len(q.pools[d]) /\ q.pools[d][i] = p.pools[d][i]
           /\ depth \in DOMAIN q.pools
           /\ Len(q.pools[depth]) \in 1..Len(q.pools[depth])
           /\ q.pools[depth][Len(q.pools[depth])] = t
           /\ \A d \in DOMAIN q.pools : \A i \in 1..Len(q.pools[d]) :
                 \/ d = depth /\ i = Len(q.pools[depth])
                 \/ /\ d \in DOMAIN p.pools /\ i \in 1..Len(p.pools[d])
                    /\ q.pools[d][i] = p.pools[d][i]
           /\ \A d \in DOMAIN q.pools \ {depth} :
                 q.pools[d] # <<>> => d \in DOMAIN p.pools /\ q.pools[d] = p.pools[d]
           /\ q.lowest = (IF depth > p.lowest THEN depth ELSE p.lowest)
           /\ q.max_depth >= p.max_depth
           /\ q.tasks_count = p.tasks_count + 1
<1>2. PICK size \in Nat : /\ size = Resized(p, depth)
                          /\ size >= p.max_depth /\ size > depth
  BY DEF Resized, IsPool
<1> DEFINE old(d) == IF d < p.max_depth THEN p.pools[d] ELSE <<>>
<1>3. /\ q.pools = [d \in 0..(size - 1) |->
                       IF d = depth THEN Append(old(d), t) ELSE old(d)]
      /\ q.lowest = (IF depth > p.lowest THEN depth ELSE p.lowest)
      /\ q.max_depth = size
      /\ q.tasks_count = p.tasks_count + 1
      /\ q = [pools |-> q.pools, lowest |-> q.lowest,
              max_depth |-> q.max_depth, tasks_count |-> q.tasks_count]
  BY <1>2 DEF addWork
<1>4. ASSUME NEW d \in 0..(size - 1)
      PROVE  /\ old(d) \in Seq(T) /\ Len(old(d)) \in Nat
             /\ old(d) # <<>> => d \in DOMAIN p.pools /\ old(d) = p.pools[d]
             /\ \A i \in 1..Len(old(d)) : d \in DOMAIN p.pools /\ old(d) = p.pools[d]
  <2>1. CASE d < p.max_depth
    BY <2>1, LenProperties DEF IsPool
  <2>2. CASE ~ (d < p.max_depth)
    <3>1. old(d) = <<>>
      BY <2>2
    <3> HIDE DEF old
    <3> QED
      BY <3>1, EmptySeq
  <2> QED
    BY <2>1, <2>2
<1>5. \A d \in DOMAIN p.pools : d \in 0..(size - 1) /\ old(d) = p.pools[d]
  BY <1>2 DEF IsPool
<1> HIDE DEF old
<1>6. depth \in 0..(size - 1) /\ old(depth) \in Seq(T)
  BY <1>2, <1>4
<1>7. /\ Append(old(depth), t) \in Seq(T)
      /\ Len(Append(old(depth), t)) = Len(old(depth)) + 1
      /\ \A i \in 1..Len(old(depth)) : Append(old(depth), t)[i] = old(depth)[i]
      /\ Append(old(depth), t)[Len(old(depth)) + 1] = t
  BY <1>6, AppendProperties
<1>8. IsPool(q, T)
  BY <1>2, <1>3, <1>4, <1>6, <1>7 DEF IsPool
<1>9. /\ DOMAIN q.pools = 0..(size - 1) /\ q.pools[depth] = Append(old(depth), t)
      /\ \A d \in 0..(size - 1) : d # depth => q.pools[d] = old(d)
  BY <1>3, <1>6
<1>10. /\ Len(q.pools[depth]) = Len(old(depth)) + 1
       /\ q.pools[depth][Len(q.pools[depth])] = t
  BY <1>7, <1>9
<1>11. ASSUME NEW d \in DOMAIN p.pools, NEW i \in 1..Len(p.pools[d])
       PROVE  i \in 1..Len(q.pools[d]) /\ q.pools[d][i] = p.pools[d][i]
  <2>1. d \in 0..(size - 1) /\ old(d) = p.pools[d] /\ i \in 1..Len(old(d))
    BY <1>5
  <2>2. CASE d = depth
    BY <2>1, <2>2, <1>4, <1>6, <1>7, <1>9
  <2>3. CASE d # depth
    BY <2>1, <2>3, <1>9
  <2> QED
    BY <2>2, <2>3
<1>12. ASSUME NEW d \in 0..(size - 1), NEW i \in 1..Len(q.pools[d]),
              ~ (d = depth /\ i = Len(q.pools[depth]))
       PROVE  /\ d \in DOMAIN p.pools /\ i \in 1..Len(p.pools[d])
              /\ q.pools[d][i] = p.pools[d][i]
  <2>1. CASE d = depth
    <3>1. i \in 1..Len(old(depth))
      BY <2>1, <1>4, <1>6, <1>10, <1>12
    <3> QED
      BY <2>1, <3>1, <1>4, <1>6, <1>7, <1>9
  <2>2. CASE d # depth
    BY <2>2, <1>4, <1>9
  <2> QED
    BY <2>1, <2>2
<1>13. \A d \in DOMAIN q.pools \ {depth} :
          q.pools[d] # <<>> => d \in DOMAIN p.pools /\ q.pools[d] = p.pools[d]
  BY <1>4, <1>9
<1> QED
  BY <1>2, <1>3, <1>4, <1>5, <1>6, <1>8, <1>9, <1>10, <1>11, <1>12, <1>13

\* So the pool stays good and holds one task more.
LEMMA AddWorkHolds ==
    ASSUME NEW T, NEW p, GoodPool(p, T), NEW t \in T, t \notin Held(p),
           NEW depth \in Nat, depth < 2 * p.max_depth
    PROVE  /\ GoodPool(addWork(p, t, depth), T)
           /\ Held(addWork(p, t, depth)) = Held(p) \cup {t}
           /\ addWork(p, t, depth).tasks_count = p.tasks_count + 1
           /\ addWork(p, t, depth).max_depth >= p.max_depth
<1> SUFFICES ASSUME NEW q, q = addWork(p, t, depth)
             PROVE  /\ GoodPool(q, T)
                    /\ Held(q) = Held(p) \cup {t}
                    /\ q.tasks_count = p.tasks_count + 1
                    /\ q.max_depth >= p.max_depth
  OBVIOUS
<1>1. IsPool(p, T) /\ HintCovers(p) /\ Unique(p)
  BY DEF GoodPool
<1> DEFINE new(d, i) == d = depth /\ i = Len(q.pools[depth])
<1>2. /\ IsPool(q, T) /\ DOMAIN p.pools \subseteq DOMAIN q.pools
      /\ depth \in DOMAIN q.pools /\ Len(q.pools[depth]) \in 1..Len(q.pools[depth])
      /\ q.pools[depth][Len(q.pools[depth])] = t
      /\ q.lowest = (IF depth > p.lowest THEN depth ELSE p.lowest)
      /\ q.max_depth >= p.max_depth /\ q.tasks_count = p.tasks_count + 1
      /\ \A d \in DOMAIN q.pools \ {depth} :
            q.pools[d] # <<>> => d \in DOMAIN p.pools /\ q.pools[d] = p.pools[d]
  BY <1>1, AddWorkPlaces
<1>3. \A d \in DOMAIN p.pools : \A i \in 1..Len(p.pools[d]) :
          i \in 1..Len(q.pools[d]) /\ q.pools[d][i] = p.pools[d][i]
  BY <1>1, AddWorkPlaces
<1>4. ASSUME NEW d \in DOMAIN q.pools, NEW i \in 1..Len(q.pools[d]), ~ new(d, i)
      PROVE  /\ d \in DOMAIN p.pools /\ i \in 1..Len(p.pools[d])
             /\ q.pools[d][i] = p.pools[d][i] /\ p.pools[d][i] \in Held(p)
  <2>1. /\ d \in DOMAIN p.pools /\ i \in 1..Len(p.pools[d])
        /\ q.pools[d][i] = p.pools[d][i]
    BY <1>1, <1>4, AddWorkPlaces
  <2> QED
    BY <2>1 DEF Held, TasksAt
<1>5. \A d \in DOMAIN q.pools : \A i \in 1..Len(q.pools[d]) :
          new(d, i) => q.pools[d][i] = t
  BY <1>2
<1>6. HintCovers(q)
  <2> SUFFICES ASSUME NEW d \in DOMAIN q.pools, d > q.lowest
               PROVE  q.pools[d] = <<>>
    BY DEF HintCovers
  <2>1. d # depth /\ d > p.lowest
    BY <1>1, <1>2 DEF IsPool
  <2> QED
    BY <1>1, <1>2, <2>1 DEF HintCovers
<1>7. Unique(q)
  <2> SUFFICES ASSUME NEW d \in DOMAIN q.pools, NEW e \in DOMAIN q.pools,
                      NEW i \in 1..Len(q.pools[d]), NEW j \in 1..Len(q.pools[e]),
                      q.pools[d][i] = q.pools[e][j]
               PROVE  d = e /\ i = j
    BY DEF Unique
  <2>1. CASE new(d, i) /\ new(e, j)
    BY <2>1
  <2>2. CASE new(d, i) /\ ~ new(e, j)
    BY <2>2, <1>4, <1>5
  <2>3. CASE ~ new(d, i) /\ new(e, j)
    BY <2>3, <1>4, <1>5
  <2>4. CASE ~ new(d, i) /\ ~ new(e, j)
    <3>1. /\ d \in DOMAIN p.pools /\ i \in 1..Len(p.pools[d]) /\ q.pools[d][i] = p.pools[d][i]
          /\ e \in DOMAIN p.pools /\ j \in 1..Len(p.pools[e]) /\ q.pools[e][j] = p.pools[e][j]
      BY <2>4, <1>4
    <3>2. p.pools[d][i] = p.pools[e][j]
      BY <3>1
    <3> HIDE DEF new
    <3> QED
      BY <3>1, <3>2, <1>1 DEF Unique
  <2> QED
    BY <2>1, <2>2, <2>3, <2>4
<1>8. Held(q) \subseteq Held(p) \cup {t}
  <2> SUFFICES ASSUME NEW d \in DOMAIN q.pools, NEW i \in 1..Len(q.pools[d])
               PROVE  q.pools[d][i] \in Held(p) \cup {t}
    BY DEF Held, TasksAt
  <2> QED
    BY <1>4, <1>5
<1>9. t \in Held(q)
  BY <1>2 DEF Held, TasksAt
<1>10. Held(p) \subseteq Held(q)
  <2> SUFFICES ASSUME NEW d \in DOMAIN p.pools, NEW i \in 1..Len(p.pools[d])
               PROVE  p.pools[d][i] \in Held(q)
    BY DEF Held, TasksAt
  <2>1. d \in DOMAIN q.pools /\ i \in 1..Len(q.pools[d]) /\ q.pools[d][i] = p.pools[d][i]
    BY <1>2, <1>3
  <2> QED
    BY <2>1 DEF Held, TasksAt
<1> QED
  BY <1>2, <1>6, <1>7, <1>8, <1>9, <1>10 DEF GoodPool
-----------------------------------------------------------------------------
\* The inductive invariant.  tasks_count is right only while no task is held
\* twice, and the handlers find every task only while the hint covers them
\* all, so none of the invariants is inductive by itself.
Inv == /\ TypeOK
       /\ NothingAboveLowest
       /\ NoTaskTwice
       /\ NothingLost
       /\ IsFiniteSet(Held(pool))
       /\ CountMatches
       /\ pool.max_depth >= InitDepth

\* The new pool is empty and well formed.
LEMMA NewPoolGood == GoodPool(NewPool, Task) /\ Held(NewPool) = {}
<1>1. /\ NewPool.pools = [d \in 0..(InitDepth - 1) |-> <<>>]
      /\ NewPool.lowest = 0 /\ NewPool.max_depth = InitDepth
      /\ NewPool.tasks_count = 0
  BY DEF NewPool
<1>2. <<>> \in Seq(Task) /\ Len(<<>>) = 0
  BY EmptySeq
<1>3. IsPool(NewPool, Task)
  BY <1>1, <1>2, InitDepthAssumption DEF IsPool, NewPool
<1>4. \A d \in DOMAIN NewPool.pools : NewPool.pools[d] = <<>>
  BY <1>1
<1>5. HintCovers(NewPool)
  BY <1>4 DEF HintCovers
<1>6. \A d \in DOMAIN NewPool.pools : 1..Len(NewPool.pools[d]) = {}
  BY <1>2, <1>4
<1>7. Unique(NewPool) /\ Held(NewPool) = {}
  BY <1>6 DEF Unique, Held, TasksAt
<1> QED
  BY <1>3, <1>5, <1>7 DEF GoodPool

\* The component is constructed empty, which satisfies the invariant.
LEMMA InitInv == Init => Inv
<1> SUFFICES ASSUME Init PROVE Inv
  OBVIOUS
<1>1. GoodPool(pool, Task) /\ Held(pool) = {} /\ pool = NewPool
  BY NewPoolGood DEF Init
<1>2. pool.max_depth = InitDepth /\ pool.tasks_count = 0
  BY <1>1 DEF NewPool
<1> QED
  BY <1>1, <1>2, FS_EmptySet, InitDepthAssumption
     DEF Init, Inv, TypeOK, NothingAboveLowest, NoTaskTwice, NothingLost,
         CountMatches, GoodPool

\* A call that hands a task out keeps the invariant.
LEMMA AnswerInv ==
    ASSUME Inv, NEW r, HandsOut(pool, r), GoodPool(r.pool, Task), Answer(r),
           r.pool.max_depth >= InitDepth
    PROVE  Inv'
<1>1. /\ pool' = r.pool /\ reply' = r.task
      /\ delivered' = delivered \cup ({r.task} \ {NoTask})
      /\ submitted' = submitted
  BY DEF Answer
<1>2. IsFiniteSet(Held(pool)) /\ pool.tasks_count = Cardinality(Held(pool))
      /\ NoTask \notin Task /\ Held(pool) \subseteq submitted
      /\ submitted \subseteq Task /\ delivered \subseteq Task
      /\ Held(pool) \cap delivered = {}
      /\ submitted = Held(pool) \cup delivered
  BY TaskAssumption DEF Inv, CountMatches, NothingLost, TypeOK, NoTaskTwice
<1>3. CASE /\ Held(pool) = {} /\ r.task = NoTask /\ Held(r.pool) = {}
           /\ r.pool.tasks_count = pool.tasks_count
  BY <1>1, <1>2, <1>3
     DEF Inv, TypeOK, NothingAboveLowest, NoTaskTwice, NothingLost,
         CountMatches, GoodPool
<1>4. CASE /\ r.task \in Held(pool)
           /\ Held(r.pool) = Held(pool) \ {r.task}
           /\ r.pool.tasks_count = pool.tasks_count - 1
  <2>1. /\ IsFiniteSet(Held(r.pool))
        /\ Cardinality(Held(r.pool)) = Cardinality(Held(pool)) - 1
    <3> DEFINE S == Held(pool)
    <3>1. IsFiniteSet(S) /\ r.task \in S
      BY <1>2, <1>4
    <3> HIDE DEF S
    <3>2. /\ IsFiniteSet(S \ {r.task})
          /\ Cardinality(S \ {r.task}) = Cardinality(S) - 1
      BY <3>1, FS_RemoveElement
    <3> QED
      BY <3>2, <1>4 DEF S
  <2>2. /\ Held(pool') = Held(pool) \ {r.task} /\ r.task \in Task
        /\ delivered' = delivered \cup {r.task}
    BY <1>1, <1>2, <1>4
  <2>3. /\ NothingLost' /\ Held(pool') \cap delivered' = {}
        /\ delivered' \subseteq Task /\ submitted' \subseteq Task
    BY <1>1, <1>2, <1>4, <2>2 DEF NothingLost
  <2>4. CountMatches' /\ IsFiniteSet(Held(pool'))
    BY <1>1, <1>2, <1>4, <2>1 DEF CountMatches
  <2> QED
    BY <1>1, <2>2, <2>3, <2>4
       DEF Inv, TypeOK, NothingAboveLowest, NoTaskTwice, NothingLost,
           CountMatches, GoodPool
<1> QED
  BY <1>3, <1>4 DEF HandsOut

\* No handler shrinks the vector.
LEMMA MaxDepthKept ==
    ASSUME NEW p, NEW T, IsPool(p, T)
    PROVE  /\ steal(p).pool.max_depth = p.max_depth
           /\ getLocal(p).pool.max_depth = p.max_depth
<1>1. [p EXCEPT !.lowest = 0].max_depth = p.max_depth
  BY DEF IsPool
<1> QED
  BY <1>1 DEF steal, getLocal, Popped

\* Every handler call keeps the invariant.
LEMMA NextInv == DepthsCovered /\ Inv /\ [Next]_vars => Inv'
<1> SUFFICES ASSUME DepthsCovered, Inv, [Next]_vars PROVE Inv'
  OBVIOUS
<1>1. GoodPool(pool, Task) /\ pool.max_depth >= InitDepth /\ IsPool(pool, Task)
  BY DEF Inv, TypeOK, NothingAboveLowest, NoTaskTwice, GoodPool
<1>2. ASSUME NEW t \in Task, NEW depth \in 0..MaxTaskDepth, AddWork(t, depth)
      PROVE  Inv'
  <2>1. /\ pool' = addWork(pool, t, depth) /\ reply' = NoTask
        /\ t \notin submitted /\ submitted' = submitted \cup {t}
        /\ delivered' = delivered
    BY <1>2 DEF AddWork
  <2>2. t \notin Held(pool) /\ t \notin delivered
    BY <2>1 DEF Inv, NothingLost
  <2>3. depth \in Nat /\ depth < 2 * pool.max_depth
    BY <1>1, TaskAssumption, InitDepthAssumption DEF DepthsCovered, IsPool
  <2>4. /\ GoodPool(pool', Task) /\ Held(pool') = Held(pool) \cup {t}
        /\ pool'.tasks_count = pool.tasks_count + 1
        /\ pool'.max_depth >= pool.max_depth
    BY <1>1, <2>1, <2>2, <2>3, AddWorkHolds
  <2>5. /\ IsFiniteSet(Held(pool'))
        /\ Cardinality(Held(pool')) = Cardinality(Held(pool)) + 1
    BY <2>2, <2>4, FS_AddElement DEF Inv
  <2>6. pool'.max_depth >= InitDepth
    BY <1>1, <2>4, InitDepthAssumption DEF IsPool, GoodPool
  <2> QED
    BY <2>1, <2>2, <2>4, <2>5, <2>6
       DEF Inv, TypeOK, NothingAboveLowest, NoTaskTwice, NothingLost,
           CountMatches, GoodPool
<1>3. CASE Steal
  BY <1>1, <1>3, StealHandsOut, MaxDepthKept, AnswerInv DEF Steal
<1>4. CASE GetLocal
  BY <1>1, <1>4, GetLocalHandsOut, MaxDepthKept, AnswerInv DEF GetLocal
<1>5. CASE UNCHANGED vars
  BY <1>5 DEF vars, Inv, TypeOK, NothingAboveLowest, NoTaskTwice, NothingLost,
              CountMatches
<1> QED
  BY <1>2, <1>3, <1>4, <1>5 DEF Next

\* In every reachable state the pool is well formed, the hint hides no task,
\* the published count is exact, no task is held twice or lost.
THEOREM InvHolds == ASSUME DepthsCovered PROVE Spec => []Inv
<1> QED
  BY InitInv, NextInv, PTL DEF Spec

\* The component stays well formed: the vector has max_depth queues and the
\* hint is an index of it (DepthPool.cpp:42-52).
THEOREM TypeCorrect == ASSUME DepthsCovered PROVE Spec => []TypeOK
<1>1. Inv => TypeOK
  BY DEF Inv
<1> QED
  BY <1>1, InvHolds, PTL

\* The scans of getLocal and steal overlook no task (DepthPool.cpp:8, 25-34).
THEOREM HintSafe == ASSUME DepthsCovered PROVE Spec => []NothingAboveLowest
<1>1. Inv => NothingAboveLowest
  BY DEF Inv
<1> QED
  BY <1>1, InvHolds, PTL

\* getTasksCount is exact, so the unsigned counter never wraps.
THEOREM CountExact == ASSUME DepthsCovered PROVE Spec => []CountMatches
<1>1. Inv => CountMatches
  BY DEF Inv
<1> QED
  BY <1>1, InvHolds, PTL

\* No task is queued twice or again after it was handed out.
THEOREM AtMostOnce == ASSUME DepthsCovered PROVE Spec => []NoTaskTwice
<1>1. Inv => NoTaskTwice
  BY DEF Inv
<1> QED
  BY <1>1, InvHolds, PTL

\* Every submitted task is in the pool or was handed out.
THEOREM NoTaskLost == ASSUME DepthsCovered PROVE Spec => []NothingLost
<1>1. Inv => NothingLost
  BY DEF Inv
<1> QED
  BY <1>1, InvHolds, PTL
-----------------------------------------------------------------------------
\* The order in which tasks leave: each task not handed out stands in the queue
\* of its depth, and in front of it stand only older ones.
Arranged(p, A) ==
    /\ A \subseteq [task : Task, depth : Nat, older : SUBSET Task]
    /\ \A a, b \in A : a.task = b.task => a = b
    /\ \A a \in A : /\ a.depth \in DOMAIN p.pools
                    /\ a.task \in TasksAt(p, a.depth)
    /\ \A d \in DOMAIN p.pools : \A i \in 1..Len(p.pools[d]) :
          \E a \in A : a.depth = d /\ a.task = p.pools[d][i]
    /\ \A d \in DOMAIN p.pools : \A i, j \in 1..Len(p.pools[d]) : \A b \in A :
          i < j /\ b.task = p.pools[d][j] => p.pools[d][i] \in b.older

\* A handler that finds a task takes the head of queue d.
Takes(p, r, d) ==
    /\ d \in DOMAIN p.pools /\ p.pools[d] # <<>>
    /\ r.task = Head(p.pools[d])
    /\ r.pool.pools = [p.pools EXCEPT ![d] = Tail(@)]

LEMMA StealTakes ==
    ASSUME NEW T, NEW p, GoodPool(p, T), Held(p) # {}
    PROVE  \E d \in DOMAIN p.pools :
              /\ Takes(p, steal(p), d)
              /\ \A e \in DOMAIN p.pools : p.pools[e] # <<>> => d <= e
<1>1. /\ Scanned(p) # {} /\ Scanned(p) \subseteq 0..p.lowest
      /\ Scanned(p) = {d \in DOMAIN p.pools : p.pools[d] # <<>>}
      /\ 0..p.lowest \subseteq DOMAIN p.pools
  BY ScanFindsAll DEF GoodPool
<1>2. \E d \in 0..p.lowest : IsShallowest(p, d)
  BY <1>1, LeastExists DEF IsShallowest
<1> DEFINE d == CHOOSE m \in 0..p.lowest : IsShallowest(p, m)
<1>3. d \in 0..p.lowest /\ IsShallowest(p, d)
  BY <1>2
<1>4. steal(p) = [task |-> Head(p.pools[d]), pool |-> Popped(p, d, p.lowest)]
  BY <1>1 DEF steal
<1> HIDE DEF d
<1>5. /\ d \in DOMAIN p.pools /\ p.pools[d] # <<>>
      /\ \A e \in DOMAIN p.pools : p.pools[e] # <<>> => d <= e
  BY <1>1, <1>3 DEF IsShallowest
<1>6. Popped(p, d, p.lowest).pools = [p.pools EXCEPT ![d] = Tail(@)]
  BY DEF Popped
<1>7. /\ steal(p).task = Head(p.pools[d])
      /\ steal(p).pool = Popped(p, d, p.lowest)
  BY <1>4
<1>8. Takes(p, steal(p), d)
  BY <1>5, <1>6, <1>7 DEF Takes
<1> QED
  BY <1>5, <1>8

LEMMA GetLocalTakes ==
    ASSUME NEW T, NEW p, GoodPool(p, T), Held(p) # {}
    PROVE  \E d \in DOMAIN p.pools :
              /\ Takes(p, getLocal(p), d)
              /\ \A e \in DOMAIN p.pools : p.pools[e] # <<>> => e <= d
<1>1. /\ Scanned(p) # {} /\ Scanned(p) \subseteq 0..p.lowest
      /\ Scanned(p) = {d \in DOMAIN p.pools : p.pools[d] # <<>>}
      /\ 0..p.lowest \subseteq DOMAIN p.pools
  BY ScanFindsAll DEF GoodPool
<1>2. \E d \in 0..p.lowest : IsDeepest(p, d)
  BY <1>1, GreatestExists DEF IsDeepest, GoodPool, IsPool
<1> DEFINE d == CHOOSE m \in 0..p.lowest : IsDeepest(p, m)
<1>3. d \in 0..p.lowest /\ IsDeepest(p, d)
  BY <1>2
<1>4. getLocal(p) = [task |-> Head(p.pools[d]), pool |-> Popped(p, d, d)]
  BY <1>1 DEF getLocal
<1> HIDE DEF d
<1>5. /\ d \in DOMAIN p.pools /\ p.pools[d] # <<>>
      /\ \A e \in DOMAIN p.pools : p.pools[e] # <<>> => e <= d
  BY <1>1, <1>3 DEF IsDeepest
<1>6. Popped(p, d, d).pools = [p.pools EXCEPT ![d] = Tail(@)]
  BY DEF Popped
<1>7. /\ getLocal(p).task = Head(p.pools[d])
      /\ getLocal(p).pool = Popped(p, d, d)
  BY <1>4
<1>8. Takes(p, getLocal(p), d)
  BY <1>5, <1>6, <1>7 DEF Takes
<1> QED
  BY <1>5, <1>8

\* The head of a queue is its oldest task.
LEMMA HeadIsOldest ==
    ASSUME NEW p, IsPool(p, Task), NEW A, Arranged(p, A), NEW r,
           NEW d \in DOMAIN p.pools, Takes(p, r, d)
    PROVE  \E a \in A : /\ a.task = r.task /\ a.depth = d
                        /\ \A b \in A : b.depth = d => a = b \/ a.task \in b.older
<1>0. p.pools[d] \in Seq(Task) /\ p.pools[d] # <<>>
  BY DEF IsPool, Takes
<1>1. /\ p.pools[d] \in Seq(Task) /\ Len(p.pools[d]) \in Nat \ {0}
      /\ Head(p.pools[d]) = p.pools[d][1]
  BY <1>0, EmptySeq, HeadTailProperties
<1>2. PICK a \in A : a.depth = d /\ a.task = p.pools[d][1]
  BY <1>1 DEF Arranged
<1>3. ASSUME NEW b \in A, b.depth = d, a # b PROVE a.task \in b.older
  <2>1. PICK j \in 1..Len(p.pools[d]) : b.task = p.pools[d][j]
    BY <1>3 DEF Arranged, TasksAt
  <2>2. j # 1
    BY <1>2, <1>3, <2>1 DEF Arranged
  <2>3. 1 \in 1..Len(p.pools[d]) /\ 1 < j
    BY <1>1, <2>2
  <2> QED
    BY <1>2, <2>1, <2>3 DEF Arranged
<1> QED
  BY <1>1, <1>2, <1>3 DEF Takes

\* Handing the head of a queue out keeps the others arranged.
LEMMA TakingArranged ==
    ASSUME NEW p, IsPool(p, Task), Unique(p), Arranged(p, arrivals),
           NEW r, NEW d \in DOMAIN p.pools, Takes(p, r, d)
    PROVE  Arranged(r.pool, Without(r.task))
<1> DEFINE q == r.pool.pools
           at(e, i) == IF e = d THEN i + 1 ELSE i
<1>0. p.pools[d] \in Seq(Task) /\ p.pools[d] # <<>>
  BY DEF IsPool, Takes
<1>1. /\ Len(p.pools[d]) \in Nat \ {0} /\ r.task = p.pools[d][1]
      /\ Len(Tail(p.pools[d])) = Len(p.pools[d]) - 1
      /\ \A i \in 1..(Len(p.pools[d]) - 1) : Tail(p.pools[d])[i] = p.pools[d][i + 1]
  BY <1>0, EmptySeq, HeadTailProperties DEF Takes
<1>2. /\ DOMAIN q = DOMAIN p.pools /\ q[d] = Tail(p.pools[d])
      /\ \A e \in DOMAIN p.pools \ {d} : q[e] = p.pools[e]
  BY DEF Takes
<1>3. \A e \in DOMAIN p.pools : Len(p.pools[e]) \in Nat
  BY LenProperties DEF IsPool
<1> HIDE DEF q
\* The places of the new queues, and what is left of the old ones.
<1>4. ASSUME NEW e \in DOMAIN p.pools, NEW i \in 1..Len(q[e])
      PROVE  /\ at(e, i) \in 1..Len(p.pools[e]) /\ q[e][i] = p.pools[e][at(e, i)]
             /\ q[e][i] # r.task
  <2>1. at(e, i) \in 1..Len(p.pools[e]) /\ q[e][i] = p.pools[e][at(e, i)]
    <3>1. CASE e = d
      <4>1. i \in 1..Len(p.pools[d]) - 1 /\ q[e][i] = Tail(p.pools[d])[i]
        BY <1>1, <1>2, <3>1
      <4> QED
        BY <1>1, <3>1, <4>1
    <3>2. CASE e # d
      BY <1>2, <1>3, <3>2
    <3> QED
      BY <3>1, <3>2
  <2>2. 1 \in 1..Len(p.pools[d]) /\ ~ (e = d /\ at(e, i) = 1)
    BY <1>1, <1>2
  <2> HIDE DEF at
  <2> QED
    BY <1>1, <2>1, <2>2 DEF Unique
<1>5. ASSUME NEW e \in DOMAIN p.pools, NEW j \in 1..Len(p.pools[e]),
             p.pools[e][j] # r.task
      PROVE  \E i \in 1..Len(q[e]) : q[e][i] = p.pools[e][j]
  <2>1. CASE e = d
    <3>1. j - 1 \in 1..Len(q[e]) /\ q[e][j - 1] = p.pools[e][j]
      <4>1. j # 1 /\ j - 1 \in 1..Len(p.pools[d]) - 1
        BY <1>1, <1>5, <2>1
      <4>2. Tail(p.pools[d])[j - 1] = p.pools[d][j]
        <5>1. j - 1 + 1 = j
          BY <2>1, <1>1
        <5> QED
          BY <1>1, <4>1, <5>1
      <4>3. q[e] = Tail(p.pools[d]) /\ p.pools[e] = p.pools[d]
        BY <1>2, <2>1
      <4>4. j - 1 \in 1..Len(q[e])
        BY <1>1, <4>1, <4>3
      <4> QED
        BY <1>2, <2>1, <4>2, <4>3, <4>4
    <3> QED
      BY <3>1
  <2>2. CASE e # d
    BY <1>2, <2>2
  <2> QED
    BY <2>1, <2>2
<1> DEFINE B == Without(r.task)
           left(a) == [a EXCEPT !.older = @ \ {r.task}]
<1>6. ASSUME NEW a \in arrivals
      PROVE  /\ left(a) \in [task : Task, depth : Nat, older : SUBSET Task]
             /\ left(a).task = a.task /\ left(a).depth = a.depth
             /\ left(a).older = a.older \ {r.task}
  BY DEF Arranged
<1>7. /\ \A a \in arrivals : a.task # r.task => left(a) \in B
      /\ \A b \in B : \E a \in arrivals : a.task # r.task /\ b = left(a)
  BY DEF Without
<1> HIDE DEF B, left
<1>8. B \subseteq [task : Task, depth : Nat, older : SUBSET Task]
  BY <1>6, <1>7
<1>9. ASSUME NEW b \in B, NEW c \in B, b.task = c.task PROVE b = c
  BY <1>6, <1>7, <1>9 DEF Arranged
<1>10. ASSUME NEW b \in B
       PROVE  b.depth \in DOMAIN q /\ b.task \in TasksAt(r.pool, b.depth)
  <2>1. PICK a \in arrivals : a.task # r.task /\ b = left(a)
    BY <1>7
  <2>2. a.depth \in DOMAIN p.pools /\ a.task \in TasksAt(p, a.depth)
    BY DEF Arranged
  <2>3. PICK j \in 1..Len(p.pools[a.depth]) : a.task = p.pools[a.depth][j]
    BY <2>2 DEF TasksAt
  <2>4. PICK i \in 1..Len(q[a.depth]) : q[a.depth][i] = a.task
    BY <1>5, <2>1, <2>2, <2>3
  <2> QED
    BY <1>2, <1>6, <2>1, <2>2, <2>4 DEF TasksAt, q
<1>11. ASSUME NEW e \in DOMAIN q, NEW i \in 1..Len(q[e])
       PROVE  \E b \in B : b.depth = e /\ b.task = q[e][i]
  <2>1. /\ e \in DOMAIN p.pools /\ at(e, i) \in 1..Len(p.pools[e])
        /\ q[e][i] = p.pools[e][at(e, i)] /\ q[e][i] # r.task
    BY <1>2, <1>4
  <2>2. PICK a \in arrivals : a.depth = e /\ a.task = p.pools[e][at(e, i)]
    BY <2>1 DEF Arranged
  <2> QED
    BY <1>6, <1>7, <2>1, <2>2
<1>12. ASSUME NEW e \in DOMAIN q, NEW i \in 1..Len(q[e]), NEW j \in 1..Len(q[e]),
              NEW b \in B, i < j, b.task = q[e][j]
       PROVE  q[e][i] \in b.older
  <2>1. PICK a \in arrivals : a.task # r.task /\ b = left(a)
    BY <1>7
  <2>2. /\ e \in DOMAIN p.pools
        /\ at(e, i) \in 1..Len(p.pools[e]) /\ at(e, j) \in 1..Len(p.pools[e])
        /\ q[e][i] = p.pools[e][at(e, i)] /\ q[e][j] = p.pools[e][at(e, j)]
        /\ q[e][i] # r.task
    BY <1>2, <1>4
  <2>3. at(e, i) < at(e, j)
    BY <1>1, <1>2, <1>3, <1>12
  <2>4. a.task = p.pools[e][at(e, j)]
    BY <1>6, <1>12, <2>1, <2>2
  <2> HIDE DEF at
  <2>5. p.pools[e][at(e, i)] \in a.older
    BY <2>2, <2>3, <2>4 DEF Arranged
  <2> QED
    BY <1>6, <2>1, <2>2, <2>5
<1> QED
  BY <1>8, <1>9, <1>10, <1>11, <1>12 DEF Arranged, q, B

\* A new task goes behind the others of its depth.
LEMMA AddingArranged ==
    ASSUME NEW p, IsPool(p, Task), Arranged(p, arrivals),
           NEW t \in Task, t \notin Held(p), NEW depth \in Nat, depth < 2 * p.max_depth,
           NEW n, n = [task |-> t, depth |-> depth, older |-> {a.task : a \in arrivals}]
    PROVE  Arranged(addWork(p, t, depth), arrivals \cup {n})
<1> SUFFICES ASSUME NEW q, q = addWork(p, t, depth)
             PROVE  Arranged(q, arrivals \cup {n})
  OBVIOUS
<1> DEFINE new(d, i) == d = depth /\ i = Len(q.pools[depth])
<1>1. /\ DOMAIN p.pools \subseteq DOMAIN q.pools
      /\ depth \in DOMAIN q.pools /\ Len(q.pools[depth]) \in 1..Len(q.pools[depth])
      /\ q.pools[depth][Len(q.pools[depth])] = t
  BY AddWorkPlaces
<1>2. \A d \in DOMAIN p.pools : \A i \in 1..Len(p.pools[d]) :
          i \in 1..Len(q.pools[d]) /\ q.pools[d][i] = p.pools[d][i]
  BY AddWorkPlaces
<1>3. ASSUME NEW d \in DOMAIN q.pools, NEW i \in 1..Len(q.pools[d]), ~ new(d, i)
      PROVE  /\ d \in DOMAIN p.pools /\ i \in 1..Len(p.pools[d])
             /\ q.pools[d][i] = p.pools[d][i]
  BY <1>3, AddWorkPlaces
<1>4. /\ n.task = t /\ n.depth = depth /\ n.older = {a.task : a \in arrivals}
      /\ n \in [task : Task, depth : Nat, older : SUBSET Task]
  BY DEF Arranged
<1>5. \A a \in arrivals : a.task # t /\ a.depth \in DOMAIN p.pools
                          /\ a.task \in TasksAt(p, a.depth)
  BY DEF Arranged, Held
<1>6. \A a \in arrivals \cup {n} :
          a.depth \in DOMAIN q.pools /\ a.task \in TasksAt(q, a.depth)
  BY <1>1, <1>2, <1>4, <1>5 DEF TasksAt
<1>7. ASSUME NEW d \in DOMAIN q.pools, NEW i \in 1..Len(q.pools[d])
      PROVE  \E a \in arrivals \cup {n} : a.depth = d /\ a.task = q.pools[d][i]
  <2>1. CASE new(d, i)
    BY <2>1, <1>1, <1>4
  <2>2. CASE ~ new(d, i)
    BY <2>2, <1>3 DEF Arranged
  <2> QED
    BY <2>1, <2>2
<1>8. ASSUME NEW d \in DOMAIN q.pools, NEW i \in 1..Len(q.pools[d]),
             NEW j \in 1..Len(q.pools[d]), NEW b \in arrivals \cup {n},
             i < j, b.task = q.pools[d][j]
      PROVE  q.pools[d][i] \in b.older
  <2>1. ~ new(d, i)
    BY <1>1, <1>8
  <2>2. /\ d \in DOMAIN p.pools /\ i \in 1..Len(p.pools[d])
        /\ q.pools[d][i] = p.pools[d][i]
    BY <2>1, <1>3
  <2>3. CASE b = n
    <3>1. PICK a \in arrivals : a.depth = d /\ a.task = p.pools[d][i]
      BY <2>2 DEF Arranged
    <3> QED
      BY <2>2, <2>3, <3>1, <1>4
  <2>4. CASE b # n
    <3>1. b \in arrivals /\ b.task # t
      BY <2>4, <1>5
    <3>2. ~ new(d, j)
      BY <3>1, <1>1, <1>8
    <3>3. j \in 1..Len(p.pools[d]) /\ q.pools[d][j] = p.pools[d][j]
      BY <3>2, <1>3
    <3> QED
      BY <1>8, <2>2, <3>1, <3>3 DEF Arranged
  <2> QED
    BY <2>3, <2>4
<1> HIDE DEF new
<1>9. /\ arrivals \cup {n} \subseteq [task : Task, depth : Nat, older : SUBSET Task]
      /\ \A a, b \in arrivals \cup {n} : a.task = b.task => a = b
  BY <1>4, <1>5 DEF Arranged
<1> QED
  BY <1>6, <1>7, <1>8, <1>9 DEF Arranged

LEMMA InitArranged == Init => Arranged(pool, arrivals)
<1> SUFFICES ASSUME Init PROVE Arranged(pool, arrivals)
  OBVIOUS
<1>1. arrivals = {} /\ \A d \in DOMAIN pool.pools : pool.pools[d] = <<>>
  BY DEF Init, NewPool
<1>2. \A d \in DOMAIN pool.pools : 1..Len(pool.pools[d]) = {}
  BY <1>1, EmptySeq
<1> QED
  BY <1>1, <1>2 DEF Arranged

LEMMA AnswerArranged ==
    ASSUME Inv, Arranged(pool, arrivals), NEW r, Answer(r),
           \/ Held(pool) = {} /\ r.task = NoTask /\ r.pool.pools = pool.pools
           \/ \E d \in DOMAIN pool.pools : Takes(pool, r, d)
    PROVE  Arranged(pool, arrivals)'
<1>1. /\ pool' = r.pool /\ arrivals' = Without(r.task)
      /\ IsPool(pool, Task) /\ Unique(pool)
  BY DEF Answer, Inv, TypeOK, NoTaskTwice
<1>2. CASE \E d \in DOMAIN pool.pools : Takes(pool, r, d)
  BY <1>1, <1>2, TakingArranged
<1>3. CASE Held(pool) = {} /\ r.task = NoTask /\ r.pool.pools = pool.pools
  <2>1. arrivals = {}
    BY <1>3 DEF Arranged, Held
  <2>2. arrivals' = {}
    BY <1>1, <2>1 DEF Without
  <2> QED
    BY <1>1, <1>3, <2>1, <2>2 DEF Arranged
<1> QED
  BY <1>2, <1>3

\* What the two handlers that take a task do to a pool.
LEMMA Handlers ==
    ASSUME Inv
    PROVE  /\ \/ /\ Held(pool) = {} /\ steal(pool).task = NoTask
                 /\ steal(pool).pool.pools = pool.pools
              \/ \E d \in DOMAIN pool.pools :
                    /\ Takes(pool, steal(pool), d)
                    /\ \A e \in DOMAIN pool.pools : pool.pools[e] # <<>> => d <= e
           /\ \/ /\ Held(pool) = {} /\ getLocal(pool).task = NoTask
                 /\ getLocal(pool).pool.pools = pool.pools
              \/ \E d \in DOMAIN pool.pools :
                    /\ Takes(pool, getLocal(pool), d)
                    /\ \A e \in DOMAIN pool.pools : pool.pools[e] # <<>> => e <= d
<1>1. GoodPool(pool, Task)
  BY DEF Inv, TypeOK, NothingAboveLowest, NoTaskTwice, GoodPool
<1>2. CASE Held(pool) # {}
  BY <1>1, <1>2, StealTakes, GetLocalTakes
<1>3. CASE Held(pool) = {}
  <2>1. Scanned(pool) = {}
    BY <1>1, <1>3, ScanFindsAll DEF GoodPool
  <2>2. [pool EXCEPT !.lowest = 0].pools = pool.pools
    BY <1>1 DEF GoodPool, IsPool
  <2> QED
    BY <1>3, <2>1, <2>2 DEF steal, getLocal
<1> QED
  BY <1>2, <1>3

LEMMA NextArranged ==
    DepthsCovered /\ Inv /\ Arranged(pool, arrivals) /\ [Next]_vars
        => Arranged(pool, arrivals)'
<1> SUFFICES ASSUME DepthsCovered, Inv, Arranged(pool, arrivals), [Next]_vars
             PROVE  Arranged(pool, arrivals)'
  OBVIOUS
<1>1. ASSUME NEW t \in Task, NEW depth \in 0..MaxTaskDepth, AddWork(t, depth)
      PROVE  Arranged(pool, arrivals)'
  <2>1. /\ pool' = addWork(pool, t, depth) /\ t \notin submitted
        /\ arrivals' = arrivals \cup {[task |-> t, depth |-> depth,
                                       older |-> {a.task : a \in arrivals}]}
    BY <1>1 DEF AddWork
  <2>2. t \notin Held(pool) /\ IsPool(pool, Task) /\ pool.max_depth >= InitDepth
    BY <2>1 DEF Inv, NothingLost, TypeOK
  <2>3. depth \in Nat /\ depth < 2 * pool.max_depth
    BY <2>2, TaskAssumption, InitDepthAssumption DEF DepthsCovered, IsPool
  <2> QED
    BY <2>1, <2>2, <2>3, AddingArranged
<1>2. CASE Steal
  BY <1>2, Handlers, AnswerArranged DEF Steal
<1>3. CASE GetLocal
  BY <1>3, Handlers, AnswerArranged DEF GetLocal
<1>4. CASE UNCHANGED vars
  BY <1>4 DEF vars, Arranged, TasksAt
<1> QED
  BY <1>1, <1>2, <1>3, <1>4 DEF Next

\* Local workers take the deepest task and thieves the shallowest, the oldest of
\* its depth (DepthPool.cpp:8-37), whatever was added and taken before.
THEOREM OrderKept == ASSUME DepthsCovered PROVE Spec => TakesInOrder
<1> DEFINE Ordered ==
             arrivals # {} =>
                 /\ GetLocal => \E a \in arrivals : /\ First(a, LAMBDA d, e : d > e)
                                                    /\ reply' = a.task
                 /\ Steal => \E a \in arrivals : /\ First(a, LAMBDA d, e : d < e)
                                                 /\ reply' = a.task
<1>1. ASSUME Inv, Arranged(pool, arrivals), arrivals # {}
      PROVE  Ordered
  <2>1. /\ Held(pool) # {} /\ IsPool(pool, Task) /\ DOMAIN pool.pools \subseteq Nat
        /\ \A b \in arrivals : /\ b.depth \in DOMAIN pool.pools
                               /\ pool.pools[b.depth] # <<>>
    <3>1. \A b \in arrivals : /\ b.depth \in DOMAIN pool.pools
                              /\ b.task \in TasksAt(pool, b.depth)
      BY <1>1 DEF Arranged
    <3>2. IsPool(pool, Task) /\ DOMAIN pool.pools \subseteq Nat
      BY <1>1 DEF Inv, TypeOK, IsPool
    <3>3. \A d \in DOMAIN pool.pools : pool.pools[d] = <<>> => TasksAt(pool, d) = {}
      BY EmptySeq DEF TasksAt
    <3> QED
      BY <1>1, <3>1, <3>2, <3>3 DEF Held
  <2>2. ASSUME GetLocal
        PROVE  \E a \in arrivals : First(a, LAMBDA d, e : d > e) /\ reply' = a.task
    <3>1. PICK d \in DOMAIN pool.pools :
              /\ Takes(pool, getLocal(pool), d)
              /\ \A e \in DOMAIN pool.pools : pool.pools[e] # <<>> => e <= d
      BY <1>1, <2>1, Handlers
    <3>2. PICK a \in arrivals :
              /\ a.task = getLocal(pool).task /\ a.depth = d
              /\ \A b \in arrivals : b.depth = d => a = b \/ a.task \in b.older
      BY <1>1, <2>1, <3>1, HeadIsOldest
    <3>3. reply' = a.task
      BY <2>2, <3>2 DEF GetLocal, Answer
    <3>4. ASSUME NEW b \in arrivals
          PROVE  a.depth > b.depth \/ (a.depth = b.depth /\ (a = b \/ a.task \in b.older))
      BY <2>1, <3>1, <3>2
    <3> QED
      BY <3>3, <3>4 DEF First
  <2>3. ASSUME Steal
        PROVE  \E a \in arrivals : First(a, LAMBDA d, e : d < e) /\ reply' = a.task
    <3>1. PICK d \in DOMAIN pool.pools :
              /\ Takes(pool, steal(pool), d)
              /\ \A e \in DOMAIN pool.pools : pool.pools[e] # <<>> => d <= e
      BY <1>1, <2>1, Handlers
    <3>2. PICK a \in arrivals :
              /\ a.task = steal(pool).task /\ a.depth = d
              /\ \A b \in arrivals : b.depth = d => a = b \/ a.task \in b.older
      BY <1>1, <2>1, <3>1, HeadIsOldest
    <3>3. reply' = a.task
      BY <2>3, <3>2 DEF Steal, Answer
    <3>4. ASSUME NEW b \in arrivals
          PROVE  a.depth < b.depth \/ (a.depth = b.depth /\ (a = b \/ a.task \in b.older))
      BY <2>1, <3>1, <3>2
    <3> QED
      BY <3>3, <3>4 DEF First
  <2> QED
    BY <2>2, <2>3
<1>2. Inv /\ Arranged(pool, arrivals) => [Ordered]_vars
  BY <1>1
<1> HIDE DEF Ordered
<1>3. Spec => [](Inv /\ Arranged(pool, arrivals))
  BY InitInv, NextInv, InitArranged, NextArranged, PTL DEF Spec
<1>4. Spec => [][Ordered]_vars
  BY <1>2, <1>3, PTL
<1> QED
  BY <1>4 DEF Ordered, TakesInOrder
-----------------------------------------------------------------------------
\* The pool implements the abstract work pool: a call comes back empty only
\* when no submitted task is left, and hands out only submitted tasks, once.
THEOREM ImplementsTaskPool == ASSUME DepthsCovered PROVE Spec => KeepsPromise
<1>1. Init => Promise!Init
  BY NewPoolGood DEF Init, Promise!Init
<1>2. Inv /\ [Next]_vars => [Promise!Next]_(Promise!vars)
  <2> SUFFICES ASSUME Inv, [Next]_vars
               PROVE  [Promise!Next]_(Promise!vars)
    OBVIOUS
  <2> USE DEF Promise!Next, Promise!vars
  <2>1. GoodPool(pool, Task) /\ pool.max_depth >= InitDepth
    BY DEF Inv, TypeOK, NothingAboveLowest, NoTaskTwice, GoodPool
  <2>2. ASSUME NEW r, HandsOut(pool, r), Answer(r)
        PROVE  [Promise!Next]_(Promise!vars)
    <3>1. /\ pool' = r.pool /\ reply' = r.task
          /\ delivered' = delivered \cup ({r.task} \ {NoTask})
      BY <2>2 DEF Answer
    <3>2. NoTask \notin Task /\ Held(pool) \subseteq Task
      BY TaskAssumption DEF Inv, NothingLost, TypeOK
    <3>3. CASE Held(pool) = {} /\ r.task = NoTask /\ Held(r.pool) = {}
      BY <3>1, <3>3 DEF Promise!NothingToHandOut
    <3>4. CASE r.task \in Held(pool) /\ Held(r.pool) = Held(pool) \ {r.task}
      <4>1. Promise!HandOut(r.task)
        BY <3>1, <3>2, <3>4 DEF Promise!HandOut
      <4> QED
        BY <3>2, <3>4, <4>1
    <3> QED
      BY <2>2, <3>3, <3>4 DEF HandsOut
  <2>3. ASSUME NEW t \in Task, NEW depth \in 0..MaxTaskDepth, AddWork(t, depth)
        PROVE  [Promise!Next]_(Promise!vars)
    <3>1. /\ pool' = addWork(pool, t, depth) /\ reply' = NoTask
          /\ t \notin submitted /\ delivered' = delivered
      BY <2>3 DEF AddWork
    <3>2. t \notin Held(pool) /\ t \notin delivered
      BY <3>1 DEF Inv, NothingLost
    <3>3. depth \in Nat /\ depth < 2 * pool.max_depth
      BY <2>1, TaskAssumption, InitDepthAssumption
         DEF DepthsCovered, IsPool, GoodPool
    <3>4. Held(pool') = Held(pool) \cup {t}
      BY <2>1, <3>1, <3>2, <3>3, AddWorkHolds
    <3>5. Promise!Submit(t)
      BY <3>1, <3>2, <3>4 DEF Promise!Submit
    <3> QED
      BY <3>5
  <2>4. CASE Steal
    BY <2>1, <2>2, <2>4, StealHandsOut DEF Steal
  <2>5. CASE GetLocal
    BY <2>1, <2>2, <2>5, GetLocalHandsOut DEF GetLocal
  <2>6. CASE UNCHANGED vars
    BY <2>6 DEF vars
  <2> QED
    BY <2>3, <2>4, <2>5, <2>6 DEF Next
<1> QED
  BY <1>1, <1>2, InvHolds, PTL DEF Spec, KeepsPromise, Promise!Spec
=============================================================================
