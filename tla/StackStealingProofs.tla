------------------------ MODULE StackStealingProofs -------------------------
(***************************************************************************)
(* Theorems about StackStealing, in the order in which they need each      *)
(* other:                                                                  *)
(*                                                                         *)
(*  1 the tables of the SearchManagers (TableInv): an id is free or is     *)
(*    held by exactly one thread that runs at the locality, a thread that  *)
(*    registers finds one left, and one that ends finds its shared state;  *)
(*  2 the types of the rest of the state (Shape);                          *)
(*  3 the protocol of a steal (Steals): who may be asked, who waits, and   *)
(*    what channels and requests say of a shared state;                    *)
(*  4 the claims on a node (Unique): a step moves the claim there is and   *)
(*    puts no other beside it;                                             *)
(*  5 the steps that start a task, for which no state may be known before  *)
(*    (Fresh);                                                             *)
(*  6 the initial states, those spawnInitialWork makes included;           *)
(*  7 the tasks that wait, as each step finds and leaves them;             *)
(*  8 the depth limit, and that no claim is lost (CountInv);               *)
(*  9 the answer of optimisations and decisions (AnswerInv);               *)
(* 10 the refinement of Enumeration (PromiseInv);                          *)
(* 11 the size of generatorStack (FitInv).                                 *)
(***************************************************************************)
EXTENDS StackStealing, ProcessNodeProofs

-----------------------------------------------------------------------------
\* 1. The tables of the managers.

TablesTyped ==
    /\ pc = [v \in Worker |-> pc[v]]
    /\ id \in [Worker -> Ids]
    /\ activeIds \in [Locality -> Seq(Ids)]
    /\ active = [l \in Locality |-> active[l]]
    /\ inactive = [l \in Locality |-> inactive[l]]

\* No id is in a queue twice.
FreeOnce == \A l \in Locality : \A i, j \in 1..Len(activeIds[l]) :
                activeIds[l][i] = activeIds[l][j] => i = j

IsFree(l, i) == \E k \in 1..Len(activeIds[l]) : activeIds[l][k] = i
Holds(w, l, i) == Registered(w) /\ home[w] = l /\ id[w] = i

\* No thread holds an id that is free or that another thread holds ...
HeldOnce == \A w \in Worker : Registered(w) =>
                /\ ~ IsFree(home[w], id[w])
                /\ \A v \in Worker : Holds(v, home[w], id[w]) => v = w

\* ... and no id is lost.
NoneLost == \A l \in Locality : \A i \in Ids :
                IsFree(l, i) \/ \E w \in Worker : Holds(w, l, i)

TableInv == TablesTyped /\ FreeOnce /\ HeldOnce /\ NoneLost /\ StateFound
-----------------------------------------------------------------------------
LEMMA Several == threadCount \in Nat \ {0} /\ 0 \in Ids /\ home \in [Worker -> Locality]
BY ManagerAssumption, BoundAssumption DEF Ids

LEMMA FreeIsRange == \A l \in Locality, i \in Ids : activeIds[l] \in Seq(Ids) =>
                        (i \in Range(activeIds[l]) <=> IsFree(l, i))
BY DEF IsFree, Range

\* With fewer threads running at a locality than it has ids, one is free.
LEMMA IdLeft ==
    ASSUME TableInv, NEW w \in Worker, ~ Registered(w)
    PROVE  activeIds[home[w]] # <<>>
<1> DEFINE l == home[w]
           here == {v \in Worker : home[v] = l}
           R == {v \in Worker : home[v] = l /\ Registered(v)}
           f == [v \in R |-> id[v]]
<1>1. l \in Locality /\ IsFiniteSet(here) /\ IsFiniteSet(Worker) /\ w \in here
      /\ Cardinality(here) <= threadCount /\ threadCount \in Nat
  BY Several, StackAssumption, FS_Subset
<1>2. IsFiniteSet(here \ {w}) /\ Cardinality(here \ {w}) = Cardinality(here) - 1
  BY <1>1, FS_RemoveElement
<1>3. R \subseteq here \ {w}
  OBVIOUS
<1>4. IsFiniteSet(R) /\ Cardinality(R) <= Cardinality(here) - 1
      /\ Cardinality(here) \in Nat /\ Cardinality(R) \in Nat
  BY <1>1, <1>2, <1>3, FS_Subset, FS_CardinalityType
<1>5. SUFFICES ASSUME activeIds[l] = <<>> PROVE FALSE
  OBVIOUS
<1>6. \A i \in Ids : \E v \in R : f[v] = i
  BY <1>1, <1>5 DEF TableInv, NoneLost, IsFree, Holds
<1>7. f \in [R -> Ids]
  BY DEF TableInv, TablesTyped
<1>8. f \in Surjection(R, Ids)
  BY <1>6, <1>7 DEF Surjection
<1>9. Cardinality(Ids) <= Cardinality(R)
  <2> HIDE DEF f, R
  <2> QED
    BY <1>4, <1>8, FS_Surjection
<1>10. Cardinality(Ids) = threadCount
  BY <1>1, FS_Interval DEF Ids
<1> QED
  BY <1>1, <1>4, <1>9, <1>10

LEMMA TableInvSafe == TableInv => IdsDistinct /\ StateFound
<1> SUFFICES ASSUME TableInv PROVE IdsDistinct
  BY DEF TableInv
<1> SUFFICES ASSUME NEW w \in Worker
             PROVE  /\ pc[w] = "register" => activeIds[home[w]] # <<>>
                    /\ Registered(w) =>
                          /\ id[w] \notin Range(activeIds[home[w]])
                          /\ \A v \in Worker \ {w} :
                                Registered(v) /\ home[v] = home[w] => id[v] # id[w]
  BY DEF IdsDistinct
<1>1. pc[w] = "register" => activeIds[home[w]] # <<>>
  BY IdLeft DEF Registered
<1>2. home[w] \in Locality /\ id[w] \in Ids /\ activeIds[home[w]] \in Seq(Ids)
  BY Several DEF TableInv, TablesTyped
<1>3. Registered(w) => id[w] \notin Range(activeIds[home[w]])
  BY <1>2, FreeIsRange DEF TableInv, HeldOnce
<1>4. Registered(w) => \A v \in Worker \ {w} :
         Registered(v) /\ home[v] = home[w] => id[v] # id[w]
  BY DEF TableInv, HeldOnce, Holds
<1> QED
  BY <1>1, <1>3, <1>4
-----------------------------------------------------------------------------
LEMMA InitTables == Init => TableInv
<1> SUFFICES ASSUME Init PROVE TableInv
  OBVIOUS
<1>0. /\ pc = [w \in Worker |-> IF w = first THEN IF Exhausted THEN "count" ELSE "loop"
                               ELSE IF given = 0 THEN "gone" ELSE "register"]
      /\ ManagerInit(first, Root)
  BY DEF Init
<1> USE DEF ManagerInit
<1>1. /\ threadCount \in Nat \ {0} /\ home \in [Worker -> Locality] /\ first \in Worker
      /\ Ids = 0..threadCount - 1
  BY Several, StackAssumption DEF Ids
<1>2. \A w \in Worker : Registered(w) <=> w = first
  BY <1>0 DEF Registered, Thieving
<1>a. \A l \in Locality : l = home[first] =>
         /\ activeIds[l] \in Seq(Ids) /\ Len(activeIds[l]) = threadCount - 1
         /\ \A i \in 1..threadCount - 1 : activeIds[l][i] = i
  <2> SUFFICES ASSUME NEW l \in Locality, l = home[first]
               PROVE  /\ activeIds[l] \in Seq(Ids) /\ Len(activeIds[l]) = threadCount - 1
                      /\ \A i \in 1..threadCount - 1 : activeIds[l][i] = i
    OBVIOUS
  <2>1. activeIds[l] = [i \in 1..threadCount - 1 |-> i]
    BY <1>0
  <2> QED
    BY <1>1, <2>1
<1>b. \A l \in Locality : l # home[first] =>
         /\ activeIds[l] \in Seq(Ids) /\ Len(activeIds[l]) = threadCount
         /\ \A i \in 1..threadCount : activeIds[l][i] = i - 1
  <2> SUFFICES ASSUME NEW l \in Locality, l # home[first]
               PROVE  /\ activeIds[l] \in Seq(Ids) /\ Len(activeIds[l]) = threadCount
                      /\ \A i \in 1..threadCount : activeIds[l][i] = i - 1
    OBVIOUS
  <2>1. activeIds[l] = [i \in 1..threadCount |-> i - 1]
    BY <1>0, <1>1
  <2> QED
    BY <1>1, <2>1
<1>4. TablesTyped
  <2>1. pc = [v \in Worker |-> pc[v]] /\ active = [l \in Locality |-> active[l]]
        /\ inactive = [l \in Locality |-> inactive[l]]
    BY <1>0
  <2>2. id \in [Worker -> Ids]
    BY <1>0, <1>1
  <2>3. activeIds \in [Locality -> Seq(Ids)]
    BY <1>0, <1>a, <1>b
  <2> QED
    BY <2>1, <2>2, <2>3 DEF TablesTyped
<1>5. FreeOnce
  <2> SUFFICES ASSUME NEW l \in Locality
               PROVE  \A i, j \in 1..Len(activeIds[l]) :
                         activeIds[l][i] = activeIds[l][j] => i = j
    BY DEF FreeOnce
  <2>1. CASE l = home[first]
    BY <1>1, <1>a, <2>1
  <2>2. CASE l # home[first]
    BY <1>1, <1>b, <2>2
  <2> QED
    BY <2>1, <2>2
<1>6. HeldOnce
  <2>1. id[first] = 0 /\ home[first] \in Locality
    BY <1>0, <1>1
  <2>2. ~ IsFree(home[first], 0)
    BY <1>1, <1>a, <2>1 DEF IsFree
  <2> QED
    BY <1>1, <1>2, <2>1, <2>2 DEF HeldOnce, Holds
<1>7. NoneLost
  <2> SUFFICES ASSUME NEW l \in Locality, NEW i \in Ids
               PROVE  IsFree(l, i) \/ \E w \in Worker : Holds(w, l, i)
    BY DEF NoneLost
  <2>1. CASE l = home[first]
    <3>1. CASE i = 0
      BY <1>0, <1>1, <1>2, <2>1, <3>1 DEF Holds
    <3>2. CASE i # 0
      <4>1. i \in 1..Len(activeIds[l]) /\ activeIds[l][i] = i
        BY <1>1, <1>a, <2>1, <3>2
      <4> QED
        BY <4>1 DEF IsFree
    <3> QED
      BY <3>1, <3>2
  <2>2. CASE l # home[first]
    <3>1. i + 1 \in 1..Len(activeIds[l]) /\ activeIds[l][i + 1] = i
      BY <1>1, <1>b, <2>2
    <3> QED
      BY <3>1 DEF IsFree
  <2> QED
    BY <2>1, <2>2
<1>8. StateFound
  BY <1>0, <1>1, <1>2 DEF StateFound, With
<1> QED
  BY <1>4, <1>5, <1>6, <1>7, <1>8 DEF TableInv
-----------------------------------------------------------------------------
\* A step that neither registers nor unregisters anyone and drops no shared
\* state from the tables.
LEMMA SameThreads ==
    ASSUME TableInv, UNCHANGED <<activeIds, id>>, pc' = [v \in Worker |-> pc'[v]],
           active' = [l \in Locality |-> active'[l]],
           inactive' = [l \in Locality |-> inactive'[l]],
           \A v \in Worker : Registered(v)' <=> Registered(v),
           \A l \in Locality : DOMAIN active[l] \cup DOMAIN inactive[l] \subseteq
                               DOMAIN active'[l] \cup DOMAIN inactive'[l]
    PROVE  TableInv'
<1> USE DEF TableInv
<1>1. TablesTyped'
  BY DEF TablesTyped
<1>2. \A w \in Worker : \A l, i : Holds(w, l, i)' <=> Holds(w, l, i)
  BY DEF Holds
<1>3. \A l, i : IsFree(l, i)' <=> IsFree(l, i)
  BY DEF IsFree
<1>4. FreeOnce'
  BY DEF FreeOnce
<1>5. HeldOnce'
  BY <1>2, <1>3 DEF HeldOnce
<1>6. NoneLost'
  BY <1>2, <1>3 DEF NoneLost
<1>7. StateFound'
  BY Several DEF StateFound
<1> QED
  BY <1>1, <1>4, <1>5, <1>6, <1>7

LEMMA RegisterStep ==
    ASSUME TableInv, NEW w \in Worker, Register(w)
    PROVE  TableInv'
<1> USE DEF TableInv
<1> DEFINE l == home[w]
           q == activeIds[l]
<1>0. PICK i : i = Head(q)
  OBVIOUS
<1>1. /\ pc[w] = "register" /\ l \in Locality /\ q \in Seq(Ids) /\ q # <<>>
      /\ ~ Registered(w)
  BY Several, IdLeft DEF Register, Registered, TablesTyped
<1>2. /\ pc' = [pc EXCEPT ![w] = "loop"]
      /\ activeIds' = [activeIds EXCEPT ![l] = Tail(q)]
      /\ active' = [active EXCEPT ![l] = With(active[l], i, TaskOf(w))]
      /\ id' = [id EXCEPT ![w] = i] /\ UNCHANGED inactive
  BY <1>0 DEF Register, registerThread, Goto
<1>3. /\ i \in Ids /\ i = q[1] /\ Len(q) \in Nat \ {0}
      /\ Tail(q) \in Seq(Ids) /\ Len(Tail(q)) = Len(q) - 1
      /\ \A k \in 1..Len(q) - 1 : Tail(q)[k] = q[k + 1]
  BY <1>0, <1>1
<1>4. TablesTyped'
  BY <1>1, <1>2, <1>3 DEF TablesTyped
<1>5. /\ activeIds'[l] = Tail(q)
      /\ \A m \in Locality \ {l} : activeIds'[m] = activeIds[m]
      /\ id'[w] = i /\ \A v \in Worker \ {w} : id'[v] = id[v]
      /\ Registered(w)' /\ \A v \in Worker \ {w} : Registered(v)' <=> Registered(v)
  BY <1>1, <1>2 DEF TablesTyped, Registered, Thieving
<1>6. /\ \A j \in Ids : IsFree(l, j)' <=> IsFree(l, j) /\ j # i
      /\ \A m \in Locality \ {l} : \A j : IsFree(m, j)' <=> IsFree(m, j)
      /\ IsFree(l, i)
  <2>1. \A m \in Locality \ {l} : \A j : IsFree(m, j)' <=> IsFree(m, j)
    BY <1>5 DEF IsFree
  <2>2. \A k \in 1..Len(q) : q[k] = i <=> k = 1
    BY <1>1, <1>3 DEF FreeOnce
  <2>3. ASSUME NEW j \in Ids, IsFree(l, j)' PROVE IsFree(l, j) /\ j # i
    <3>1. PICK k \in 1..Len(q) - 1 : q[k + 1] = j
      BY <1>3, <1>5, <2>3 DEF IsFree
    <3> QED
      BY <1>3, <2>2, <3>1 DEF IsFree
  <2>4. ASSUME NEW j \in Ids, IsFree(l, j), j # i PROVE IsFree(l, j)'
    <3>1. PICK k \in 1..Len(q) : q[k] = j
      BY <2>4 DEF IsFree
    <3>2. k - 1 \in 1..Len(q) - 1 /\ Tail(q)[k - 1] = j
      BY <1>3, <2>2, <2>4, <3>1
    <3> QED
      BY <1>3, <1>5, <3>2 DEF IsFree
  <2>5. IsFree(l, i)
    BY <1>3 DEF IsFree
  <2> QED
    BY <2>1, <2>3, <2>4, <2>5
<1>7. \A v \in Worker : \A m, j :
         Holds(v, m, j)' <=> IF v = w THEN m = l /\ j = i ELSE Holds(v, m, j)
  BY <1>5 DEF Holds
<1>8. FreeOnce'
  <2> SUFFICES ASSUME NEW m \in Locality
               PROVE  \A j, k \in 1..Len(activeIds'[m]) :
                         activeIds'[m][j] = activeIds'[m][k] => j = k
    BY DEF FreeOnce
  <2>1. CASE m # l
    BY <1>5, <2>1 DEF FreeOnce
  <2>2. CASE m = l
    <3>1. \A j, k \in 1..Len(q) : q[j] = q[k] => j = k
      BY <1>1 DEF FreeOnce
    <3>2. SUFFICES ASSUME NEW j \in 1..Len(q) - 1, NEW k \in 1..Len(q) - 1,
                          Tail(q)[j] = Tail(q)[k]
                   PROVE  j = k
      <4>1. Len(activeIds'[m]) = Len(q) - 1 /\ activeIds'[m] = Tail(q)
        BY <1>3, <1>5, <2>2
      <4> QED
        BY <4>1
    <3>3. q[j + 1] = q[k + 1] /\ j + 1 \in 1..Len(q) /\ k + 1 \in 1..Len(q)
      BY <1>3, <3>2
    <3> QED
      BY <3>1, <3>3
  <2> QED
    BY <2>1, <2>2
<1>9. \A v \in Worker : ~ Holds(v, l, i)
  <2>1. IsFree(l, i)
    BY <1>6
  <2>2. \A v \in Worker : Registered(v) => ~ IsFree(home[v], id[v])
    BY DEF HeldOnce
  <2> QED
    BY <2>1, <2>2 DEF Holds
<1>10. HeldOnce'
  <2> SUFFICES ASSUME NEW v \in Worker, Registered(v)'
               PROVE  /\ ~ IsFree(home[v], id[v])'
                      /\ \A u \in Worker : Holds(u, home[v], id[v])' => u = v
    BY DEF HeldOnce
  <2>1. CASE v = w
    <3>1. home[v] = l /\ id'[v] = i
      BY <1>5, <2>1
    <3>2. ~ IsFree(l, i)'
      BY <1>3, <1>6
    <3>3. \A u \in Worker : (\A m, j : m = l /\ j = i => (Holds(u, m, j)' => u = w))
      BY <1>7, <1>9
    <3> QED
      BY <2>1, <3>1, <3>2, <3>3 DEF Holds, IsFree
  <2>2. CASE v # w
    <3>1. Registered(v) /\ id'[v] = id[v] /\ id[v] \in Ids /\ home[v] \in Locality
      BY <1>5, <2>2, Several DEF TablesTyped
    <3>2. /\ ~ IsFree(home[v], id[v])
          /\ \A u \in Worker : Holds(u, home[v], id[v]) => u = v
      BY <3>1 DEF HeldOnce
    <3>3. ~ (home[v] = l /\ id[v] = i)
      BY <1>9, <3>1 DEF Holds
    <3>4. ~ IsFree(home[v], id[v])'
      <4>1. \A m, j : m = home[v] /\ j = id[v] => ~ IsFree(m, j)'
        BY <1>6, <3>1, <3>2
      <4> QED
        BY <3>1, <4>1 DEF IsFree
    <3>5. \A u \in Worker : Holds(u, home[v], id[v])' => u = v
      <4> SUFFICES ASSUME NEW u \in Worker, Holds(u, home[v], id[v])' PROVE u = v
        OBVIOUS
      <4>1. \A m, j : m = home[v] /\ j = id'[v] => Holds(u, m, j)'
        BY DEF Holds
      <4> QED
        BY <1>7, <3>1, <3>2, <3>3, <4>1
    <3> QED
      BY <3>4, <3>5
  <2> QED
    BY <2>1, <2>2
<1>11. NoneLost'
  <2> SUFFICES ASSUME NEW m \in Locality, NEW j \in Ids
               PROVE  IsFree(m, j)' \/ \E x \in Worker : Holds(x, m, j)'
    BY DEF NoneLost
  <2>1. IsFree(m, j) \/ \E x \in Worker : Holds(x, m, j)
    BY DEF NoneLost
  <2>2. \A m2, j2 : ~ Holds(w, m2, j2)
    BY <1>1 DEF Holds
  <2> QED
    BY <1>6, <1>7, <2>1, <2>2
<1>12. StateFound'
  BY <1>1, <1>2, <1>5, Several DEF StateFound, With, TablesTyped
<1> QED
  BY <1>4, <1>8, <1>10, <1>11, <1>12

LEMMA UnregisterStep ==
    ASSUME TableInv, NEW w \in Worker, Unregister(w)
    PROVE  TableInv'
<1> USE DEF TableInv
<1> DEFINE l == home[w]
           q == activeIds[l]
<1>0. PICK i : i = id[w]
  OBVIOUS
<1>1. /\ pc[w] = "unregister" /\ l \in Locality /\ q \in Seq(Ids) /\ i \in Ids
      /\ Registered(w) /\ Len(q) \in Nat
  BY <1>0, Several DEF Unregister, Registered, Thieving, TablesTyped
<1>2. /\ pc' = [pc EXCEPT ![w] = "idle"]
      /\ activeIds' = [activeIds EXCEPT ![l] = Append(q, i)]
      /\ id' = [id EXCEPT ![w] = 0]
      /\ \/ active' = [active EXCEPT ![l] = Without(active[l], i)] /\ UNCHANGED inactive
         \/ inactive' = [inactive EXCEPT ![l] = Without(inactive[l], i)]
            /\ UNCHANGED active
  BY <1>0 DEF Unregister, unregisterThread, Goto
<1>3. /\ Append(q, i) \in Seq(Ids) /\ Len(Append(q, i)) = Len(q) + 1
      /\ Append(q, i)[Len(q) + 1] = i
      /\ \A k \in 1..Len(q) : Append(q, i)[k] = q[k]
  BY <1>1
<1>4. TablesTyped'
  BY <1>1, <1>2, <1>3, Several DEF TablesTyped
<1>5. /\ activeIds'[l] = Append(q, i)
      /\ \A m \in Locality \ {l} : activeIds'[m] = activeIds[m]
      /\ \A v \in Worker \ {w} : id'[v] = id[v]
      /\ ~ Registered(w)' /\ \A v \in Worker \ {w} : Registered(v)' <=> Registered(v)
  BY <1>1, <1>2 DEF TablesTyped, Registered, Thieving
<1>6. /\ \A j : IsFree(l, j)' <=> IsFree(l, j) \/ j = i
      /\ \A m \in Locality \ {l} : \A j : IsFree(m, j)' <=> IsFree(m, j)
      /\ ~ IsFree(l, i)
  <2>1. \A m \in Locality \ {l} : \A j : IsFree(m, j)' <=> IsFree(m, j)
    BY <1>5 DEF IsFree
  <2>2. \A j : IsFree(l, j)' <=> IsFree(l, j) \/ j = i
    BY <1>1, <1>3, <1>5 DEF IsFree
  <2>3. ~ IsFree(l, i)
    BY <1>0, <1>1 DEF HeldOnce
  <2> QED
    BY <2>1, <2>2, <2>3
<1>7. \A v \in Worker : \A m, j : Holds(v, m, j)' <=> v # w /\ Holds(v, m, j)
  BY <1>0, <1>5 DEF Holds
<1>8. FreeOnce'
  <2> SUFFICES ASSUME NEW m \in Locality
               PROVE  \A j, k \in 1..Len(activeIds'[m]) :
                         activeIds'[m][j] = activeIds'[m][k] => j = k
    BY DEF FreeOnce
  <2>1. CASE m # l
    BY <1>5, <2>1 DEF FreeOnce
  <2>2. CASE m = l
    <3>1. \A k \in 1..Len(q) : q[k] # i
      BY <1>6 DEF IsFree
    <3>2. \A j, k \in 1..Len(q) : q[j] = q[k] => j = k
      BY <1>1 DEF FreeOnce
    <3>3. SUFFICES ASSUME NEW j \in 1..Len(q) + 1, NEW k \in 1..Len(q) + 1,
                          Append(q, i)[j] = Append(q, i)[k]
                   PROVE  j = k
      BY <1>3, <1>5, <2>2
    <3>4. j \in 1..Len(q) \/ j = Len(q) + 1
      BY <1>1
    <3>5. k \in 1..Len(q) \/ k = Len(q) + 1
      BY <1>1
    <3> QED
      BY <1>3, <3>1, <3>2, <3>3, <3>4, <3>5
  <2> QED
    BY <2>1, <2>2
<1>9. \A v \in Worker \ {w} : ~ Holds(v, l, i)
  BY <1>0, <1>1 DEF HeldOnce
<1>10. HeldOnce'
  <2> SUFFICES ASSUME NEW v \in Worker, Registered(v)'
               PROVE  /\ ~ IsFree(home[v], id[v])'
                      /\ \A x \in Worker : Holds(x, home[v], id[v])' => x = v
    BY DEF HeldOnce
  <2>1. v # w /\ Registered(v) /\ id'[v] = id[v] /\ home[v] \in Locality
    BY <1>5, Several
  <2>2. /\ ~ IsFree(home[v], id[v])
        /\ \A x \in Worker : Holds(x, home[v], id[v]) => x = v
    BY <2>1 DEF HeldOnce
  <2>3. ~ (home[v] = l /\ id[v] = i)
    BY <1>9, <2>1 DEF Holds
  <2>4. ~ IsFree(home[v], id[v])'
    <3>1. \A m, j : m = home[v] /\ j = id[v] => ~ IsFree(m, j)'
      BY <1>6, <2>1, <2>2, <2>3
    <3> QED
      BY <2>1, <3>1 DEF IsFree
  <2>5. ASSUME NEW x \in Worker, Holds(x, home[v], id[v])' PROVE x = v
    <3>1. \A m, j : m = home[v] /\ j = id'[v] => Holds(x, m, j)'
      BY <2>5 DEF Holds
    <3> QED
      BY <1>7, <2>1, <2>2, <3>1
  <2> QED
    BY <2>4, <2>5
<1>11. NoneLost'
  <2> SUFFICES ASSUME NEW m \in Locality, NEW j \in Ids
               PROVE  IsFree(m, j)' \/ \E x \in Worker : Holds(x, m, j)'
    BY DEF NoneLost
  <2>1. IsFree(m, j) \/ \E x \in Worker : Holds(x, m, j)
    BY DEF NoneLost
  <2>2. Holds(w, m, j) => m = l /\ j = i
    BY <1>0, <1>1 DEF Holds
  <2> QED
    BY <1>6, <1>7, <2>1, <2>2
<1>12. StateFound'
  <2> SUFFICES ASSUME NEW v \in Worker, Registered(v)'
               PROVE  id'[v] \in DOMAIN active'[home[v]] \cup DOMAIN inactive'[home[v]]
    BY DEF StateFound
  <2>1. v # w /\ Registered(v) /\ id'[v] = id[v] /\ home[v] \in Locality
    BY <1>5, Several
  <2>2. id[v] \in DOMAIN active[home[v]] \cup DOMAIN inactive[home[v]]
    BY <2>1 DEF StateFound
  <2>3. home[v] = l => id[v] # i
    BY <1>9, <2>1 DEF Holds
  <2>4. \A m \in Locality :
           /\ active'[m] = active[m] \/ (m = l /\ active'[m] = Without(active[m], i))
           /\ inactive'[m] = inactive[m] \/ (m = l /\ inactive'[m] = Without(inactive[m], i))
    BY <1>1, <1>2 DEF TablesTyped
  <2>5. \A m \in Locality : \A j :
           /\ j \in DOMAIN active[m] => j \in DOMAIN active'[m] \/ (m = l /\ j = i)
           /\ j \in DOMAIN inactive[m] => j \in DOMAIN inactive'[m] \/ (m = l /\ j = i)
    BY <2>4 DEF Without
  <2> QED
    BY <2>1, <2>2, <2>3, <2>5
<1> QED
  BY <1>4, <1>8, <1>10, <1>11, <1>12
-----------------------------------------------------------------------------
\* Where a step that leaves the tables alone takes a thread.
LEMMA MovingPlaces ==
    ASSUME NEW w \in Worker,
           \/ Stop(w) \/ Reply(w) \/ LowerFlag(w) \/ NextChild(w) \/ Backtrack(w)
           \/ ProcessChild(w) \/ Continue(w) \/ Prune(w) \/ Break(w) \/ Exit(w)
           \/ UpdateEnumerator(w)
    PROVE  /\ \E p \in {"count", "lower", "move", "process", "loop", "unregister",
                        "objective", "raise", "submit", "flag", "answered"} : Goto(w, p)
           /\ pc[w] \notin Thieving \cup {"register"}
           /\ UNCHANGED table_vars
<1>1. CASE ProcessChild(w)
  BY <1>1 DEF ProcessChild, Process, ProcessCounted, ProcessFound, ProcessHopeless,
     ProcessAlive, CheckObjective, RaiseBound, SubmitIncumbent, StopOthers, Answer,
     manager_vars, table_vars, Thieving
<1>2. CASE Stop(w) \/ Reply(w) \/ LowerFlag(w) \/ NextChild(w) \/ Backtrack(w)
  BY <1>2 DEF Stop, Reply, LowerFlag, NextChild, Backtrack, Moving, Pop,
     manager_vars, table_vars, Thieving
<1>3. CASE Continue(w) \/ Prune(w) \/ Break(w) \/ Exit(w) \/ UpdateEnumerator(w)
  BY <1>3 DEF Continue, Prune, Break, Exit, UpdateEnumerator, Pop, manager_vars,
     table_vars, Thieving
<1> QED
  BY <1>1, <1>2, <1>3

LEMMA ThievingPlaces ==
    ASSUME NEW w \in Worker,
           \/ Loop(w) \/ TakeBuffered(w) \/ AskRemote(w) \/ NoWork(w) \/ RefuseRemote(w)
           \/ FinishRemote(w)
    PROVE  /\ \E p \in Thieving \cup {"register"} : Goto(w, p)
           /\ pc[w] \in Thieving
           /\ UNCHANGED table_vars
<1>1. CASE Loop(w) \/ TakeBuffered(w) \/ AskRemote(w)
  BY <1>1 DEF Loop, TakeBuffered, AskRemote, Run, manager_vars, table_vars, Thieving
<1>2. CASE NoWork(w) \/ RefuseRemote(w) \/ FinishRemote(w)
  BY <1>2 DEF NoWork, RefuseRemote, FinishRemote, Use, Run, manager_vars, table_vars,
     Thieving
<1> QED
  BY <1>1, <1>2

\* The steps that move a shared state from one table to the other.
LEMMA RequestKeeps ==
    ASSUME TableInv, NEW w \in Worker, NEW l, Request(w, l)
    PROVE  /\ active' = [m \in Locality |-> active'[m]]
           /\ inactive' = [m \in Locality |-> inactive'[m]]
           /\ \A m \in Locality : DOMAIN active[m] \cup DOMAIN inactive[m] \subseteq
                                  DOMAIN active'[m] \cup DOMAIN inactive'[m]
           /\ Goto(w, "await") /\ UNCHANGED <<activeIds, id>>
<1>1. PICK i, s :
         /\ i \in DOMAIN active[l]
         /\ active' = [active EXCEPT ![l] = Without(@, i)]
         /\ inactive' = [inactive EXCEPT ![l] = With(@, i, s)]
         /\ Goto(w, "await") /\ UNCHANGED <<activeIds, id>>
  BY DEF Request
<1>2. DOMAIN active = Locality /\ DOMAIN inactive = Locality
  BY DEF TableInv, TablesTyped
<1>3. /\ active' = [m \in Locality |-> active'[m]]
      /\ inactive' = [m \in Locality |-> inactive'[m]]
  BY <1>1, <1>2
<1>4. /\ DOMAIN Without(active[l], i) = DOMAIN active[l] \ {i}
      /\ DOMAIN With(inactive[l], i, s) = DOMAIN inactive[l] \cup {i}
  BY DEF With, Without
<1> QED
  BY <1>1, <1>2, <1>3, <1>4

LEMMA ReinsertKeeps ==
    ASSUME TableInv, NEW w \in Worker, Reinsert(w)
    PROVE  /\ active' = [m \in Locality |-> active'[m]]
           /\ inactive' = [m \in Locality |-> inactive'[m]]
           /\ \A m \in Locality : DOMAIN active[m] \cup DOMAIN inactive[m] \subseteq
                                  DOMAIN active'[m] \cup DOMAIN inactive'[m]
<1> DEFINE l == victim[w].at
           i == victim[w].pos
<1>1. DOMAIN active = Locality /\ DOMAIN inactive = Locality
      /\ active = [m \in Locality |-> active[m]]
      /\ inactive = [m \in Locality |-> inactive[m]]
  BY DEF TableInv, TablesTyped
<1>2. CASE UNCHANGED <<active, inactive>>
  BY <1>1, <1>2
<1>3. CASE /\ active' = [active EXCEPT ![l] = With(@, i, victim[w].state)]
           /\ inactive' = [inactive EXCEPT ![l] = Without(@, i)]
  <2>1. /\ DOMAIN Without(inactive[l], i) = DOMAIN inactive[l] \ {i}
        /\ DOMAIN With(active[l], i, victim[w].state) = DOMAIN active[l] \cup {i}
    BY DEF With, Without
  <2> QED
    BY <1>1, <1>3, <2>1
<1> QED
  BY <1>2, <1>3 DEF Reinsert
-----------------------------------------------------------------------------
LEMMA GotoTyped ==
    ASSUME TableInv, NEW w \in Worker, NEW p, Goto(w, p)
    PROVE  /\ pc' = [v \in Worker |-> pc'[v]] /\ pc'[w] = p
           /\ \A v \in Worker \ {w} : pc'[v] = pc[v]
BY DEF Goto, TableInv, TablesTyped

LEMMA TablesKept ==
    ASSUME TableInv, [Next]_vars
    PROVE  TableInv'
<1>0. /\ active = [l \in Locality |-> active[l]]
      /\ inactive = [l \in Locality |-> inactive[l]]
      /\ pc = [v \in Worker |-> pc[v]]
  BY DEF TableInv, TablesTyped
<1>1. CASE UNCHANGED <<pc, table_vars>>
  BY <1>0, <1>1, SameThreads DEF table_vars, Registered
<1>2. CASE RootReady \/ Return
  BY <1>1, <1>2 DEF RootReady, Return, process_vars, manager_vars
<1>3. CASE Deliver
  BY <1>1, <1>3 DEF Deliver, Receive, ReceiveBound, ReceiveStop, manager_vars
<1>4. CASE UNCHANGED vars
  BY <1>1, <1>4 DEF vars, process_vars, manager_vars
<1>5. ASSUME NEW w \in Worker, Step(w) PROVE TableInv'
  <2>1. ASSUME NEW p, Goto(w, p),
               Registered(w) <=> p \notin Thieving \cup {"register"}
        PROVE  /\ pc' = [v \in Worker |-> pc'[v]]
               /\ \A v \in Worker : Registered(v)' <=> Registered(v)
    BY <2>1, GotoTyped DEF Registered
  <2>2. CASE Register(w)
    BY <2>2, RegisterStep
  <2>3. CASE Unregister(w)
    BY <2>3, UnregisterStep
  <2>4. CASE \/ Stop(w) \/ Reply(w) \/ LowerFlag(w) \/ NextChild(w) \/ Backtrack(w)
             \/ ProcessChild(w) \/ Continue(w) \/ Prune(w) \/ Break(w) \/ Exit(w)
             \/ UpdateEnumerator(w)
    <3>1. /\ \E p : Goto(w, p) /\ p \notin Thieving \cup {"register"}
          /\ Registered(w) /\ UNCHANGED table_vars
      BY <2>4, MovingPlaces DEF Registered, Thieving
    <3> QED
      BY <1>0, <2>1, <3>1, SameThreads DEF table_vars
  <2>5. CASE \/ Loop(w) \/ TakeBuffered(w) \/ AskRemote(w) \/ NoWork(w)
             \/ RefuseRemote(w) \/ FinishRemote(w)
    <3>1. /\ \E p : Goto(w, p) /\ p \in Thieving \cup {"register"}
          /\ ~ Registered(w) /\ UNCHANGED table_vars
      BY <2>5, ThievingPlaces DEF Registered
    <3> QED
      BY <1>0, <2>1, <3>1, SameThreads DEF table_vars
  <2>6. CASE AskLocal(w) \/ ServeRemote(w)
    <3>1. PICK l : Request(w, l) /\ pc[w] \in {"get", "ask"}
      BY <2>6 DEF AskLocal, ServeRemote
    <3>2. Goto(w, "await") /\ ~ Registered(w)
      BY <3>1, RequestKeeps DEF Registered, Thieving
    <3> QED
      BY <2>1, <3>1, <3>2, RequestKeeps, SameThreads DEF Thieving
  <2>7. CASE AnswerRemote(w) \/ FinishLocal(w)
    <3>1. /\ Reinsert(w) /\ pc[w] = "await" /\ UNCHANGED <<activeIds, id>>
          /\ Goto(w, "told") \/ Goto(w, "idle") \/ Goto(w, "register")
      BY <2>7 DEF AnswerRemote, FinishLocal, Use, Run
    <3>2. ~ Registered(w)
      BY <3>1 DEF Registered, Thieving
    <3> QED
      BY <2>1, <3>1, <3>2, ReinsertKeeps, SameThreads DEF Thieving
  <2> QED
    BY <1>5, <2>2, <2>3, <2>4, <2>5, <2>6, <2>7 DEF Step, Thief, Walk
<1> QED
  BY <1>2, <1>3, <1>4, <1>5 DEF Next

LEMMA TablesHold == Spec => []TableInv
BY InitTables, TablesKept, PTL DEF Spec

\* Threads that run at the same time at a locality have different ids, none of
\* them free, and registerThread never looks for the head of an empty queue:
\* a locality has as many ids as threads.
THEOREM DistinctIds == Spec => []IdsDistinct
BY TablesHold, TableInvSafe, PTL

\* unregisterThread finds the id of the thread among those that can be stolen
\* from or among those that are being stolen from, so a steal in progress has
\* a state to be cancelled with.
THEOREM StatesFound == Spec => []StateFound
BY TablesHold, TableInvSafe, PTL
-----------------------------------------------------------------------------
\* 2. The types.

\* The types of the state besides the tables, as far as the claims on the nodes
\* depend on them: a channel never holds a chunk.
Places == (ProcessPlaces \ {"free"}) \cup Thieving
          \cup {"register", "loop", "lower", "move", "count", "unregister"}
Responses == Seq(Node) \cup {None, NoSteal}
Victims == [at : Locality, pos : Ids, state : Node]

SearchTyped ==
    /\ pc \in [Worker -> Places] /\ ret \in [Worker -> Answers]
    /\ acc \in [Worker -> [Node -> Nat]] /\ counted \in [Node -> Nat]
    /\ stack \in [Worker -> Seq(Frames)] /\ stolen \subseteq Node
    /\ stealAll \in BOOLEAN /\ given \in Nat
    /\ main \in {"await", "stop", "returned"}

ManagerTyped ==
    /\ requested \subseteq Node /\ channel \in [Node -> {None, NoSteal}]
    /\ taskBuffer \in [Locality -> Seq(Node)]
    /\ answer \in [Worker -> Responses] /\ victim \in [Worker -> Victims]
    /\ last_remote \in [Locality -> Locality]
    /\ \A l \in Locality :
          /\ \A i \in DOMAIN active[l] : i \in Ids /\ active[l][i] \in Node
          /\ \A i \in DOMAIN inactive[l] : i \in Ids /\ inactive[l][i] \in Node

\* Schedulers that run a task, from the moment they have taken it.
Running(w) == pc[w] \notin Thieving

\* A scheduler has a stack while it runs a task, and what it accumulated until
\* the registry has taken it over; only a thief has an answer.
Placed == \A w \in Worker :
    /\ Running(w) <=> stack[w] # <<>>
    /\ pc[w] \in Thieving \cup {"unregister"} => acc[w] = Zero
    /\ pc[w] \notin {"await", "told"} => answer[w] = None
    /\ pc[w] = "told" => answer[w] \in Seq(Node)

Shape == TableInv /\ ProcessInv /\ SearchTyped /\ ManagerTyped /\ Placed

LEMMA ZeroTyped == Zero \in [Node -> Nat]
BY DEF Zero

LEMMA NothingElse ==
    /\ None \notin Seq(Node) /\ NoSteal \notin Seq(Node) /\ None # NoSteal
    /\ <<>> \in Seq(Node) /\ \A r \in Responses : r \notin {None, NoSteal} => r \in Seq(Node)
<1>1. NoSteal \in Seq(Node \cup {NoNode}) /\ NoSteal \notin Seq(Node)
  <2>1. NoNode \notin Node
    BY BoundAssumption
  <2>2. NoSteal \in Seq(Node \cup {NoNode}) /\ Len(NoSteal) = 1 /\ NoSteal[1] = NoNode
    BY DEF NoSteal
  <2>3. ASSUME NoSteal \in Seq(Node) PROVE FALSE
    <3>1. NoSteal[1] \in Node
      BY <2>2, <2>3, ElementOfSeq
    <3> QED
      BY <2>1, <2>2, <3>1
  <2> QED
    BY <2>2, <2>3
<1>2. None \notin Seq(Node \cup {NoNode})
  BY ManagerAssumption
<1>3. None \notin Seq(Node)
  <2>1. Seq(Node) \subseteq Seq(Node \cup {NoNode})
    OBVIOUS
  <2> QED
    BY <1>2, <2>1
<1> QED
  BY <1>1, <1>2, <1>3 DEF Responses

LEMMA RangeOf ==
    ASSUME NEW S, NEW s \in Seq(S)
    PROVE  Range(s) = {s[i] : i \in 1..Len(s)} /\ Range(s) \subseteq S
<1>1. DOMAIN s = 1..Len(s) /\ \A i \in 1..Len(s) : s[i] \in S
  BY ElementOfSeq
<1> QED
  BY <1>1 DEF Range

LEMMA StateTyped ==
    ASSUME Shape
    PROVE  /\ pc \in [Worker -> Places] /\ ret \in [Worker -> Answers]
           /\ child \in [Worker -> Node \cup {NoNode}]
           /\ acc \in [Worker -> [Node -> Nat]] /\ counted \in [Node -> Nat]
           /\ stack \in [Worker -> Seq(Frames)] /\ stolen \subseteq Node
           /\ id \in [Worker -> Ids] /\ home \in [Worker -> Locality]
           /\ \A w \in Worker : pc[w] \in {"process", "answered"} => child[w] \in Node
BY BoundAssumption DEF Shape, SearchTyped, ProcessInv, SharedTyped, TableInv, TablesTyped, InHand

LEMMA FrameTyped ==
    ASSUME Shape, NEW w \in Worker, Running(w)
    PROVE  /\ stack[w] \in Seq(Frames) /\ stack[w] # <<>> /\ Len(stack[w]) \in Nat \ {0}
           /\ Frame(w) = stack[w][Len(stack[w])]
           /\ stack[w][Len(stack[w])] = <<Current(w), Frame(w)[2]>>
           /\ Current(w) \in Node /\ Frame(w)[2] \in Nat \ {0}
           /\ TaskOf(w) \in Node /\ stack[w][1] \in Frames
<1>1. stack[w] \in Seq(Frames) /\ stack[w] # <<>>
  BY DEF Shape, SearchTyped, Placed
<1>2. Len(stack[w]) \in Nat \ {0} /\ Frame(w) \in Frames /\ stack[w][1] \in Frames
  BY <1>1, EmptySeq, ElementOfSeq DEF Frame
<1> QED
  BY <1>1, <1>2 DEF Frame, Current, Frames, TaskOf

\* A scheduler that takes a step leaves the answers of those that do not wait
\* for one alone.
LEMMA ShapeAgain ==
    ASSUME Shape, [Next]_vars, NEW w \in Worker, NEW p \in Places, Goto(w, p),
           pc[w] \notin Acting, p \notin Acting,
           UNCHANGED <<tags, shared_vars, stealAll, given, main>>,
           child' \in [Worker -> Node \cup {NoNode}], ret' \in [Worker -> Answers],
           acc' \in [Worker -> [Node -> Nat]], counted' \in [Node -> Nat],
           stack' \in [Worker -> Seq(Frames)], stolen' \subseteq Node, ManagerTyped',
           \A v \in Worker \ {w} : /\ child'[v] = child[v] /\ stack'[v] = stack[v]
                                   /\ acc'[v] = acc[v]
                                   /\ answer'[v] = answer[v] \/ pc[v] = "await",
           p \in {"process", "answered"} => child'[w] \in Node,
           p \notin Thieving <=> stack'[w] # <<>>,
           p \in Thieving \cup {"unregister"} => acc'[w] = Zero,
           p \notin {"await", "told"} => answer'[w] = None,
           p = "told" => answer'[w] \in Seq(Node)
    PROVE  Shape'
<1>1. /\ pc' \in [Worker -> Places] /\ pc'[w] = p /\ pc' = [v \in Worker |-> pc'[v]]
      /\ \A v \in Worker \ {w} : pc'[v] = pc[v]
  BY StateTyped DEF Goto
<1>2. TableInv'
  BY TablesKept DEF Shape
<1>3. ProcessInv'
  BY <1>1, SkeletonStep DEF Shape
<1>4. SearchTyped'
  BY <1>1 DEF Shape, SearchTyped
<1>5. Placed'
  BY <1>1 DEF Shape, Placed, Running, Zero
<1> QED
  BY <1>2, <1>3, <1>4, <1>5 DEF Shape
-----------------------------------------------------------------------------
\* 3. The protocol of a steal.

Waits(w, s) == pc[w] = "await" /\ victim[w].state = s

\* Thread i of the manager of l has shared state s, and can be stolen from.
Stealable(s, l, i) == i \in DOMAIN active[l] /\ active[l][i] = s
Listed(s, l, i) == \/ Stealable(s, l, i)
                   \/ i \in DOMAIN inactive[l] /\ inactive[l][i] = s

\* Whom the managers or a thief take to be at position i of manager l.
Where(s, l, i) == \/ Listed(s, l, i)
                  \/ \E u \in Worker : Waits(u, s) /\ victim[u].at = l /\ victim[u].pos = i

\* The shared state s has been registered.
Known(s) == \/ s \in requested \/ channel[s] # None
            \/ \E l \in Locality, i \in Ids : Where(s, l, i)

\* A shared state can be stolen from at one place, or one thief waits for it.
ActiveOnce == \A s : \A l, m \in Locality : \A i, j :
                 Stealable(s, l, i) /\ Stealable(s, m, j) => l = m /\ i = j
WaitsOnce == \A v, w \in Worker : \A s : Waits(v, s) /\ Waits(w, s) => v = w
WaitsOrActive == \A w \in Worker : \A s : Waits(w, s) =>
                    \A l \in Locality : \A i : ~ Stealable(s, l, i)

\* The state of a thread that runs is known by the thread's own id only.
Paired == \A w \in Worker : Registered(w) =>
             \A l \in Locality : \A i : Where(TaskOf(w), l, i) => l = home[w] /\ i = id[w]

\* Whoever is asked is waited for, until it has sent its answer; the channel of
\* a thread that runs is empty.
Flagged == \A w \in Worker :
              Registered(w) /\ pc[w] # "lower" /\ TaskOf(w) \in requested =>
                 \E u \in Worker : Waits(u, TaskOf(w)) /\ answer[u] = None
Silent == \A w \in Worker : Registered(w) => channel[TaskOf(w)] = None

\* No node is a task twice at the same time, and none that is about to register
\* has done so before.
Distinct == \A v, w \in Worker : Running(v) /\ Running(w) /\ TaskOf(v) = TaskOf(w) => v = w
Unknown == \A w \in Worker : pc[w] = "register" => ~ Known(TaskOf(w))

Steals == /\ ActiveOnce /\ WaitsOnce /\ WaitsOrActive /\ Paired /\ Flagged /\ Silent
          /\ Distinct /\ Unknown

\* An answer goes to the one thief that waits for it.
LEMMA SendTo ==
    ASSUME Shape, WaitsOnce, NEW s \in Node, NEW r, Send(s, r),
           NEW u \in Worker, Waits(u, s), answer[u] = None
    PROVE  answer' = [answer EXCEPT ![u] = r] /\ UNCHANGED channel
<1>1. \A v \in Worker : pc[v] = "await" /\ victim[v].state = s /\ answer[v] = None <=> v = u
  BY DEF WaitsOnce, Waits
<1>2. answer = [v \in Worker |-> answer[v]]
  BY DEF Shape, ManagerTyped
<1> QED
  BY <1>1, <1>2 DEF Send

\* The end of a steal is sent to a thief that waits, or kept in the channel.
LEMMA SendEnd ==
    ASSUME Shape, NEW s \in Node, Send(s, NoSteal)
    PROVE  /\ answer' \in [Worker -> Responses] /\ channel' \in [Node -> {None, NoSteal}]
           /\ \A v \in Worker : \/ answer'[v] = answer[v]
                                \/ Waits(v, s) /\ answer[v] = None /\ answer'[v] = NoSteal
           /\ \A r \in Node \ {s} : channel'[r] = channel[r]
<1>1. /\ answer \in [Worker -> Responses] /\ channel \in [Node -> {None, NoSteal}]
      /\ NoSteal \in Responses
  BY DEF Shape, ManagerTyped, Responses
<1>2. CASE /\ answer' = [w \in Worker |->
                IF pc[w] = "await" /\ victim[w].state = s /\ answer[w] = None
                THEN NoSteal ELSE answer[w]]
           /\ UNCHANGED channel
  BY <1>1, <1>2 DEF Waits
<1>3. CASE channel' = [channel EXCEPT ![s] = NoSteal] /\ UNCHANGED answer
  BY <1>1, <1>3
<1> QED
  BY <1>2, <1>3 DEF Send

\* The answer of a thread at work finds the thief that has asked for it.
LEMMA ReplySends ==
    ASSUME Shape, Steals, NEW w \in Worker, Reply(w)
    PROVE  \E u \in Worker :
              /\ u # w /\ Waits(u, TaskOf(w)) /\ answer[u] = None /\ UNCHANGED channel
              /\ answer' = [answer EXCEPT ![u] = answer'[u]]
              /\ \/ Rich(w) = {} /\ answer'[u] = <<>> /\ UNCHANGED <<stack, stolen>>
                 \/ /\ Rich(w) # {}
                    /\ LET i == Shallowest(w)
                           n == IF stealAll THEN Len(Rest(stack[w][i])) ELSE 1
                       IN  /\ answer'[u] = SubSeq(Rest(stack[w][i]), 1, n)
                           /\ stack' = [stack EXCEPT ![w][i][2] = @ + n]
                           /\ stolen' = stolen \cup Range(answer'[u])
<1>1. pc[w] = "loop" /\ Registered(w) /\ Running(w) /\ TaskOf(w) \in requested
  BY DEF Reply, Registered, Running, Thieving
<1>2. PICK u \in Worker : Waits(u, TaskOf(w)) /\ answer[u] = None
  BY <1>1 DEF Steals, Flagged
<1>3. u # w /\ TaskOf(w) \in Node /\ answer \in [Worker -> Responses]
  BY <1>1, <1>2, FrameTyped DEF Waits, Shape, ManagerTyped
<1>4. ASSUME NEW r, Send(TaskOf(w), r)
      PROVE  answer' = [answer EXCEPT ![u] = r] /\ answer'[u] = r /\ UNCHANGED channel
             /\ answer' = [answer EXCEPT ![u] = answer'[u]]
  BY <1>2, <1>3, <1>4, SendTo DEF Steals
<1>5. CASE Rich(w) = {}
  BY <1>2, <1>3, <1>4, <1>5 DEF Reply
<1>6. CASE Rich(w) # {}
  <2> DEFINE i == Shallowest(w)
             n == IF stealAll THEN Len(Rest(stack[w][i])) ELSE 1
             handed == SubSeq(Rest(stack[w][i]), 1, n)
  <2>1. /\ Send(TaskOf(w), handed) /\ stack' = [stack EXCEPT ![w][i][2] = @ + n]
        /\ stolen' = stolen \cup Range(handed)
    BY <1>6 DEF Reply
  <2>2. answer' = [answer EXCEPT ![u] = answer'[u]] /\ answer'[u] = handed
        /\ UNCHANGED channel
    <3> HIDE DEF handed
    <3> QED
      BY <1>4, <2>1
  <2> QED
    BY <1>2, <1>3, <1>6, <2>1, <2>2
<1> QED
  BY <1>5, <1>6
-----------------------------------------------------------------------------
\* What the steps do to the stack of the thread that takes them; the bottom
\* frame stays that of its task.
LEMMA RestTyped ==
    ASSUME NEW f \in Frames
    PROVE  /\ Rest(f) \in Seq(Node) /\ f[1] \in Node /\ f[2] \in Nat \ {0}
           /\ numChildren(f[1]) \in Nat
           /\ Len(Rest(f)) = IF f[2] <= numChildren(f[1]) THEN numChildren(f[1]) - f[2] + 1 ELSE 0
           /\ \A j \in 1..Len(Rest(f)) : Rest(f)[j] = Child(f[1], f[2] + j - 1)
<1>1. f[1] \in Node /\ f[2] \in Nat \ {0} /\ numChildren(f[1]) \in Nat
  BY NumChildrenNat DEF Frames
<1>2. PICK k : k = numChildren(f[1]) - f[2] + 1
  OBVIOUS
<1>3. \A j \in 1..k : Child(f[1], f[2] + j - 1) \in Node
  BY <1>1, <1>2, ChildInTree
<1>4. Rest(f) = [j \in 1..k |-> Child(f[1], f[2] + j - 1)]
  BY <1>2 DEF Rest
<1>5. CASE f[2] <= numChildren(f[1])
  <2>1. k \in Nat \ {0}
    BY <1>1, <1>2, <1>5
  <2>2. Rest(f) \in Seq(Node) /\ Len(Rest(f)) = k
    BY <1>3, <1>4, <2>1
  <2> QED
    BY <1>1, <1>2, <1>4, <1>5, <2>2
<1>6. CASE f[2] > numChildren(f[1])
  <2>1. 1..k = {} /\ 1..0 = {}
    BY <1>1, <1>2, <1>6
  <2>2. Rest(f) \in [1..0 -> Node]
    BY <1>4, <2>1
  <2>3. Rest(f) \in Seq(Node) /\ Len(Rest(f)) = 0
    BY <2>2
  <2> QED
    BY <1>1, <1>6, <2>3
<1> QED
  BY <1>1, <1>5, <1>6

LEMMA PopStack ==
    ASSUME Shape, NEW w \in Worker, Running(w), Pop(w)
    PROVE  /\ stack' \in [Worker -> Seq(Frames)] /\ stack'[w] # <<>>
           /\ \A v \in Worker \ {w} : stack'[v] = stack[v]
           /\ TaskOf(w)' = TaskOf(w)
           /\ \/ Len(stack[w]) = 1 /\ Goto(w, "count") /\ stack'[w] = stack[w]
              \/ /\ Len(stack[w]) > 1 /\ Goto(w, "loop")
                 /\ stack'[w] = SubSeq(stack[w], 1, Len(stack[w]) - 1)
<1>1. /\ stack[w] \in Seq(Frames) /\ stack[w] # <<>> /\ Len(stack[w]) \in Nat \ {0}
      /\ stack \in [Worker -> Seq(Frames)]
  BY FrameTyped, StateTyped
<1>2. CASE Len(stack[w]) = 1
  BY <1>1, <1>2 DEF Pop, TaskOf
<1>3. CASE Len(stack[w]) > 1
  <2> DEFINE s == stack[w]
             t == SubSeq(s, 1, Len(s) - 1)
  <2>1. /\ t \in Seq(Frames) /\ Len(t) = Len(s) - 1
        /\ \A i \in 1..Len(t) : t[i] = s[i]
    <3>1. s \in Seq(Frames) /\ s # <<>>
      BY <1>1
    <3> HIDE DEF s
    <3> QED
      BY <3>1, PopFrame
  <2>0. Len(stack[w]) # 1
    BY <1>1, <1>3
  <2>2. Goto(w, "loop") /\ stack' = [stack EXCEPT ![w] = t]
    BY <2>0, Zenon DEF Pop
  <2>3. Len(<<>>) = 0 /\ s[1] = stack[w][1]
    OBVIOUS
  <2>4. Len(s) \in Nat /\ Len(s) > 1
    BY <1>1, <1>3
  <2>5. stack'[w] = t /\ \A v \in Worker \ {w} : stack'[v] = stack[v]
    BY <1>1, <2>2
  <2>10. stack'[w] = SubSeq(stack[w], 1, Len(stack[w]) - 1)
    BY <2>5
  <2> HIDE DEF t
  <2>6. Len(t) > 0 /\ 1 \in 1..Len(t)
    BY <2>1, <2>4
  <2>7. t # <<>> /\ t[1] = stack[w][1]
    BY <2>1, <2>3, <2>6
  <2>8. stack' \in [Worker -> Seq(Frames)]
    BY <1>1, <2>1, <2>2
  <2>9. TaskOf(w)' = TaskOf(w) /\ stack'[w] # <<>>
    BY <2>5, <2>7 DEF TaskOf
  <2> QED
    BY <1>3, <2>2, <2>5, <2>10, <2>8, <2>9
<1>4. Len(stack[w]) = 1 \/ Len(stack[w]) > 1
  <2>1. \A d \in Nat \ {0} : d = 1 \/ d > 1
    OBVIOUS
  <2> QED
    BY <1>1, <2>1, Zenon
<1> QED
  BY <1>2, <1>3, <1>4, Zenon

LEMMA NextChildStack ==
    ASSUME Shape, NEW w \in Worker, NextChild(w)
    PROVE  /\ stack' \in [Worker -> Seq(Frames)]
           /\ stack'[w] # <<>> /\ Len(stack'[w]) = Len(stack[w])
           /\ stack'[w][Len(stack[w])] = <<Current(w), Frame(w)[2] + 1>>
           /\ \A i \in 1..Len(stack[w]) - 1 : stack'[w][i] = stack[w][i]
           /\ \A v \in Worker \ {w} : stack'[v] = stack[v] /\ child'[v] = child[v]
           /\ Frame(w)[2] \in 1..numChildren(Current(w))
           /\ child'[w] = Child(Current(w), Frame(w)[2]) /\ child'[w] \in Node
           /\ child' \in [Worker -> Node \cup {NoNode}]
           /\ TaskOf(w)' = TaskOf(w) /\ Running(w)
<1> DEFINE s == stack[w]
           top == <<Current(w), Frame(w)[2] + 1>>
<1>0. Running(w)
  BY DEF NextChild, Moving, Running, Thieving
<1>1. /\ s \in Seq(Frames) /\ Len(s) \in Nat \ {0}
      /\ s[Len(s)] = <<Current(w), Frame(w)[2]>> /\ Frame(w) = s[Len(s)]
      /\ Current(w) \in Node /\ Frame(w)[2] \in Nat \ {0}
  BY <1>0, FrameTyped
<1>2. stack \in [Worker -> Seq(Frames)] /\ child \in [Worker -> Node \cup {NoNode}]
  BY StateTyped
<1>3. stack'[w] = [s EXCEPT ![Len(s)] = top]
  <2>1. stack' = [stack EXCEPT ![w] = [s EXCEPT ![Len(s)] =
                                          [s[Len(s)] EXCEPT ![2] = Frame(w)[2] + 1]]]
    BY <1>1, <1>2 DEF NextChild
  <2>2. [s[Len(s)] EXCEPT ![2] = Frame(w)[2] + 1] = top
    BY <1>1
  <2> QED
    BY <1>2, <2>1, <2>2
<1>4. top \in Frames
  BY <1>1 DEF Frames
<1>5. /\ stack'[w] \in Seq(Frames) /\ Len(stack'[w]) = Len(s) /\ stack'[w][Len(s)] = top
      /\ \A i \in 1..Len(s) - 1 : stack'[w][i] = s[i]
  BY <1>1, <1>3, <1>4, ExceptSeq
<1>6. /\ \A v \in Worker \ {w} : stack'[v] = stack[v]
      /\ stack' \in [Worker -> Seq(Frames)] /\ stack'[w] # <<>>
  <2>1. stack' = [stack EXCEPT ![w] = stack'[w]]
    BY <1>2 DEF NextChild
  <2>2. stack'[w] # <<>>
    BY <1>1, <1>5, EmptySeq
  <2> QED
    BY <1>2, <1>5, <2>1, <2>2
<1>7. Frame(w)[2] \in 1..numChildren(Current(w))
  BY <1>1, NumChildrenNat DEF NextChild
<1>8. Child(Current(w), Frame(w)[2]) \in Node
  BY <1>1, <1>7, ChildInTree
<1>9. /\ child'[w] = Child(Current(w), Frame(w)[2])
      /\ \A v \in Worker \ {w} : child'[v] = child[v]
      /\ child' \in [Worker -> Node \cup {NoNode}]
  BY <1>2, <1>8 DEF NextChild
<1>10. stack'[w][1][1] = stack[w][1][1]
  <2>1. CASE Len(s) = 1
    BY <1>1, <1>5, <2>1
  <2>2. CASE Len(s) # 1
    BY <1>1, <1>5, <2>2
  <2> QED
    BY <2>1, <2>2
<1> QED
  BY <1>0, <1>5, <1>6, <1>7, <1>8, <1>9, <1>10 DEF TaskOf

LEMMA ContinueStack ==
    ASSUME Shape, NEW w \in Worker, Continue(w)
    PROVE  /\ stack' \in [Worker -> Seq(Frames)] /\ stack'[w] # <<>>
           /\ \A v \in Worker \ {w} : stack'[v] = stack[v]
           /\ IF DepthLimited /\ Len(child[w]) + 1 = maxDepth THEN stack'[w] = stack[w]
              ELSE stack'[w] = Append(stack[w], <<child[w], 1>>)
           /\ TaskOf(w)' = TaskOf(w) /\ Running(w) /\ child[w] \in Node
<1>1. Running(w) /\ child[w] \in Node /\ stack \in [Worker -> Seq(Frames)]
  BY StateTyped DEF Continue, Running, Thieving
<1> DEFINE s == stack[w]
           t == Append(s, <<child[w], 1>>)
<1>2. s \in Seq(Frames) /\ s # <<>> /\ Len(s) \in Nat \ {0}
  BY <1>1, FrameTyped
<1>3. t \in Seq(Frames) /\ t # <<>> /\ t[1] = s[1]
  <2>1. <<child[w], 1>> \in Frames
    BY <1>1 DEF Frames
  <2> QED
    BY <1>2, <2>1, AppendProperties
<1>4. CASE DepthLimited /\ Len(child[w]) + 1 = maxDepth
  BY <1>1, <1>2, <1>4 DEF Continue, TaskOf
<1>5. CASE ~ (DepthLimited /\ Len(child[w]) + 1 = maxDepth)
  <2>1. stack' = [stack EXCEPT ![w] = t]
    BY <1>5 DEF Continue
  <2> HIDE DEF t
  <2>2. /\ stack' \in [Worker -> Seq(Frames)] /\ stack'[w] = t /\ t # <<>>
        /\ \A v \in Worker \ {w} : stack'[v] = stack[v]
    BY <1>1, <1>3, <2>1
  <2>3. TaskOf(w)' = TaskOf(w)
    BY <1>3, <2>2 DEF TaskOf
  <2> QED
    BY <1>1, <1>5, <2>2, <2>3 DEF t
<1> QED
  BY <1>4, <1>5

\* The answer of a thread takes children off a frame below its current one.
Handing(w, i, k) == stack' = [stack EXCEPT ![w][i][2] = @ + k]

\* A frame after k of its children have been given away.
Advanced(f, k) == <<f[1], f[2] + k>>
Handed(s, t, i, k) == /\ Len(t) = Len(s) /\ t[i] = Advanced(s[i], k)
                      /\ \A j \in 1..Len(s) : j # i => t[j] = s[j]

\* The shallowest rich frame, and how many of its children are given away.
LEMMA GivesSome ==
    ASSUME Shape, NEW w \in Worker, Running(w), Rich(w) # {}
    PROVE  \E i \in Nat, k \in Nat :
              /\ i = Shallowest(w) /\ k = IF stealAll THEN Len(Rest(stack[w][i])) ELSE 1
              /\ i \in Rich(w) /\ i \in 1..Len(stack[w]) - 1
              /\ k \in 1..Len(Rest(stack[w][i])) /\ stack[w][i] \in Frames
<1>1. stack[w] \in Seq(Frames) /\ Len(stack[w]) \in Nat \ {0}
  BY FrameTyped
<1>2. Shallowest(w) \in Rich(w)
  <2>1. Rich(w) \subseteq Nat
    BY <1>1 DEF Rich
  <2>2. \E x \in Rich(w) : \A y \in Rich(w) : x <= y
    BY <2>1, LeastOf
  <2> QED
    BY <2>2 DEF Shallowest
<1>3. PICK i \in 1..Len(stack[w]) - 1 : i = Shallowest(w)
  BY <1>2 DEF Rich
<1>4. i \in Rich(w) /\ i \in 1..Len(stack[w]) /\ i \in Nat /\ Rest(stack[w][i]) # <<>>
  BY <1>1, <1>2, <1>3 DEF Rich
<1>5. stack[w][i] \in Frames
  BY <1>1, <1>4, ElementOfSeq
<1>6. Len(Rest(stack[w][i])) \in Nat \ {0}
  BY <1>4, <1>5, RestTyped, EmptySeq
<1>7. PICK k \in Nat : k = IF stealAll THEN Len(Rest(stack[w][i])) ELSE 1
  BY <1>6
<1>8. k \in 1..Len(Rest(stack[w][i]))
  BY <1>6, <1>7
<1> QED
  BY <1>3, <1>4, <1>5, <1>7, <1>8

LEMMA ReplyStack ==
    ASSUME Shape, NEW w \in Worker, Running(w),
           NEW i \in 1..Len(stack[w]) - 1, NEW n \in 1..Len(Rest(stack[w][i])),
           Handing(w, i, n)
    PROVE  /\ stack' \in [Worker -> Seq(Frames)]
           /\ stack'[w] # <<>> /\ Len(stack'[w]) = Len(stack[w])
           /\ stack'[w][i] = Advanced(stack[w][i], n)
           /\ \A j \in 1..Len(stack[w]) : j # i => stack'[w][j] = stack[w][j]
           /\ \A v \in Worker \ {w} : stack'[v] = stack[v]
           /\ SubSeq(Rest(stack[w][i]), 1, n) \in Seq(Node)
           /\ Len(SubSeq(Rest(stack[w][i]), 1, n)) = n
           /\ \A j \in 1..n : SubSeq(Rest(stack[w][i]), 1, n)[j] = Rest(stack[w][i])[j]
           /\ TaskOf(w)' = TaskOf(w)
<1> DEFINE s == stack[w]
<1>1. s \in Seq(Frames) /\ Len(s) \in Nat \ {0} /\ stack \in [Worker -> Seq(Frames)]
  BY FrameTyped, StateTyped
<1>3. i \in 1..Len(s) - 1 /\ i \in 1..Len(s)
  BY <1>1
<1>4. s[i] \in Frames
  BY <1>1, <1>3, ElementOfSeq
<1>5. Rest(s[i]) \in Seq(Node) /\ Len(Rest(s[i])) \in Nat \ {0} /\ s[i][2] \in Nat \ {0}
      /\ s[i][1] \in Node /\ s[i] = <<s[i][1], s[i][2]>>
  <2>1. Rest(s[i]) \in Seq(Node) /\ s[i][2] \in Nat \ {0} /\ s[i][1] \in Node
    BY <1>4, RestTyped
  <2>2. Len(Rest(s[i])) \in Nat \ {0}
    BY <2>1
  <2> QED
    BY <1>4, <2>1, <2>2 DEF Frames
<1>6. n \in 1..Len(Rest(s[i])) /\ n \in Nat
  BY <1>5
<1> DEFINE f == <<s[i][1], s[i][2] + n>>
<1>7. f \in Frames
  BY <1>5, <1>6 DEF Frames
<1>8. stack' = [stack EXCEPT ![w] = [s EXCEPT ![i] = f]]
  <2>1. [s[i] EXCEPT ![2] = s[i][2] + n] = f
    BY <1>5
  <2>2. stack' = [stack EXCEPT ![w] = [s EXCEPT ![i] = [s[i] EXCEPT ![2] = s[i][2] + n]]]
    BY <1>1, <1>3 DEF Handing
  <2> QED
    BY <2>1, <2>2
<1> HIDE DEF f
<1>9. /\ stack'[w] = [s EXCEPT ![i] = f] /\ \A v \in Worker \ {w} : stack'[v] = stack[v]
  BY <1>1, <1>8
<1>10. /\ stack'[w] \in Seq(Frames) /\ Len(stack'[w]) = Len(s) /\ stack'[w][i] = f
       /\ \A j \in 1..Len(s) : j # i => stack'[w][j] = s[j]
  <2>1. PICK r : r = [s EXCEPT ![i] = f]
    OBVIOUS
  <2>2. /\ r \in Seq(Frames) /\ Len(r) = Len(s) /\ r[i] = f
        /\ \A j \in 1..Len(s) : j # i => r[j] = s[j]
    BY <1>1, <1>3, <1>7, <2>1, ExceptSeq
  <2> QED
    BY <1>9, <2>1, <2>2
<1>11. stack' \in [Worker -> Seq(Frames)] /\ stack'[w] # <<>>
  BY <1>1, <1>8, <1>9, <1>10, EmptySeq
<1>12. stack'[w][1][1] = s[1][1]
  <2>1. CASE i = 1
    BY <1>10, <2>1 DEF f
  <2>2. CASE i # 1
    BY <1>1, <1>10, <2>2
  <2> QED
    BY <2>1, <2>2
<1>13. /\ SubSeq(Rest(s[i]), 1, n) \in Seq(Node) /\ Len(SubSeq(Rest(s[i]), 1, n)) = n
       /\ \A j \in 1..n : SubSeq(Rest(s[i]), 1, n)[j] = Rest(s[i])[j]
  <2>1. PICK r : r = Rest(s[i])
    OBVIOUS
  <2>2. r \in Seq(Node) /\ n \in 1..Len(r) /\ Len(r) \in Nat
    BY <1>5, <1>6, <2>1
  <2>3. /\ SubSeq(r, 1, n) \in Seq(Node) /\ Len(SubSeq(r, 1, n)) = n
        /\ \A j \in 1..n : SubSeq(r, 1, n)[j] = r[j]
    <3>1. \A j \in 1..n : r[j] \in Node
      BY <2>2, ElementOfSeq
    <3> QED
      BY <2>2, <3>1, SubSeqProperties
  <2> QED
    BY <2>1, <2>3
<1> QED
  BY <1>3, <1>6, <1>9, <1>10, <1>11, <1>12, <1>13 DEF TaskOf, f, Advanced
-----------------------------------------------------------------------------
\* What the handlers of a manager do to its tables.
EntriesTyped == \A l \in Locality :
    /\ \A i \in DOMAIN active[l] : i \in Ids /\ active[l][i] \in Node
    /\ \A i \in DOMAIN inactive[l] : i \in Ids /\ inactive[l][i] \in Node

LEMMA TablesAre ==
    ASSUME Shape
    PROVE  /\ EntriesTyped /\ TableInv
           /\ active = [l \in Locality |-> active[l]] /\ inactive = [l \in Locality |-> inactive[l]]
           /\ activeIds \in [Locality -> Seq(Ids)] /\ id \in [Worker -> Ids]
           /\ home \in [Worker -> Locality]
BY Several DEF Shape, TableInv, TablesTyped, ManagerTyped, EntriesTyped

LEMMA RegisterTables ==
    ASSUME Shape, NEW w \in Worker, Register(w)
    PROVE  /\ EntriesTyped' /\ home[w] \in Locality
           /\ \A s : \A l \in Locality : \A i :
                 LET new == s = TaskOf(w) /\ l = home[w] /\ i = id'[w]
                 IN  /\ Stealable(s, l, i)' => Stealable(s, l, i) \/ new
                     /\ Listed(s, l, i)' => Listed(s, l, i) \/ new
           /\ \A s, i : s = TaskOf(w) /\ i = id'[w] => Stealable(s, home[w], i)'
<1>1. /\ pc[w] = "register" /\ TaskOf(w) \in Node
  BY FrameTyped DEF Register, Running, Thieving
<1>2. PICK i : i = Head(activeIds[home[w]])
  OBVIOUS
<1>3. i \in Ids
  <2>1. activeIds[home[w]] \in Seq(Ids) /\ activeIds[home[w]] # <<>>
    BY <1>1, IdLeft, TablesAre DEF Registered
  <2> QED
    BY <1>2, <2>1
<1>4. /\ active' = [active EXCEPT ![home[w]] = With(active[home[w]], i, TaskOf(w))]
      /\ id' = [id EXCEPT ![w] = i] /\ UNCHANGED inactive
  BY <1>2 DEF Register, registerThread
<1>5. /\ home[w] \in Locality /\ id'[w] = i /\ UNCHANGED inactive
      /\ \A l \in Locality \ {home[w]} : active'[l] = active[l]
      /\ active'[home[w]] = With(active[home[w]], i, TaskOf(w))
  BY <1>4, TablesAre
<1>6. /\ DOMAIN active'[home[w]] = DOMAIN active[home[w]] \cup {i}
      /\ \A j \in DOMAIN active'[home[w]] :
            active'[home[w]][j] = IF j = i THEN TaskOf(w) ELSE active[home[w]][j]
  BY <1>5 DEF With
<1>7. EntriesTyped'
  BY <1>1, <1>3, <1>5, <1>6, TablesAre DEF EntriesTyped
<1>8. /\ \A s : \A l \in Locality : \A j :
            Stealable(s, l, j)' => \/ Stealable(s, l, j)
                                   \/ s = TaskOf(w) /\ l = home[w] /\ j = id'[w]
      /\ \A s, j : s = TaskOf(w) /\ j = id'[w] => Stealable(s, home[w], j)'
  <2>1. PICK t : t = TaskOf(w)
    OBVIOUS
  <2>2. ASSUME NEW s, NEW l \in Locality, NEW j, Stealable(s, l, j)'
        PROVE  Stealable(s, l, j) \/ (s = t /\ l = home[w] /\ j = id'[w])
    <3>1. CASE l = home[w]
      BY <1>5, <1>6, <2>1, <2>2, <3>1 DEF Stealable
    <3>2. CASE l # home[w]
      BY <1>5, <2>2, <3>2 DEF Stealable
    <3> QED
      BY <3>1, <3>2
  <2>3. Stealable(t, home[w], i)'
    BY <1>5, <1>6, <2>1 DEF Stealable
  <2> QED
    BY <1>5, <2>1, <2>2, <2>3
<1> QED
  BY <1>5, <1>7, <1>8 DEF Listed

LEMMA UnregisterTables ==
    ASSUME Shape, NEW w \in Worker, Unregister(w)
    PROVE  /\ EntriesTyped'
           /\ \A s : \A l \in Locality : \A i :
                 /\ Stealable(s, l, i)' => Stealable(s, l, i)
                 /\ Listed(s, l, i)' => Listed(s, l, i)
           /\ \/ UNCHANGED <<channel, answer>>
              \/ \E s \in Node : Send(s, NoSteal) /\ Listed(s, home[w], id[w])
<1>1. PICK i : i = id[w]
  OBVIOUS
<1>2. home[w] \in Locality
  BY TablesAre
<1>3. CASE /\ i \in DOMAIN active[home[w]]
           /\ active' = [active EXCEPT ![home[w]] = Without(active[home[w]], i)]
           /\ UNCHANGED <<inactive, channel, answer>>
  <2>1. /\ \A l \in Locality \ {home[w]} : active'[l] = active[l]
        /\ active'[home[w]] = Without(active[home[w]], i)
    BY <1>2, <1>3, TablesAre
  <2>2. /\ \A l \in Locality : \A j \in DOMAIN active'[l] :
              j \in DOMAIN active[l] /\ active'[l][j] = active[l][j]
        /\ UNCHANGED inactive
    BY <1>3, <2>1 DEF Without
  <2>3. EntriesTyped'
    BY <2>2, TablesAre DEF EntriesTyped
  <2> QED
    BY <1>3, <2>2, <2>3 DEF Stealable, Listed
<1>4. CASE /\ i \in DOMAIN inactive[home[w]] \ DOMAIN active[home[w]]
           /\ Send(inactive[home[w]][i], NoSteal)
           /\ inactive' = [inactive EXCEPT ![home[w]] = Without(inactive[home[w]], i)]
           /\ UNCHANGED active
  <2>1. /\ \A l \in Locality \ {home[w]} : inactive'[l] = inactive[l]
        /\ inactive'[home[w]] = Without(inactive[home[w]], i)
    BY <1>2, <1>4, TablesAre
  <2>2. /\ \A l \in Locality : \A j \in DOMAIN inactive'[l] :
              j \in DOMAIN inactive[l] /\ inactive'[l][j] = inactive[l][j]
        /\ UNCHANGED active
    BY <1>4, <2>1 DEF Without
  <2>3. EntriesTyped'
    BY <2>2, TablesAre DEF EntriesTyped
  <2>4. \E s \in Node : Send(s, NoSteal) /\ Listed(s, home[w], id[w])
    <3>1. PICK s : s = inactive[home[w]][i]
      OBVIOUS
    <3>2. s \in Node /\ Listed(s, home[w], i)
      BY <1>2, <1>4, <3>1, TablesAre DEF Listed, EntriesTyped
    <3> QED
      BY <1>1, <1>4, <3>1, <3>2
  <2>5. \A s : \A l \in Locality : \A j :
           /\ Stealable(s, l, j)' => Stealable(s, l, j)
           /\ Listed(s, l, j)' => Listed(s, l, j)
    BY <2>2 DEF Stealable, Listed
  <2> QED
    BY <2>3, <2>4, <2>5
<1> QED
  BY <1>1, <1>3, <1>4 DEF Unregister, unregisterThread

LEMMA RequestTables ==
    ASSUME Shape, NEW w \in Worker, NEW l \in Locality, Request(w, l)
    PROVE  \E i \in Ids, s \in Node :
              /\ Stealable(s, l, i) /\ EntriesTyped'
              /\ \A r : \A m \in Locality : \A j :
                    /\ Stealable(r, m, j)' <=> Stealable(r, m, j) /\ ~ (m = l /\ j = i)
                    /\ Listed(r, m, j)' => Listed(r, m, j)
              /\ requested' = requested \cup {s}
              /\ victim' = [victim EXCEPT ![w] = [at |-> l, pos |-> i, state |-> s]]
              /\ answer' = [answer EXCEPT ![w] = channel[s]]
              /\ channel' = [channel EXCEPT ![s] = None]
              /\ Goto(w, "await") /\ UNCHANGED <<activeIds, id>>
<1>1. PICK i \in DOMAIN active[l] :
         /\ active' = [active EXCEPT ![l] = Without(active[l], i)]
         /\ inactive' = [inactive EXCEPT ![l] = With(inactive[l], i, active[l][i])]
         /\ requested' = requested \cup {active[l][i]}
         /\ victim' = [victim EXCEPT ![w] = [at |-> l, pos |-> i, state |-> active[l][i]]]
         /\ answer' = [answer EXCEPT ![w] = channel[active[l][i]]]
         /\ channel' = [channel EXCEPT ![active[l][i]] = None]
         /\ Goto(w, "await") /\ UNCHANGED <<activeIds, id>>
  BY DEF Request
<1>2. PICK s : s = active[l][i]
  OBVIOUS
<1>3. i \in Ids /\ s \in Node /\ Stealable(s, l, i)
  BY <1>2, TablesAre DEF EntriesTyped, Stealable
<1>4. /\ \A m \in Locality \ {l} : active'[m] = active[m] /\ inactive'[m] = inactive[m]
      /\ active'[l] = Without(active[l], i) /\ inactive'[l] = With(inactive[l], i, s)
  BY <1>1, <1>2, TablesAre
<1>5. /\ DOMAIN active'[l] = DOMAIN active[l] \ {i}
      /\ \A j \in DOMAIN active'[l] : active'[l][j] = active[l][j]
      /\ DOMAIN inactive'[l] = DOMAIN inactive[l] \cup {i}
      /\ \A j \in DOMAIN inactive'[l] :
            inactive'[l][j] = IF j = i THEN s ELSE inactive[l][j]
  BY <1>4 DEF With, Without
<1>6. EntriesTyped'
  BY <1>3, <1>4, <1>5, TablesAre DEF EntriesTyped
<1>7. \A r : \A m \in Locality : \A j :
         Stealable(r, m, j)' <=> Stealable(r, m, j) /\ ~ (m = l /\ j = i)
  <2> SUFFICES ASSUME NEW r, NEW m \in Locality, NEW j
               PROVE  Stealable(r, m, j)' <=> Stealable(r, m, j) /\ ~ (m = l /\ j = i)
    OBVIOUS
  <2>1. CASE m = l
    BY <1>4, <1>5, <2>1 DEF Stealable
  <2>2. CASE m # l
    BY <1>4, <2>2 DEF Stealable
  <2> QED
    BY <2>1, <2>2
<1>8. \A r : \A m \in Locality : \A j : Listed(r, m, j)' => Listed(r, m, j)
  <2> SUFFICES ASSUME NEW r, NEW m \in Locality, NEW j, Listed(r, m, j)'
               PROVE  Listed(r, m, j)
    OBVIOUS
  <2>1. CASE Stealable(r, m, j)'
    <3>1. Stealable(r, m, j)
      BY <1>7, <2>1
    <3> QED
      BY <3>1 DEF Listed
  <2>2. CASE j \in DOMAIN inactive'[m] /\ inactive'[m][j] = r
    <3>1. CASE m = l /\ j = i
      <4>1. r = s
        BY <1>5, <2>2, <3>1
      <4> QED
        BY <1>3, <3>1, <4>1 DEF Stealable, Listed
    <3>2. CASE ~ (m = l /\ j = i)
      <4>1. j \in DOMAIN inactive[m] /\ inactive[m][j] = r
        BY <1>4, <1>5, <2>2, <3>2
      <4> QED
        BY <4>1 DEF Listed
    <3> QED
      BY <3>1, <3>2
  <2> QED
    BY <2>1, <2>2 DEF Listed
<1> QED
  BY <1>1, <1>2, <1>3, <1>6, <1>7, <1>8

LEMMA ReinsertTables ==
    ASSUME Shape, NEW w \in Worker, Reinsert(w)
    PROVE  /\ EntriesTyped'
           /\ \A s : \A l \in Locality : \A i :
                 LET back == s = victim[w].state /\ l = victim[w].at /\ i = victim[w].pos
                 IN  /\ Stealable(s, l, i)' => Stealable(s, l, i) \/ back
                     /\ Listed(s, l, i)' => Listed(s, l, i) \/ back
<1>1. PICK l, i, s : l = victim[w].at /\ i = victim[w].pos /\ s = victim[w].state
  OBVIOUS
<1>2. l \in Locality /\ i \in Ids /\ s \in Node
  BY <1>1 DEF Shape, ManagerTyped, Victims
<1>3. CASE UNCHANGED <<active, inactive>>
  <2>1. EntriesTyped'
    BY <1>3, TablesAre DEF EntriesTyped
  <2> QED
    BY <1>3, <2>1 DEF Stealable, Listed
<1>4. CASE /\ active' = [active EXCEPT ![l] = With(active[l], i, s)]
           /\ inactive' = [inactive EXCEPT ![l] = Without(inactive[l], i)]
  <2>1. /\ \A m \in Locality \ {l} : active'[m] = active[m] /\ inactive'[m] = inactive[m]
        /\ active'[l] = With(active[l], i, s) /\ inactive'[l] = Without(inactive[l], i)
    BY <1>2, <1>4, TablesAre
  <2>2. /\ DOMAIN inactive'[l] = DOMAIN inactive[l] \ {i}
        /\ \A j \in DOMAIN inactive'[l] : inactive'[l][j] = inactive[l][j]
        /\ DOMAIN active'[l] = DOMAIN active[l] \cup {i}
        /\ \A j \in DOMAIN active'[l] :
              active'[l][j] = IF j = i THEN s ELSE active[l][j]
    BY <2>1 DEF With, Without
  <2>3. EntriesTyped'
    BY <1>2, <2>1, <2>2, TablesAre DEF EntriesTyped
  <2>4. \A r : \A m \in Locality : \A j :
           Stealable(r, m, j)' => Stealable(r, m, j) \/ (r = s /\ m = l /\ j = i)
    <3> SUFFICES ASSUME NEW r, NEW m \in Locality, NEW j, Stealable(r, m, j)'
                 PROVE  Stealable(r, m, j) \/ (r = s /\ m = l /\ j = i)
      OBVIOUS
    <3>1. CASE m = l
      BY <2>1, <2>2, <3>1 DEF Stealable
    <3>2. CASE m # l
      BY <2>1, <3>2 DEF Stealable
    <3> QED
      BY <3>1, <3>2
  <2>5. \A r : \A m \in Locality : \A j :
           Listed(r, m, j)' => Listed(r, m, j) \/ (r = s /\ m = l /\ j = i)
    <3> SUFFICES ASSUME NEW r, NEW m \in Locality, NEW j, Listed(r, m, j)'
                 PROVE  Listed(r, m, j) \/ (r = s /\ m = l /\ j = i)
      OBVIOUS
    <3>1. CASE Stealable(r, m, j)'
      BY <2>4, <3>1 DEF Stealable, Listed
    <3>2. CASE j \in DOMAIN inactive'[m] /\ inactive'[m][j] = r
      <4>1. j \in DOMAIN inactive[m] /\ inactive[m][j] = r
        BY <2>1, <2>2, <3>2
      <4> QED
        BY <4>1 DEF Listed
    <3> QED
      BY <3>1, <3>2 DEF Listed
  <2> QED
    BY <1>1, <2>3, <2>4, <2>5
<1> QED
  BY <1>1, <1>3, <1>4 DEF Reinsert
-----------------------------------------------------------------------------
\* Every step keeps the types.
LEMMA ManagerSame ==
    ASSUME Shape, UNCHANGED manager_vars
    PROVE  ManagerTyped' /\ UNCHANGED answer
BY DEF Shape, ManagerTyped, manager_vars, table_vars, remote_vars, thief_vars

LEMMA ManagerAgain ==
    ASSUME Shape, EntriesTyped', requested' \subseteq Node,
           channel' \in [Node -> {None, NoSteal}], taskBuffer' \in [Locality -> Seq(Node)],
           answer' \in [Worker -> Responses], victim' \in [Worker -> Victims],
           last_remote' \in [Locality -> Locality]
    PROVE  ManagerTyped'
BY DEF ManagerTyped, EntriesTyped

LEMMA ManagerParts ==
    ASSUME Shape
    PROVE  /\ EntriesTyped /\ requested \subseteq Node
           /\ channel \in [Node -> {None, NoSteal}] /\ taskBuffer \in [Locality -> Seq(Node)]
           /\ answer \in [Worker -> Responses] /\ victim \in [Worker -> Victims]
           /\ last_remote \in [Locality -> Locality]
BY DEF Shape, ManagerTyped, EntriesTyped

LEMMA EntriesSame == Shape /\ UNCHANGED <<active, inactive>> => EntriesTyped'
BY ManagerParts DEF EntriesTyped

LEMMA ProcessChildShape ==
    ASSUME Shape, [Next]_vars, NEW w \in Worker, ProcessChild(w)
    PROVE  Shape'
<1>1. /\ ProcessInv /\ ret \in [Worker -> Answers] /\ Process(w)
      /\ UNCHANGED <<manager_vars, stack, stolen, search_vars>>
  BY StateTyped DEF Shape, ProcessChild
<1>2. ProcessInv' /\ TableInv'
  BY <1>1, ProcessStep, TablesKept DEF Shape
<1>3. PICK p \in Acting \cup {"answered"} : Goto(w, p)
  BY <1>1, ProcessPlace
<1>4. /\ pc[w] \in Acting \cup {"process"} /\ ret' \in [Worker -> Answers]
      /\ UNCHANGED <<tags, child>>
  BY <1>1, ProcessPlace
<1>5. /\ pc' \in [Worker -> Places] /\ pc'[w] = p
      /\ \A v \in Worker \ {w} : pc'[v] = pc[v]
  BY <1>3, StateTyped DEF Goto, Places, ProcessPlaces, Acting
<1>6. acc' \in [Worker -> [Node -> Nat]] /\ \A v \in Worker \ {w} : acc'[v] = acc[v]
  <2>1. CASE Kind = "Enumeration"
    <3>1. ProcessCounted(w) /\ child[w] \in Node
      BY <1>1, <2>1, CountingStep DEF ProcessInv, InHand, ProcessCounted
    <3>2. acc' = [acc EXCEPT ![w][child[w]] = acc[w][child[w]] + 1]
      BY <3>1 DEF ProcessCounted
    <3> QED
      BY <3>1, <3>2, StateTyped
  <2>2. CASE Kind # "Enumeration"
    BY <1>1, <2>2, CountingStep, StateTyped
  <2> QED
    BY <2>1, <2>2
<1>7. SearchTyped'
  BY <1>1, <1>4, <1>5, <1>6 DEF Shape, SearchTyped, search_vars
<1>8. ManagerTyped' /\ UNCHANGED answer
  BY <1>1, ManagerSame
<1>9. Placed'
  BY <1>1, <1>4, <1>5, <1>6, <1>8
  DEF Shape, Placed, Running, Thieving, Acting, Zero
<1> QED
  BY <1>2, <1>7, <1>8, <1>9 DEF Shape

LEMMA WalkShape ==
    ASSUME Shape, [Next]_vars, NEW w \in Worker,
           \/ Stop(w) \/ NextChild(w) \/ Backtrack(w) \/ Continue(w) \/ Prune(w)
           \/ Break(w) \/ Exit(w) \/ UpdateEnumerator(w) \/ LowerFlag(w)
    PROVE  Shape'
<1>0. /\ acc \in [Worker -> [Node -> Nat]] /\ stack \in [Worker -> Seq(Frames)]
      /\ child \in [Worker -> Node \cup {NoNode}] /\ ret \in [Worker -> Answers]
      /\ counted \in [Node -> Nat] /\ stolen \subseteq Node
      /\ child[w] \in Node \/ pc[w] # "answered"
  BY StateTyped
<1>1. /\ Running(w) /\ pc[w] \notin Acting /\ pc[w] # "register"
      /\ stack[w] # <<>> /\ answer[w] = None
  BY DEF Stop, NextChild, Backtrack, Continue, Prune, Break, Exit, UpdateEnumerator,
     LowerFlag, Moving, Running, Thieving, Acting, Shape, Placed
<1>2. CASE Stop(w) \/ Prune(w) \/ Exit(w)
  <2>1. \E p \in {"count", "loop"} : Goto(w, p)
    BY <1>2 DEF Stop, Prune, Exit
  <2>2. UNCHANGED <<tags, child, ret, acc, shared_vars, manager_vars, stack, stolen, search_vars>>
    BY <1>2 DEF Stop, Prune, Exit
  <2> QED
    BY <1>0, <1>1, <2>1, <2>2, ManagerSame, ShapeAgain DEF search_vars, Places, Acting, Thieving
<1>3. CASE NextChild(w)
  <2>1. Goto(w, "process")
        /\ UNCHANGED <<tags, ret, acc, shared_vars, manager_vars, stolen, search_vars>>
    BY <1>3 DEF NextChild
  <2> QED
    BY <1>0, <1>1, <1>3, <2>1, NextChildStack, ManagerSame, ShapeAgain
    DEF search_vars, Places, ProcessPlaces, Acting, Thieving
<1>4. CASE Backtrack(w) \/ Break(w)
  <2>1. Pop(w) /\ UNCHANGED <<tags, child, ret, acc, shared_vars, manager_vars, stolen, search_vars>>
    BY <1>4 DEF Backtrack, Break
  <2>2. /\ \E p \in {"count", "loop"} : Goto(w, p)
        /\ stack' \in [Worker -> Seq(Frames)] /\ stack'[w] # <<>>
        /\ \A v \in Worker \ {w} : stack'[v] = stack[v]
    BY <1>1, <2>1, PopStack
  <2> QED
    BY <1>0, <1>1, <2>1, <2>2, ManagerSame, ShapeAgain DEF search_vars, Places, Acting, Thieving
<1>5. CASE Continue(w)
  <2>1. Goto(w, "loop")
        /\ UNCHANGED <<tags, child, ret, acc, shared_vars, manager_vars, stolen, search_vars>>
    BY <1>5 DEF Continue
  <2>2. /\ stack' \in [Worker -> Seq(Frames)] /\ stack'[w] # <<>>
        /\ \A v \in Worker \ {w} : stack'[v] = stack[v]
    BY <1>5, ContinueStack
  <2> QED
    BY <1>0, <1>1, <2>1, <2>2, ManagerSame, ShapeAgain DEF search_vars, Places, Acting, Thieving
<1>6. CASE UpdateEnumerator(w)
  <2>1. /\ Goto(w, "unregister") /\ UNCHANGED <<stealAll, given, main>>
        /\ UNCHANGED <<tags, child, ret, shared_vars, manager_vars, stack, stolen>>
    BY <1>6 DEF UpdateEnumerator
  <2>2. /\ acc' \in [Worker -> [Node -> Nat]] /\ counted' \in [Node -> Nat]
        /\ acc'[w] = Zero /\ \A v \in Worker \ {w} : acc'[v] = acc[v]
    BY <1>0, <1>6, ZeroTyped DEF UpdateEnumerator
  <2> QED
    BY <1>0, <1>1, <2>1, <2>2, ManagerSame, ShapeAgain DEF Places, Acting, Thieving
<1>7. CASE LowerFlag(w)
  <2>1. /\ Goto(w, "move") /\ requested' \subseteq requested
        /\ UNCHANGED <<tags, child, ret, acc, shared_vars, table_vars, channel,
                       remote_vars, taskBuffer, thief_vars, stack, stolen, search_vars>>
    BY <1>7 DEF LowerFlag
  <2>2. ManagerTyped' /\ UNCHANGED answer
    BY <2>1 DEF Shape, ManagerTyped, table_vars, remote_vars, thief_vars
  <2> QED
    BY <1>0, <1>1, <2>1, <2>2, ShapeAgain DEF search_vars, Places, Acting, Thieving
<1> QED
  BY <1>2, <1>3, <1>4, <1>5, <1>6, <1>7

LEMMA ReplyShape ==
    ASSUME Shape, Steals, [Next]_vars, NEW w \in Worker, Reply(w)
    PROVE  Shape'
<1>1. /\ Running(w) /\ pc[w] = "loop" /\ pc[w] \notin Acting /\ stack[w] # <<>>
      /\ answer[w] = None /\ Goto(w, "lower")
      /\ UNCHANGED <<tags, child, ret, acc, shared_vars, table_vars, requested,
                     remote_vars, taskBuffer, victim, search_vars>>
  BY DEF Reply, Running, Thieving, Acting, Shape, Placed
<1>2. PICK u \in Worker :
         /\ u # w /\ Waits(u, TaskOf(w)) /\ answer[u] = None /\ UNCHANGED channel
         /\ answer' = [answer EXCEPT ![u] = answer'[u]]
         /\ \/ Rich(w) = {} /\ answer'[u] = <<>> /\ UNCHANGED <<stack, stolen>>
            \/ /\ Rich(w) # {}
               /\ LET i == Shallowest(w)
                      n == IF stealAll THEN Len(Rest(stack[w][i])) ELSE 1
                  IN  /\ answer'[u] = SubSeq(Rest(stack[w][i]), 1, n)
                      /\ stack' = [stack EXCEPT ![w][i][2] = @ + n]
                      /\ stolen' = stolen \cup Range(answer'[u])
  BY ReplySends
<1>3. /\ answer'[u] \in Seq(Node) /\ stolen' \subseteq Node /\ stack'[w] # <<>>
      /\ stack' \in [Worker -> Seq(Frames)] /\ \A v \in Worker \ {w} : stack'[v] = stack[v]
  <2>1. CASE Rich(w) = {}
    BY <1>1, <1>2, <2>1, StateTyped, NothingElse
  <2>2. CASE Rich(w) # {}
    <3>1. PICK i \in Nat, n \in Nat : /\ i = Shallowest(w)
                                      /\ n = IF stealAll THEN Len(Rest(stack[w][i])) ELSE 1
                                      /\ i \in 1..Len(stack[w]) - 1 /\ n \in 1..Len(Rest(stack[w][i]))
      BY <1>1, <2>2, GivesSome
    <3>2. /\ answer'[u] = SubSeq(Rest(stack[w][i]), 1, n)
          /\ Handing(w, i, n)
          /\ stolen' = stolen \cup Range(answer'[u])
      BY <1>2, <2>2, <3>1 DEF Handing
    <3>3. answer'[u] \in Seq(Node)
      <4>1. SubSeq(Rest(stack[w][i]), 1, n) \in Seq(Node)
        BY <1>1, <2>2, <3>1, <3>2, ReplyStack
      <4> QED
        BY <3>2, <4>1, Zenon
    <3>4. Range(answer'[u]) \subseteq Node
      BY <3>3, RangeOf
    <3>5. /\ stack' \in [Worker -> Seq(Frames)] /\ stack'[w] # <<>>
          /\ \A v \in Worker \ {w} : stack'[v] = stack[v]
      BY <1>1, <2>2, <3>1, <3>2, ReplyStack
    <3> QED
      BY <3>2, <3>3, <3>4, <3>5, StateTyped
  <2> QED
    BY <2>1, <2>2
<1>4. ManagerTyped' /\ \A v \in Worker \ {u} : answer'[v] = answer[v]
  <2>1. answer' \in [Worker -> Responses] /\ \A v \in Worker \ {u} : answer'[v] = answer[v]
    BY <1>2, <1>3, ManagerParts DEF Responses
  <2>2. EntriesTyped'
    BY <1>1, EntriesSame DEF table_vars
  <2> QED
    BY <1>1, <1>2, <2>1, <2>2, ManagerAgain, ManagerParts DEF table_vars, remote_vars
<1>5. pc[u] = "await"
  BY <1>2 DEF Waits
<1> QED
  BY <1>1, <1>2, <1>3, <1>4, <1>5, ShapeAgain, StateTyped
  DEF search_vars, Places, Acting, Thieving

LEMMA RegisterShape ==
    ASSUME Shape, [Next]_vars, NEW w \in Worker, Register(w)
    PROVE  Shape'
<1>1. /\ pc[w] = "register" /\ Goto(w, "loop")
      /\ UNCHANGED <<tags, child, ret, acc, shared_vars, requested, channel,
                     remote_vars, taskBuffer, thief_vars, stack, stolen, search_vars>>
  BY DEF Register
<1>2. stack[w] # <<>> /\ answer[w] = None
  BY <1>1 DEF Shape, Placed, Running, Thieving
<1>3. ManagerTyped' /\ UNCHANGED answer
  <2>1. EntriesTyped'
    BY RegisterTables
  <2> QED
    BY <1>1, <2>1, ManagerAgain, ManagerParts DEF remote_vars, thief_vars
<1> QED
  BY <1>1, <1>2, <1>3, ShapeAgain, StateTyped DEF search_vars, Places, Acting, Thieving

LEMMA UnregisterShape ==
    ASSUME Shape, [Next]_vars, NEW w \in Worker, Unregister(w)
    PROVE  Shape'
<1>1. /\ pc[w] = "unregister" /\ Goto(w, "idle")
      /\ stack' = [stack EXCEPT ![w] = <<>>] /\ child' = [child EXCEPT ![w] = NoNode]
      /\ ret' = [ret EXCEPT ![w] = "Continue"]
      /\ UNCHANGED <<tags, acc, shared_vars, requested, remote_vars, taskBuffer,
                     victim, stolen, search_vars>>
  BY DEF Unregister
<1>2. acc[w] = Zero /\ answer[w] = None
  BY <1>1 DEF Shape, Placed
<1>3. /\ answer' \in [Worker -> Responses] /\ channel' \in [Node -> {None, NoSteal}]
      /\ \A v \in Worker : answer'[v] = answer[v] \/ pc[v] = "await"
  <2>1. CASE UNCHANGED <<channel, answer>>
    BY <2>1, ManagerParts
  <2>2. ASSUME NEW s \in Node, Send(s, NoSteal)
        PROVE  /\ answer' \in [Worker -> Responses] /\ channel' \in [Node -> {None, NoSteal}]
               /\ \A v \in Worker : answer'[v] = answer[v] \/ pc[v] = "await"
    BY <2>2, SendEnd DEF Waits
  <2> QED
    BY <2>1, <2>2, UnregisterTables
<1>4. ManagerTyped'
  <2>1. EntriesTyped'
    BY UnregisterTables
  <2> QED
    BY <1>1, <1>3, <2>1, ManagerAgain, ManagerParts DEF remote_vars
<1>5. /\ stack' \in [Worker -> Seq(Frames)] /\ stack'[w] = <<>>
      /\ child' \in [Worker -> Node \cup {NoNode}] /\ ret' \in [Worker -> Answers]
      /\ \A v \in Worker \ {w} : stack'[v] = stack[v] /\ child'[v] = child[v]
  BY <1>1, StateTyped DEF Answers
<1>6. answer'[w] = None
  BY <1>1, <1>2, <1>3
<1> QED
  BY <1>1, <1>2, <1>3, <1>4, <1>5, <1>6, ShapeAgain, StateTyped
  DEF search_vars, Places, Acting, Thieving

\* A thief that has found a task starts with one frame for it.
LEMMA RunState ==
    ASSUME Shape, NEW w \in Worker, NEW t \in Node, Run(w, t)
    PROVE  /\ stack' \in [Worker -> Seq(Frames)] /\ stack'[w] = <<<<t, 1>>>>
           /\ stack'[w] # <<>> /\ stack'[w][1] = <<t, 1>> /\ Len(stack'[w]) = 1
           /\ acc' \in [Worker -> [Node -> Nat]] /\ acc'[w] = NewAcc({t})
           /\ \A v \in Worker \ {w} : stack'[v] = stack[v] /\ acc'[v] = acc[v]
           /\ Goto(w, "register") /\ TaskOf(w)' = t
<1>1. <<<<t, 1>>>> \in Seq(Frames) /\ <<<<t, 1>>>> # <<>> /\ Len(<<<<t, 1>>>>) = 1
      /\ <<<<t, 1>>>>[1] = <<t, 1>>
  BY DEF Frames
<1>2. NewAcc({t}) \in [Node -> Nat]
  BY DEF NewAcc
<1>3. stack' = [stack EXCEPT ![w] = <<<<t, 1>>>>] /\ acc' = [acc EXCEPT ![w] = NewAcc({t})]
      /\ Goto(w, "register")
  BY DEF Run
<1> HIDE DEF Run
<1>4. stack'[w] = <<<<t, 1>>>> /\ stack' \in [Worker -> Seq(Frames)] /\ acc'[w] = NewAcc({t})
  BY <1>1, <1>2, <1>3, StateTyped
<1>5. acc' \in [Worker -> [Node -> Nat]]
      /\ \A v \in Worker \ {w} : stack'[v] = stack[v] /\ acc'[v] = acc[v]
  BY <1>2, <1>3, StateTyped
<1> QED
  BY <1>1, <1>3, <1>4, <1>5 DEF TaskOf

\* The rest of the chunk goes to the buffer.
LEMMA BufferTyped ==
    ASSUME Shape, NEW l \in Locality, NEW chunk \in Seq(Node), chunk # <<>>,
           Buffer(l, chunk)
    PROVE  /\ taskBuffer' \in [Locality -> Seq(Node)] /\ chunk[1] \in Node
           /\ taskBuffer' = [taskBuffer EXCEPT ![l] = taskBuffer[l] \o Tail(chunk)]
<1>1. Tail(chunk) \in Seq(Node) /\ chunk[1] \in Node
  BY EmptySeq, ElementOfSeq
<1>2. taskBuffer[l] \o Tail(chunk) \in Seq(Node)
  BY <1>1, ManagerParts
<1> QED
  BY <1>1, <1>2, ManagerParts DEF Buffer

\* What a thief does with the chunk it has stolen.
LEMMA UseState ==
    ASSUME Shape, NEW w \in Worker, NEW chunk \in Seq(Node), Use(w, chunk),
           pc[w] \in Thieving
    PROVE  /\ stack' \in [Worker -> Seq(Frames)] /\ acc' \in [Worker -> [Node -> Nat]]
           /\ \A v \in Worker \ {w} : stack'[v] = stack[v] /\ acc'[v] = acc[v]
           /\ taskBuffer' \in [Locality -> Seq(Node)]
           /\ \/ chunk = <<>> /\ Goto(w, "idle") /\ UNCHANGED <<stack, acc, taskBuffer>>
              \/ chunk # <<>> /\ Run(w, chunk[1]) /\ Buffer(home[w], chunk) /\ chunk[1] \in Node
           /\ \E p \in {"idle", "register"} :
                 /\ Goto(w, p) /\ (p # "idle" <=> stack'[w] # <<>>)
                 /\ p = "idle" => acc'[w] = Zero
           /\ answer' \in [Worker -> Responses] /\ answer'[w] = None
           /\ victim' \in [Worker -> Victims]
           /\ \A v \in Worker \ {w} : answer'[v] = answer[v] /\ victim'[v] = victim[v]
<1>0. home[w] \in Locality /\ stack[w] = <<>> /\ acc[w] = Zero
  BY StateTyped DEF Shape, Placed, Running
<1>1. /\ answer' \in [Worker -> Responses] /\ answer'[w] = None
      /\ \A v \in Worker \ {w} : answer'[v] = answer[v]
  BY ManagerParts DEF Use, Responses
<1>2. victim' \in [Worker -> Victims] /\ \A v \in Worker \ {w} : victim'[v] = victim[v]
  <2>1. NoVictim(w) \in Victims
    BY Several, TreeAssumption DEF NoVictim, Victims
  <2> QED
    BY <2>1, ManagerParts DEF Use
<1>3. CASE chunk = <<>>
  <2>1. Goto(w, "idle") /\ UNCHANGED <<stack, acc, taskBuffer>>
    BY <1>3 DEF Use
  <2> QED
    BY <1>0, <1>1, <1>2, <1>3, <2>1, StateTyped, ManagerParts
<1>4. CASE chunk # <<>>
  <2>1. Run(w, chunk[1]) /\ Buffer(home[w], chunk)
    BY <1>4 DEF Use
  <2>2. chunk[1] \in Node /\ taskBuffer' \in [Locality -> Seq(Node)]
    BY <1>0, <1>4, <2>1, BufferTyped
  <2>3. /\ stack' \in [Worker -> Seq(Frames)] /\ stack'[w] # <<>>
        /\ acc' \in [Worker -> [Node -> Nat]]
        /\ \A v \in Worker \ {w} : stack'[v] = stack[v] /\ acc'[v] = acc[v]
        /\ Goto(w, "register")
    BY <2>1, <2>2, RunState
  <2> QED
    BY <1>1, <1>2, <1>4, <2>1, <2>2, <2>3
<1> QED
  BY <1>3, <1>4

\* What every step of a thief may rely on.
LEMMA ThiefIs ==
    ASSUME Shape, NEW w \in Worker, Thief(w)
    PROVE  /\ pc[w] \in Thieving \ {"gone"} /\ pc[w] \notin Acting
           /\ stack[w] = <<>> /\ acc[w] = Zero /\ home[w] \in Locality
           /\ ~ Registered(w) /\ ~ Running(w)
<1>1. pc[w] \in Thieving \ {"gone"}
  BY DEF Thief, Loop, TakeBuffered, AskLocal, AskRemote, NoWork, ServeRemote, RefuseRemote,
     AnswerRemote, FinishRemote, FinishLocal, Thieving
<1>2. pc[w] \notin Acting /\ ~ Registered(w) /\ ~ Running(w)
  BY <1>1 DEF Acting, Thieving, Registered, Running
<1> QED
  BY <1>1, <1>2, StateTyped DEF Shape, Placed, Running

LEMMA LoopShape ==
    ASSUME Shape, [Next]_vars, NEW w \in Worker, Loop(w) \/ NoWork(w)
    PROVE  Shape'
<1>1. /\ pc[w] \in Thieving \ {"gone"} /\ pc[w] \notin Acting /\ stack[w] = <<>> /\ acc[w] = Zero
  BY ThiefIs DEF Thief
<1>2. \E p \in {"gone", "get", "idle"} : Goto(w, p)
  BY DEF Loop, NoWork
<1>3. UNCHANGED <<tags, child, ret, acc, shared_vars, manager_vars, stack, stolen, search_vars>>
  BY DEF Loop, NoWork
<1>4. answer[w] = None
  <2>1. pc[w] \in {"idle", "get"}
    BY DEF Loop, NoWork
  <2> QED
    BY <2>1 DEF Shape, Placed
<1> QED
  BY <1>1, <1>2, <1>3, <1>4, ManagerSame, ShapeAgain, StateTyped
  DEF search_vars, Places, Acting, Thieving

LEMMA TakeBufferedShape ==
    ASSUME Shape, [Next]_vars, NEW w \in Worker, TakeBuffered(w)
    PROVE  Shape'
<1>1. /\ pc[w] = "get" /\ pc[w] \notin Acting /\ stack[w] = <<>> /\ acc[w] = Zero
      /\ answer[w] = None /\ home[w] \in Locality
  BY ThiefIs DEF Thief, TakeBuffered, Shape, Placed
<1>2. PICK b : b = taskBuffer[home[w]]
  OBVIOUS
<1>3. /\ b # <<>> /\ Run(w, Head(b)) /\ taskBuffer' = [taskBuffer EXCEPT ![home[w]] = Tail(b)]
      /\ UNCHANGED <<tags, child, ret, shared_vars, table_vars, requested, channel,
                     remote_vars, thief_vars, stolen, search_vars>>
  BY <1>2 DEF TakeBuffered
<1>4. b \in Seq(Node) /\ Head(b) \in Node /\ Tail(b) \in Seq(Node)
  <2>1. b \in Seq(Node)
    BY <1>1, <1>2, ManagerParts
  <2> QED
    BY <1>3, <2>1
<1>5. /\ stack' \in [Worker -> Seq(Frames)] /\ stack'[w] # <<>>
      /\ acc' \in [Worker -> [Node -> Nat]]
      /\ \A v \in Worker \ {w} : stack'[v] = stack[v] /\ acc'[v] = acc[v]
      /\ Goto(w, "register")
  BY <1>3, <1>4, RunState
<1>6. ManagerTyped' /\ UNCHANGED answer
  <2>1. EntriesTyped'
    BY <1>3, EntriesSame DEF table_vars
  <2>2. taskBuffer' \in [Locality -> Seq(Node)]
    BY <1>3, <1>4, ManagerParts
  <2> QED
    BY <1>3, <2>1, <2>2, ManagerAgain, ManagerParts DEF remote_vars, thief_vars
<1> HIDE DEF Run
<1> QED
  BY <1>1, <1>3, <1>5, <1>6, ShapeAgain, StateTyped DEF search_vars, Places, Acting, Thieving

LEMMA AskRemoteShape ==
    ASSUME Shape, [Next]_vars, NEW w \in Worker, AskRemote(w)
    PROVE  Shape'
<1>1. /\ pc[w] = "get" /\ pc[w] \notin Acting /\ stack[w] = <<>> /\ acc[w] = Zero
      /\ answer[w] = None /\ home[w] \in Locality
  BY ThiefIs DEF Thief, AskRemote, Shape, Placed
<1>2. /\ Goto(w, "ask")
      /\ UNCHANGED <<tags, child, ret, acc, shared_vars, table_vars, requested,
                     channel, last_remote, taskBuffer, answer, stack, stolen, search_vars>>
  BY DEF AskRemote
<1>3. victim' \in [Worker -> Victims]
  <2>1. PICK l \in IF last_remote[home[w]] = home[w] THEN Others(home[w])
                                                    ELSE {last_remote[home[w]]} :
           victim' = [victim EXCEPT ![w] = [at |-> l, pos |-> 0, state |-> Root]]
    BY DEF AskRemote
  <2>2. l \in Locality
    BY <1>1, <2>1, ManagerParts DEF Others
  <2>3. [at |-> l, pos |-> 0, state |-> Root] \in Victims
    BY <2>2, Several, TreeAssumption DEF Victims
  <2> QED
    BY <2>1, <2>3, ManagerParts
<1>4. ManagerTyped' /\ UNCHANGED answer
  <2>1. EntriesTyped'
    BY <1>2, EntriesSame DEF table_vars
  <2> QED
    BY <1>2, <1>3, <2>1, ManagerAgain, ManagerParts
<1> QED
  BY <1>1, <1>2, <1>4, ShapeAgain, StateTyped DEF search_vars, Places, Acting, Thieving

LEMMA RequestShape ==
    ASSUME Shape, [Next]_vars, NEW w \in Worker, AskLocal(w) \/ ServeRemote(w)
    PROVE  Shape'
<1>1. /\ pc[w] \in Thieving /\ pc[w] \notin Acting /\ stack[w] = <<>> /\ acc[w] = Zero
      /\ home[w] \in Locality
  BY ThiefIs DEF Thief
<1>2. PICK l \in Locality : Request(w, l)
  BY <1>1, ManagerParts DEF AskLocal, ServeRemote, Victims
<1>3. UNCHANGED <<tags, child, ret, acc, shared_vars, remote_vars, taskBuffer,
                  stack, stolen, search_vars>>
  BY DEF AskLocal, ServeRemote
<1>4. PICK i \in Ids, s \in Node :
         /\ EntriesTyped' /\ requested' = requested \cup {s}
         /\ victim' = [victim EXCEPT ![w] = [at |-> l, pos |-> i, state |-> s]]
         /\ answer' = [answer EXCEPT ![w] = channel[s]]
         /\ channel' = [channel EXCEPT ![s] = None]
         /\ Goto(w, "await") /\ UNCHANGED <<activeIds, id>>
  BY <1>2, RequestTables
<1>5. /\ channel[s] \in Responses /\ [at |-> l, pos |-> i, state |-> s] \in Victims
  BY ManagerParts DEF Responses, Victims
<1>6. /\ answer' \in [Worker -> Responses] /\ victim' \in [Worker -> Victims]
      /\ channel' \in [Node -> {None, NoSteal}]
      /\ \A v \in Worker \ {w} : answer'[v] = answer[v]
  BY <1>4, <1>5, ManagerParts
<1>7. ManagerTyped'
  BY <1>3, <1>4, <1>6, ManagerAgain, ManagerParts DEF remote_vars
<1> QED
  BY <1>1, <1>3, <1>4, <1>6, <1>7, ShapeAgain, StateTyped
  DEF search_vars, Places, Acting, Thieving

LEMMA RefuseShape ==
    ASSUME Shape, [Next]_vars, NEW w \in Worker, RefuseRemote(w)
    PROVE  Shape'
<1>1. /\ pc[w] \in Thieving /\ pc[w] \notin Acting /\ stack[w] = <<>> /\ acc[w] = Zero
  BY ThiefIs DEF Thief
<1>2. /\ answer' = [answer EXCEPT ![w] = <<>>] /\ Goto(w, "told")
      /\ UNCHANGED <<tags, child, ret, acc, shared_vars, table_vars, requested,
                     channel, remote_vars, taskBuffer, victim, stack, stolen, search_vars>>
  BY DEF RefuseRemote
<1>3. /\ answer' \in [Worker -> Responses] /\ answer'[w] \in Seq(Node)
      /\ \A v \in Worker \ {w} : answer'[v] = answer[v]
  BY <1>2, NothingElse, ManagerParts DEF Responses
<1>4. ManagerTyped'
  <2>1. EntriesTyped'
    BY <1>2, EntriesSame DEF table_vars
  <2> QED
    BY <1>2, <1>3, <2>1, ManagerAgain, ManagerParts DEF remote_vars
<1> QED
  BY <1>1, <1>2, <1>3, <1>4, ShapeAgain, StateTyped
  DEF search_vars, Places, Acting, Thieving

LEMMA StolenTyped ==
    ASSUME Shape, NEW w \in Worker, answer[w] # None
    PROVE  Stolen(w) \in Seq(Node)
BY ManagerParts, NothingElse DEF Stolen

LEMMA AnswerShape ==
    ASSUME Shape, [Next]_vars, NEW w \in Worker, AnswerRemote(w)
    PROVE  Shape'
<1>1. /\ pc[w] \in Thieving /\ pc[w] \notin Acting /\ stack[w] = <<>> /\ acc[w] = Zero
  BY ThiefIs DEF Thief
<1>2. /\ Reinsert(w) /\ answer' = [answer EXCEPT ![w] = Stolen(w)] /\ Goto(w, "told")
      /\ answer[w] # None
      /\ UNCHANGED <<tags, child, ret, acc, shared_vars, activeIds, id, requested,
                     channel, remote_vars, taskBuffer, victim, stack, stolen, search_vars>>
  BY DEF AnswerRemote
<1>3. /\ answer' \in [Worker -> Responses] /\ answer'[w] \in Seq(Node)
      /\ \A v \in Worker \ {w} : answer'[v] = answer[v]
  BY <1>2, StolenTyped, ManagerParts DEF Responses
<1>4. ManagerTyped'
  <2>1. EntriesTyped'
    BY <1>2, ReinsertTables
  <2> QED
    BY <1>2, <1>3, <2>1, ManagerAgain, ManagerParts DEF remote_vars
<1> QED
  BY <1>1, <1>2, <1>3, <1>4, ShapeAgain, StateTyped
  DEF search_vars, Places, Acting, Thieving

LEMMA FinishShape ==
    ASSUME Shape, [Next]_vars, NEW w \in Worker, FinishRemote(w) \/ FinishLocal(w)
    PROVE  Shape'
<1>1. /\ pc[w] \in Thieving /\ pc[w] \notin Acting /\ stack[w] = <<>> /\ acc[w] = Zero
      /\ home[w] \in Locality
  BY ThiefIs DEF Thief
<1>2. PICK chunk \in Seq(Node) : Use(w, chunk)
  <2>1. CASE FinishRemote(w)
    BY <2>1 DEF FinishRemote, Shape, Placed
  <2>2. CASE FinishLocal(w)
    BY <2>2, StolenTyped DEF FinishLocal
  <2> QED
    BY <2>1, <2>2
<1>3. /\ UNCHANGED <<tags, child, ret, shared_vars, activeIds, id, requested, channel,
                     stolen, search_vars>>
      /\ EntriesTyped' /\ last_remote' \in [Locality -> Locality]
  <2>1. CASE FinishRemote(w)
    <3>1. UNCHANGED <<tags, child, ret, shared_vars, table_vars, requested, channel,
                      stolen, search_vars>>
      BY <2>1 DEF FinishRemote
    <3>2. last_remote' \in [Locality -> Locality]
      <4>1. /\ last_remote' = [last_remote EXCEPT ![home[w]] =
                                 IF answer[w] = <<>> THEN home[w] ELSE victim[w].at]
            /\ victim[w].at \in Locality
        BY <2>1, ManagerParts DEF FinishRemote, Victims
      <4> QED
        BY <1>1, <4>1, ManagerParts
    <3> QED
      BY <3>1, <3>2, EntriesSame DEF table_vars
  <2>2. CASE FinishLocal(w)
    <3>1. /\ UNCHANGED <<tags, child, ret, shared_vars, activeIds, id, requested, channel,
                         remote_vars, stolen, search_vars>>
          /\ Reinsert(w)
      BY <2>2 DEF FinishLocal
    <3> QED
      BY <3>1, ReinsertTables, ManagerParts DEF remote_vars
  <2> QED
    BY <2>1, <2>2
<1> HIDE DEF Use
<1>4. /\ stack' \in [Worker -> Seq(Frames)] /\ acc' \in [Worker -> [Node -> Nat]]
      /\ \A v \in Worker \ {w} : stack'[v] = stack[v] /\ acc'[v] = acc[v]
      /\ taskBuffer' \in [Locality -> Seq(Node)]
      /\ \E p \in {"idle", "register"} :
            /\ Goto(w, p) /\ (p # "idle" <=> stack'[w] # <<>>)
            /\ p = "idle" => acc'[w] = Zero
      /\ answer' \in [Worker -> Responses] /\ answer'[w] = None
      /\ victim' \in [Worker -> Victims]
      /\ \A v \in Worker \ {w} : answer'[v] = answer[v]
  BY <1>1, <1>2, UseState
<1>5. ManagerTyped'
  BY <1>3, <1>4, ManagerAgain, ManagerParts
<1>6. \A v \in Worker \ {w} : child'[v] = child[v]
  BY <1>3
<1> QED
  BY <1>1, <1>3, <1>4, <1>5, ShapeAgain, StateTyped
  DEF search_vars, Places, Acting, Thieving

LEMMA RestShape ==
    ASSUME Shape, [Next]_vars, RootReady \/ Return \/ Deliver \/ UNCHANGED vars
    PROVE  Shape'
<1>1. /\ UNCHANGED <<pc, child, ret, acc, manager_vars, stack, stolen, stealAll, given, counted>>
      /\ main' \in {"await", "stop", "returned"}
  BY DEF RootReady, Return, Deliver, Receive, ReceiveBound, ReceiveStop, vars, search_vars,
     process_vars, Shape, SearchTyped
<1>2. TableInv'
  BY TablesKept DEF Shape
<1>3. ProcessInv'
  <2>1. CASE Deliver
    BY <2>1, ReceiveStep DEF Deliver, Shape
  <2>2. CASE ~ Deliver
    <3>1. UNCHANGED process_vars
      BY <1>1, <2>2 DEF RootReady, Return, vars, process_vars
    <3> QED
      BY <1>1, <3>1, QuietStep DEF process_vars, Shape
  <2> QED
    BY <2>1, <2>2
<1>4. SearchTyped' /\ Placed'
  BY <1>1 DEF Shape, SearchTyped, Placed, Running, Zero, manager_vars, thief_vars
<1>5. ManagerTyped'
  BY <1>1, ManagerSame
<1> QED
  BY <1>2, <1>3, <1>4, <1>5 DEF Shape

LEMMA NextShape ==
    ASSUME Shape, Steals, [Next]_vars
    PROVE  Shape'
<1>1. ASSUME NEW w \in Worker, Thief(w) PROVE Shape'
  BY <1>1, LoopShape, TakeBufferedShape, AskRemoteShape, RequestShape, RefuseShape,
     AnswerShape, FinishShape DEF Thief
<1>2. ASSUME NEW w \in Worker, Walk(w) PROVE Shape'
  BY <1>2, ProcessChildShape, WalkShape, ReplyShape, RegisterShape, UnregisterShape DEF Walk
<1> QED
  BY <1>1, <1>2, RestShape DEF Next, Step
-----------------------------------------------------------------------------
\* Every step keeps the protocol, if a thief starts with new tasks only: no
\* thread runs them and the managers do not know them.
New(t) == ~ Known(t) /\ \A v \in Worker : Running(v) => TaskOf(v) # t

\* Schedulers go on with their tasks, but for one that may start with a new one.
SameTasks(w) ==
    \A v \in Worker :
       /\ Registered(v)' => Registered(v) /\ TaskOf(v)' = TaskOf(v) /\ id'[v] = id[v]
       /\ Running(v)' => \/ /\ Running(v) /\ TaskOf(v)' = TaskOf(v)
                            /\ pc'[v] = "register" => pc[v] = "register"
                         \/ v = w /\ ~ Running(w) /\ \E t \in Node : t = TaskOf(v)' /\ New(t)

\* The part of that which holds of a thread that registers too.
SameRuns(w) ==
    \A v \in Worker : Running(v)' =>
        \/ Running(v) /\ TaskOf(v)' = TaskOf(v)
        \/ v = w /\ ~ Running(w)

LEMMA TasksThenRuns ==
    ASSUME NEW w \in Worker, SameTasks(w)
    PROVE  SameRuns(w)
BY DEF SameTasks, SameRuns, Running

LEMMA TasksAgain ==
    ASSUME Shape, Steals, NEW w \in Worker, SameTasks(w),
           \A s : \A l \in Locality : \A i : Where(s, l, i)' => Where(s, l, i),
           \A s \in Node : s \in requested' \/ channel'[s] # None => Known(s)
    PROVE  /\ Paired' /\ Distinct' /\ Unknown' /\ \A s \in Node : Known(s)' => Known(s)
<1>1. ASSUME NEW s \in Node, Known(s)' PROVE Known(s)
  BY <1>1 DEF Known
<1>2. Paired'
  <2> SUFFICES ASSUME NEW v \in Worker, Registered(v)', NEW l \in Locality, NEW i,
                      NEW t, t = TaskOf(v)', Where(t, l, i)'
               PROVE  l = home[v] /\ i = id'[v]
    BY DEF Paired
  <2>1. Registered(v) /\ t = TaskOf(v) /\ id'[v] = id[v] /\ Where(t, l, i)
    BY DEF SameTasks
  <2> QED
    BY <2>1 DEF Steals, Paired
<1>3. Distinct'
  <2> SUFFICES ASSUME NEW v \in Worker, NEW x \in Worker, Running(v)', Running(x)',
                      TaskOf(v)' = TaskOf(x)'
               PROVE  v = x
    BY DEF Distinct
  <2> QED
    BY DEF Steals, Distinct, SameTasks, New
<1>4. Unknown'
  <2> SUFFICES ASSUME NEW v \in Worker, (pc[v] = "register")', NEW t, t = TaskOf(v)',
                      Known(t)'
               PROVE  FALSE
    BY DEF Unknown
  <2>1. Running(v)'
    BY DEF Running, Thieving
  <2>2. t \in Node
    BY <2>1, FrameTyped DEF SameTasks
  <2>3. Known(t)
    BY <1>1, <2>2
  <2> QED
    BY <2>1, <2>3 DEF Steals, Unknown, SameTasks, New
<1> QED
  BY <1>1, <1>2, <1>3, <1>4

LEMMA OnceAgain ==
    ASSUME Steals,
           \A s : \A l \in Locality : \A i : Stealable(s, l, i)' => Stealable(s, l, i),
           \A v \in Worker : \A s : Waits(v, s)' => Waits(v, s)
    PROVE  ActiveOnce' /\ WaitsOnce' /\ WaitsOrActive'
<1>1. ActiveOnce'
  BY DEF Steals, ActiveOnce
<1>2. WaitsOnce'
  BY DEF Steals, WaitsOnce
<1>3. WaitsOrActive'
  BY DEF Steals, WaitsOrActive
<1> QED
  BY <1>1, <1>2, <1>3

\* A step that leaves the tables and those who wait alone.
LEMMA CalmSteals ==
    ASSUME Shape, Steals, NEW w \in Worker, SameTasks(w),
           UNCHANGED <<active, inactive, channel>>, requested' \subseteq requested,
           \A v \in Worker : /\ pc'[v] = "await" <=> pc[v] = "await"
                             /\ pc[v] = "await" => /\ victim'[v] = victim[v]
                                                   /\ answer'[v] = answer[v],
           \A v \in Worker : Registered(v) /\ pc'[v] # "lower" =>
                                pc[v] # "lower" \/ TaskOf(v) \notin requested'
    PROVE  Steals' /\ SameRuns(w) /\ \A s \in Node : Known(s)' => Known(s)
<1>1. \A s : \A l \in Locality : \A i : /\ Stealable(s, l, i)' <=> Stealable(s, l, i)
                                        /\ Listed(s, l, i)' <=> Listed(s, l, i)
  BY DEF Stealable, Listed
<1>2. \A v \in Worker : \A s : Waits(v, s)' <=> Waits(v, s)
  BY DEF Waits
<1>3. \A s : \A l \in Locality : \A i : Where(s, l, i)' => Where(s, l, i)
  <2> SUFFICES ASSUME NEW s, NEW l \in Locality, NEW i, Where(s, l, i)'
               PROVE  Where(s, l, i)
    OBVIOUS
  <2>1. CASE Listed(s, l, i)'
    BY <1>1, <2>1 DEF Where
  <2>2. CASE \E u \in Worker : Waits(u, s)' /\ victim'[u].at = l /\ victim'[u].pos = i
    <3>1. PICK u \in Worker : Waits(u, s)' /\ victim'[u].at = l /\ victim'[u].pos = i
      BY <2>2
    <3>2. Waits(u, s) /\ victim'[u] = victim[u]
      BY <1>2, <3>1 DEF Waits
    <3> QED
      BY <3>1, <3>2 DEF Where
  <2> QED
    BY <2>1, <2>2 DEF Where
<1>4. Paired' /\ Distinct' /\ Unknown' /\ \A s \in Node : Known(s)' => Known(s)
  <2>1. \A s \in Node : s \in requested' \/ channel'[s] # None => Known(s)
    BY DEF Known
  <2> QED
    BY <1>3, <2>1, TasksAgain
<1>5. ActiveOnce' /\ WaitsOnce' /\ WaitsOrActive'
  BY <1>1, <1>2, OnceAgain
<1>6. Flagged'
  <2> SUFFICES ASSUME NEW v \in Worker, Registered(v)', pc'[v] # "lower",
                      NEW t, t = TaskOf(v)', t \in requested'
               PROVE  \E u \in Worker : Waits(u, t)' /\ answer'[u] = None
    BY DEF Flagged
  <2>1. Registered(v) /\ t = TaskOf(v)
    BY DEF SameTasks
  <2>2. pc[v] # "lower" /\ t \in requested
    BY <2>1
  <2>3. PICK u \in Worker : Waits(u, t) /\ answer[u] = None
    BY <2>1, <2>2 DEF Steals, Flagged
  <2> QED
    BY <1>2, <2>3 DEF Waits
<1>7. Silent'
  <2> SUFFICES ASSUME NEW v \in Worker, Registered(v)', NEW t, t = TaskOf(v)'
               PROVE  channel'[t] = None
    BY DEF Silent
  <2> QED
    BY DEF Steals, Silent, SameTasks
<1>20. SameRuns(w)
  BY TasksThenRuns
<1> QED
  BY <1>20, <1>4, <1>5, <1>6, <1>7 DEF Steals

LEMMA StaysAtWork ==
    ASSUME Shape, NEW w \in Worker, NEW p, Goto(w, p), p # "register",
           Registered(w), TaskOf(w)' = TaskOf(w), UNCHANGED id,
           \A v \in Worker \ {w} : stack'[v] = stack[v]
    PROVE  SameTasks(w)
<1>1. pc'[w] = p /\ \A v \in Worker \ {w} : pc'[v] = pc[v]
  BY StateTyped DEF Goto
<1>2. ASSUME NEW v \in Worker, v # w
      PROVE  TaskOf(v)' = TaskOf(v) /\ pc'[v] = pc[v]
  BY <1>1, <1>2 DEF TaskOf
<1>3. Registered(w) => Running(w)
  BY DEF Registered, Running
<1> QED
  BY <1>1, <1>2, <1>3 DEF SameTasks, Registered, Running

LEMMA StaysIdle ==
    ASSUME Shape, NEW w \in Worker, NEW p \in Thieving, Goto(w, p),
           \A v \in Worker \ {w} : stack'[v] = stack[v] /\ id'[v] = id[v]
    PROVE  SameTasks(w)
<1>1. pc'[w] = p /\ \A v \in Worker \ {w} : pc'[v] = pc[v]
  BY StateTyped DEF Goto
<1>2. ASSUME NEW v \in Worker, v # w
      PROVE  TaskOf(v)' = TaskOf(v) /\ pc'[v] = pc[v] /\ id'[v] = id[v]
  BY <1>1, <1>2 DEF TaskOf
<1> QED
  BY <1>1, <1>2 DEF SameTasks, Registered, Running

LEMMA WalkSteals ==
    ASSUME Shape, Steals, NEW w \in Worker,
           \/ Stop(w) \/ NextChild(w) \/ Backtrack(w) \/ ProcessChild(w) \/ Continue(w)
           \/ Prune(w) \/ Break(w) \/ Exit(w) \/ UpdateEnumerator(w) \/ LowerFlag(w)
    PROVE  Steals' /\ SameRuns(w) /\ \A s \in Node : Known(s)' => Known(s)
<1>1. /\ Registered(w) /\ Running(w) /\ pc[w] # "await"
      /\ pc[w] # "lower" \/ TaskOf(w) \notin requested'
  <2>1. CASE LowerFlag(w)
    BY <2>1 DEF LowerFlag, Registered, Running, Thieving
  <2>2. CASE ProcessChild(w)
    <3>1. ret \in [Worker -> Answers] /\ ProcessInv /\ Process(w)
      BY <2>2, StateTyped DEF ProcessChild, Shape
    <3>2. pc[w] \in Acting \cup {"process"}
      BY <3>1, ProcessPlace
    <3> QED
      BY <3>2 DEF Acting, Registered, Running, Thieving
  <2>3. CASE \/ Stop(w) \/ NextChild(w) \/ Backtrack(w) \/ Continue(w)
             \/ Prune(w) \/ Break(w) \/ Exit(w) \/ UpdateEnumerator(w)
    BY <2>3 DEF Stop, NextChild, Backtrack, Continue, Prune, Break, Exit, UpdateEnumerator,
       Moving, Registered, Running, Thieving
  <2> QED
    BY <2>1, <2>2, <2>3
<1>2. \E p : /\ Goto(w, p) /\ p \notin {"register", "await"}
             /\ TaskOf(w)' = TaskOf(w) /\ \A v \in Worker \ {w} : stack'[v] = stack[v]
  <2>1. CASE Stop(w) \/ Prune(w) \/ Exit(w) \/ UpdateEnumerator(w) \/ LowerFlag(w)
    BY <2>1 DEF Stop, Prune, Exit, UpdateEnumerator, LowerFlag, TaskOf
  <2>2. CASE NextChild(w)
    BY <2>2, NextChildStack DEF NextChild
  <2>3. CASE Backtrack(w) \/ Break(w)
    <3>1. Pop(w)
      BY <2>3 DEF Backtrack, Break
    <3> QED
      BY <1>1, <3>1, PopStack
  <2>4. CASE Continue(w)
    BY <2>4, ContinueStack DEF Continue
  <2>5. CASE ProcessChild(w)
    <3>0. ret \in [Worker -> Answers] /\ ProcessInv /\ Process(w)
      BY <2>5, StateTyped DEF ProcessChild, Shape
    <3>1. PICK p \in Acting \cup {"answered"} : Goto(w, p)
      BY <3>0, ProcessPlace
    <3> QED
      BY <2>5, <3>1 DEF ProcessChild, Acting, TaskOf
  <2> QED
    BY <2>1, <2>2, <2>3, <2>4, <2>5
<1>3. /\ UNCHANGED <<active, inactive, channel, id, victim, answer>>
      /\ requested' \subseteq requested
  BY DEF Stop, NextChild, Backtrack, ProcessChild, Continue, Prune, Break, Exit,
     UpdateEnumerator, LowerFlag, manager_vars, table_vars, thief_vars
<1>4. PICK p : /\ Goto(w, p) /\ p \notin {"register", "await"}
               /\ TaskOf(w)' = TaskOf(w) /\ \A v \in Worker \ {w} : stack'[v] = stack[v]
  BY <1>2
<1>5. pc'[w] = p /\ \A v \in Worker \ {w} : pc'[v] = pc[v]
  BY <1>4, StateTyped DEF Goto
<1>6. SameTasks(w)
  BY <1>1, <1>3, <1>4, StaysAtWork
<1>7. \A v \in Worker : /\ pc'[v] = "await" <=> pc[v] = "await"
                        /\ pc[v] = "await" => victim'[v] = victim[v] /\ answer'[v] = answer[v]
  BY <1>1, <1>3, <1>4, <1>5
<1>8. \A v \in Worker : Registered(v) /\ pc'[v] # "lower" =>
                           pc[v] # "lower" \/ TaskOf(v) \notin requested'
  BY <1>1, <1>5
<1>20. SameRuns(w)
  BY <1>6, TasksThenRuns
<1> QED
  BY <1>20, <1>3, <1>6, <1>7, <1>8, CalmSteals

\* A thief that does not wait.
LEMMA IdleSteals ==
    ASSUME Shape, Steals, NEW w \in Worker,
           Loop(w) \/ NoWork(w) \/ AskRemote(w) \/ RefuseRemote(w)
    PROVE  Steals' /\ SameRuns(w) /\ \A s \in Node : Known(s)' => Known(s)
<1>1. pc[w] \in Thieving \ {"await"}
  BY DEF Loop, NoWork, AskRemote, RefuseRemote, Thieving
<1>2. PICK p \in Thieving \ {"await"} : Goto(w, p)
  BY DEF Loop, NoWork, AskRemote, RefuseRemote, Thieving
<1>3. UNCHANGED <<active, inactive, channel, id, requested, stack>>
  BY DEF Loop, NoWork, AskRemote, RefuseRemote, manager_vars, table_vars
<1>4. \A v \in Worker \ {w} : victim'[v] = victim[v] /\ answer'[v] = answer[v]
  BY ManagerParts DEF Loop, NoWork, AskRemote, RefuseRemote, manager_vars, thief_vars
<1>5. pc'[w] = p /\ \A v \in Worker \ {w} : pc'[v] = pc[v]
  BY <1>2, StateTyped DEF Goto
<1>6. SameTasks(w)
  BY <1>2, <1>3, StaysIdle
<1>7. \A v \in Worker : /\ pc'[v] = "await" <=> pc[v] = "await"
                        /\ pc[v] = "await" => victim'[v] = victim[v] /\ answer'[v] = answer[v]
  BY <1>1, <1>2, <1>4, <1>5
<1>8. \A v \in Worker : Registered(v) /\ pc'[v] # "lower" =>
                           pc[v] # "lower" \/ TaskOf(v) \notin requested'
  BY <1>1, <1>5 DEF Registered
<1>20. SameRuns(w)
  BY <1>6, TasksThenRuns
<1> QED
  BY <1>20, <1>3, <1>6, <1>7, <1>8, CalmSteals

LEMMA RestSteals ==
    ASSUME Shape, Steals, RootReady \/ Return \/ Deliver \/ UNCHANGED vars
    PROVE  Steals' /\ \A s : Known(s)' => Known(s)
<1>1. UNCHANGED <<pc, stack, active, inactive, channel, requested, id, victim, answer>>
  BY DEF RootReady, Return, Deliver, Receive, ReceiveBound, ReceiveStop, vars,
     process_vars, manager_vars, table_vars, thief_vars
<1>2. \A s : \A l \in Locality : \A i : /\ Stealable(s, l, i)' <=> Stealable(s, l, i)
                                        /\ Where(s, l, i)' <=> Where(s, l, i)
  BY <1>1 DEF Stealable, Listed, Where, Waits
<1>3. /\ \A v \in Worker : \A s : Waits(v, s)' <=> Waits(v, s)
      /\ \A s : Known(s)' <=> Known(s)
  BY <1>1, <1>2 DEF Waits, Known
<1>4. \A v \in Worker : /\ Registered(v)' <=> Registered(v)
                        /\ Running(v)' <=> Running(v)
                        /\ TaskOf(v)' = TaskOf(v)
  BY <1>1 DEF Registered, Running, TaskOf
<1>5. ActiveOnce' /\ WaitsOnce' /\ WaitsOrActive'
  BY <1>2, <1>3, OnceAgain
<1>6. Paired' /\ Distinct' /\ Silent'
  BY <1>1, <1>2, <1>4 DEF Steals, Paired, Distinct, Silent
<1>7. Unknown'
  BY <1>1, <1>3, <1>4 DEF Steals, Unknown
<1>8. Flagged'
  BY <1>1, <1>3, <1>4 DEF Steals, Flagged
<1> QED
  BY <1>3, <1>5, <1>6, <1>7, <1>8 DEF Steals

\* A thief that has found work starts with a new task.
StartsNew(w) == pc'[w] = "register" => \A t \in Node : t = TaskOf(w)' => New(t)

LEMMA StartsTask ==
    ASSUME Shape, NEW w \in Worker, NEW t \in Node, Run(w, t), StartsNew(w),
           pc[w] \in Thieving, \A v \in Worker \ {w} : id'[v] = id[v]
    PROVE  SameTasks(w) /\ pc'[w] = "register" /\ \A v \in Worker \ {w} : pc'[v] = pc[v]
<1>1. /\ Goto(w, "register") /\ TaskOf(w)' = t
      /\ \A v \in Worker \ {w} : stack'[v] = stack[v]
  BY RunState
<1>2. pc'[w] = "register" /\ \A v \in Worker \ {w} : pc'[v] = pc[v]
  BY <1>1, StateTyped DEF Goto
<1>3. New(t)
  BY <1>1, <1>2 DEF StartsNew
<1>4. ASSUME NEW v \in Worker, v # w
      PROVE  TaskOf(v)' = TaskOf(v) /\ pc'[v] = pc[v] /\ id'[v] = id[v]
  BY <1>1, <1>2, <1>4 DEF TaskOf
<1> HIDE DEF Run
<1>5. SameTasks(w)
  BY <1>1, <1>2, <1>3, <1>4 DEF SameTasks, Registered, Running
<1> QED
  BY <1>2, <1>5

\* What a thief goes on with after a steal.
LEMMA UseTasks ==
    ASSUME Shape, NEW w \in Worker, NEW chunk \in Seq(Node), Use(w, chunk), StartsNew(w),
           pc[w] \in Thieving, UNCHANGED id
    PROVE  /\ SameTasks(w) /\ pc'[w] \in {"idle", "register"}
           /\ \A v \in Worker \ {w} : pc'[v] = pc[v]
<1>1. CASE chunk = <<>> /\ Goto(w, "idle") /\ UNCHANGED <<stack, acc, taskBuffer>>
  <2>1. pc'[w] = "idle" /\ \A v \in Worker \ {w} : pc'[v] = pc[v]
    BY <1>1, StateTyped DEF Goto
  <2>2. SameTasks(w)
    BY <1>1, StaysIdle DEF Thieving
  <2> QED
    BY <2>1, <2>2
<1>2. CASE chunk # <<>> /\ Run(w, chunk[1]) /\ Buffer(home[w], chunk) /\ chunk[1] \in Node
  <2>1. PICK t \in Node : t = chunk[1]
    BY <1>2
  <2>2. Run(w, t)
    BY <1>2, <2>1
  <2> HIDE DEF Run
  <2> QED
    BY <2>2, StartsTask
<1> QED
  BY <1>1, <1>2, UseState

LEMMA TakeBufferedSteals ==
    ASSUME Shape, Steals, NEW w \in Worker, StartsNew(w), TakeBuffered(w) \/ FinishRemote(w)
    PROVE  Steals' /\ SameRuns(w) /\ \A s \in Node : Known(s)' => Known(s)
<1>1. /\ pc[w] \in Thieving \ {"await"} /\ home[w] \in Locality
      /\ UNCHANGED <<active, inactive, channel, id, requested>>
  BY StateTyped DEF TakeBuffered, FinishRemote, Thieving, table_vars
<1>2. \A v \in Worker \ {w} : victim'[v] = victim[v] /\ answer'[v] = answer[v]
  BY ManagerParts DEF TakeBuffered, FinishRemote, Use, thief_vars
<1>3. /\ SameTasks(w) /\ pc'[w] \in {"idle", "register"}
      /\ \A v \in Worker \ {w} : pc'[v] = pc[v]
  <2>1. CASE TakeBuffered(w)
    <3>1. PICK b : b = taskBuffer[home[w]]
      OBVIOUS
    <3>2. b # <<>> /\ Run(w, Head(b)) /\ b \in Seq(Node)
      BY <1>1, <2>1, <3>1, ManagerParts DEF TakeBuffered
    <3>3. PICK t \in Node : t = Head(b)
      BY <3>2
    <3>4. Run(w, t)
      BY <3>2, <3>3
    <3> HIDE DEF Run
    <3> QED
      BY <1>1, <3>4, StartsTask
  <2>2. CASE FinishRemote(w)
    <3>1. PICK chunk \in Seq(Node) : Use(w, chunk)
      BY <2>2 DEF FinishRemote, Shape, Placed
    <3> HIDE DEF Use
    <3> QED
      BY <1>1, <3>1, UseTasks
  <2> QED
    BY <2>1, <2>2
<1>4. \A v \in Worker : /\ pc'[v] = "await" <=> pc[v] = "await"
                        /\ pc[v] = "await" => victim'[v] = victim[v] /\ answer'[v] = answer[v]
  BY <1>1, <1>2, <1>3
<1>5. \A v \in Worker : Registered(v) /\ pc'[v] # "lower" =>
                           pc[v] # "lower" \/ TaskOf(v) \notin requested'
  BY <1>1, <1>3 DEF Registered
<1>20. SameRuns(w)
  BY <1>3, TasksThenRuns
<1> QED
  BY <1>20, <1>1, <1>3, <1>4, <1>5, CalmSteals

\* The end of a steal that the own manager has served.
LEMMA ReinsertSteals ==
    ASSUME Shape, Steals, NEW w \in Worker, Reinsert(w), pc[w] = "await", answer[w] # None,
           UNCHANGED <<channel, requested, id>>, SameTasks(w), pc'[w] # "await",
           \A v \in Worker \ {w} : /\ pc'[v] = pc[v] /\ victim'[v] = victim[v]
                                   /\ answer'[v] = answer[v]
    PROVE  Steals' /\ SameRuns(w) /\ \A s \in Node : Known(s)' => Known(s)
<1>1. \A s : \A l \in Locality : \A i :
         LET back == s = victim[w].state /\ l = victim[w].at /\ i = victim[w].pos
         IN  /\ Stealable(s, l, i)' => Stealable(s, l, i) \/ back
             /\ Listed(s, l, i)' => Listed(s, l, i) \/ back
  BY ReinsertTables
<1>2. /\ Waits(w, victim[w].state)
      /\ \A v \in Worker : \A s : Waits(v, s)' <=> v # w /\ Waits(v, s)
  BY DEF Waits
<1>3. \A s : \A l \in Locality : \A i : Where(s, l, i)' => Where(s, l, i)
  <2> SUFFICES ASSUME NEW s, NEW l \in Locality, NEW i, Where(s, l, i)'
               PROVE  Where(s, l, i)
    OBVIOUS
  <2>1. CASE Listed(s, l, i)'
    BY <1>1, <1>2, <2>1 DEF Where
  <2>2. CASE \E u \in Worker : Waits(u, s)' /\ victim'[u].at = l /\ victim'[u].pos = i
    BY <1>2, <2>2 DEF Where
  <2> QED
    BY <2>1, <2>2 DEF Where
<1>4. Paired' /\ Distinct' /\ Unknown' /\ \A s \in Node : Known(s)' => Known(s)
  <2>1. \A s \in Node : s \in requested' \/ channel'[s] # None => Known(s)
    BY DEF Known
  <2> QED
    BY <1>3, <2>1, TasksAgain
<1>5. ActiveOnce'
  <2> SUFFICES ASSUME NEW s, NEW l \in Locality, NEW m \in Locality, NEW i, NEW j,
                      Stealable(s, l, i)', Stealable(s, m, j)'
               PROVE  l = m /\ i = j
    BY DEF ActiveOnce
  <2>1. CASE s = victim[w].state
    <3>1. ~ Stealable(s, l, i) /\ ~ Stealable(s, m, j)
      BY <1>2, <2>1 DEF Steals, WaitsOrActive
    <3> QED
      BY <1>1, <3>1
  <2>2. CASE s # victim[w].state
    BY <1>1, <2>2 DEF Steals, ActiveOnce
  <2> QED
    BY <2>1, <2>2
<1>6. WaitsOnce'
  BY <1>2 DEF Steals, WaitsOnce
<1>7. WaitsOrActive'
  <2> SUFFICES ASSUME NEW v \in Worker, NEW s, Waits(v, s)', NEW l \in Locality, NEW i,
                      Stealable(s, l, i)'
               PROVE  FALSE
    BY DEF WaitsOrActive
  <2>1. v # w /\ Waits(v, s)
    BY <1>2
  <2>2. s # victim[w].state
    BY <1>2, <2>1 DEF Steals, WaitsOnce
  <2> QED
    BY <1>1, <2>1, <2>2 DEF Steals, WaitsOrActive
<1>8. Flagged'
  <2> SUFFICES ASSUME NEW v \in Worker, Registered(v)', pc'[v] # "lower",
                      NEW t, t = TaskOf(v)', t \in requested'
               PROVE  \E u \in Worker : Waits(u, t)' /\ answer'[u] = None
    BY DEF Flagged
  <2>1. Registered(v) /\ t = TaskOf(v) /\ v # w
    BY DEF SameTasks, Registered, Thieving
  <2>2. PICK u \in Worker : Waits(u, t) /\ answer[u] = None
    BY <2>1 DEF Steals, Flagged
  <2> QED
    BY <1>2, <2>2
<1>9. Silent'
  <2> SUFFICES ASSUME NEW v \in Worker, Registered(v)', NEW t, t = TaskOf(v)'
               PROVE  channel'[t] = None
    BY DEF Silent
  <2> QED
    BY DEF Steals, Silent, SameTasks
<1>20. SameRuns(w)
  BY TasksThenRuns
<1> QED
  BY <1>20, <1>4, <1>5, <1>6, <1>7, <1>8, <1>9 DEF Steals

LEMMA AnswerSteals ==
    ASSUME Shape, Steals, NEW w \in Worker, StartsNew(w), AnswerRemote(w) \/ FinishLocal(w)
    PROVE  Steals' /\ SameRuns(w) /\ \A s \in Node : Known(s)' => Known(s)
<1>1. /\ pc[w] = "await" /\ pc[w] \in Thieving /\ answer[w] # None /\ Reinsert(w)
      /\ UNCHANGED <<channel, requested, id>>
  BY DEF AnswerRemote, FinishLocal, Thieving
<1>2. \A v \in Worker \ {w} : victim'[v] = victim[v] /\ answer'[v] = answer[v]
  BY ManagerParts DEF AnswerRemote, FinishLocal, Use
<1>3. SameTasks(w) /\ pc'[w] # "await" /\ \A v \in Worker \ {w} : pc'[v] = pc[v]
  <2>1. CASE AnswerRemote(w)
    <3>1. Goto(w, "told") /\ "told" \in Thieving
          /\ \A v \in Worker \ {w} : stack'[v] = stack[v] /\ id'[v] = id[v]
      BY <2>1 DEF AnswerRemote, Thieving
    <3>2. SameTasks(w)
      BY <3>1, StaysIdle
    <3> QED
      BY <3>1, <3>2, StateTyped DEF Goto
  <2>2. CASE FinishLocal(w)
    <3>1. PICK chunk \in Seq(Node) : Use(w, chunk)
      BY <2>2, StolenTyped DEF FinishLocal
    <3> HIDE DEF Use
    <3> QED
      BY <1>1, <3>1, UseTasks
  <2> QED
    BY <2>1, <2>2
<1>20. SameRuns(w)
  BY <1>3, TasksThenRuns
<1> QED
  BY <1>20, <1>1, <1>2, <1>3, ReinsertSteals

LEMMA RequestSteals ==
    ASSUME Shape, Steals, NEW w \in Worker, AskLocal(w) \/ ServeRemote(w)
    PROVE  Steals' /\ SameRuns(w) /\ \A s \in Node : Known(s)' => Known(s)
<1>1. pc[w] \in Thieving \ {"await"} /\ home[w] \in Locality /\ UNCHANGED stack
  BY StateTyped DEF AskLocal, ServeRemote, Thieving
<1>2. PICK l \in Locality : Request(w, l)
  BY <1>1, ManagerParts DEF AskLocal, ServeRemote, Victims
<1>3. PICK i \in Ids, s \in Node :
         /\ Stealable(s, l, i)
         /\ \A r : \A m \in Locality : \A j :
               /\ Stealable(r, m, j)' <=> Stealable(r, m, j) /\ ~ (m = l /\ j = i)
               /\ Listed(r, m, j)' => Listed(r, m, j)
         /\ requested' = requested \cup {s}
         /\ victim' = [victim EXCEPT ![w] = [at |-> l, pos |-> i, state |-> s]]
         /\ answer' = [answer EXCEPT ![w] = channel[s]]
         /\ channel' = [channel EXCEPT ![s] = None]
         /\ Goto(w, "await") /\ UNCHANGED <<activeIds, id>>
  BY <1>2, RequestTables
<1>4. /\ pc'[w] = "await" /\ \A v \in Worker \ {w} : pc'[v] = pc[v]
      /\ victim'[w] = [at |-> l, pos |-> i, state |-> s] /\ answer'[w] = channel[s]
      /\ \A v \in Worker \ {w} : victim'[v] = victim[v] /\ answer'[v] = answer[v]
      /\ \A r \in Node : channel'[r] = IF r = s THEN None ELSE channel[r]
  BY <1>3, StateTyped, ManagerParts DEF Goto
<1>5. \A v \in Worker : \A r : Waits(v, r)' <=> IF v = w THEN r = s ELSE Waits(v, r)
  BY <1>4 DEF Waits
<1>6. SameTasks(w)
  BY <1>1, <1>3, StaysIdle DEF Thieving
<1>7. \A r : \A m \in Locality : \A j : Where(r, m, j)' => Where(r, m, j)
  <2> SUFFICES ASSUME NEW r, NEW m \in Locality, NEW j, Where(r, m, j)'
               PROVE  Where(r, m, j)
    OBVIOUS
  <2>1. CASE Listed(r, m, j)'
    BY <1>3, <2>1 DEF Where
  <2>2. CASE \E u \in Worker : Waits(u, r)' /\ victim'[u].at = m /\ victim'[u].pos = j
    <3>1. PICK u \in Worker : Waits(u, r)' /\ victim'[u].at = m /\ victim'[u].pos = j
      BY <2>2
    <3>2. CASE u = w
      BY <1>3, <1>4, <1>5, <3>1, <3>2 DEF Where, Listed
    <3>3. CASE u # w
      BY <1>4, <1>5, <3>1, <3>3 DEF Where
    <3> QED
      BY <3>2, <3>3
  <2> QED
    BY <2>1, <2>2 DEF Where
<1>8. Paired' /\ Distinct' /\ Unknown' /\ \A r \in Node : Known(r)' => Known(r)
  <2>1. \A r \in Node : r \in requested' \/ channel'[r] # None => Known(r)
    BY <1>3, <1>4 DEF Known, Where, Listed
  <2> QED
    BY <1>6, <1>7, <2>1, TasksAgain
<1>9. ActiveOnce'
  BY <1>3 DEF Steals, ActiveOnce
<1>10. WaitsOnce'
  BY <1>3, <1>5 DEF Steals, WaitsOnce, WaitsOrActive
<1>11. WaitsOrActive'
  <2> SUFFICES ASSUME NEW v \in Worker, NEW r, Waits(v, r)', NEW m \in Locality, NEW j,
                      Stealable(r, m, j)'
               PROVE  FALSE
    BY DEF WaitsOrActive
  <2>1. Stealable(r, m, j) /\ ~ (m = l /\ j = i)
    BY <1>3
  <2>2. CASE v = w
    BY <1>3, <1>5, <2>1, <2>2 DEF Steals, ActiveOnce
  <2>3. CASE v # w
    BY <1>5, <2>1, <2>3 DEF Steals, WaitsOrActive
  <2> QED
    BY <2>2, <2>3
<1>12. Flagged'
  <2> SUFFICES ASSUME NEW v \in Worker, Registered(v)', pc'[v] # "lower",
                      NEW t, t = TaskOf(v)', t \in requested'
               PROVE  \E u \in Worker : Waits(u, t)' /\ answer'[u] = None
    BY DEF Flagged
  <2>1. Registered(v) /\ t = TaskOf(v) /\ v # w
    BY <1>1, <1>6 DEF SameTasks, Registered
  <2>2. CASE t = s
    BY <1>4, <1>5, <2>1, <2>2 DEF Steals, Silent
  <2>3. CASE t # s
    <3>1. PICK u \in Worker : Waits(u, t) /\ answer[u] = None
      BY <1>3, <1>4, <2>1, <2>3 DEF Steals, Flagged
    <3>2. u # w
      BY <1>1, <3>1 DEF Waits
    <3> QED
      BY <1>4, <1>5, <3>1, <3>2
  <2> QED
    BY <2>2, <2>3
<1>13. Silent'
  <2> SUFFICES ASSUME NEW v \in Worker, Registered(v)', NEW t, t = TaskOf(v)'
               PROVE  channel'[t] = None
    BY DEF Silent
  <2>1. Registered(v) /\ t = TaskOf(v) /\ Running(v)
    BY <1>6 DEF SameTasks, Registered, Running
  <2>2. t \in Node /\ channel[t] = None
    BY <2>1, FrameTyped DEF Steals, Silent
  <2> QED
    BY <1>4, <2>2
<1>20. SameRuns(w)
  BY <1>6, TasksThenRuns
<1> QED
  BY <1>20, <1>8, <1>9, <1>10, <1>11, <1>12, <1>13 DEF Steals

LEMMA ReplySteals ==
    ASSUME Shape, Steals, NEW w \in Worker, Reply(w)
    PROVE  Steals' /\ SameRuns(w) /\ \A s \in Node : Known(s)' => Known(s)
<1>1. /\ pc[w] = "loop" /\ Goto(w, "lower") /\ Registered(w) /\ Running(w)
      /\ UNCHANGED <<active, inactive, id, requested, victim>>
  BY DEF Reply, Registered, Running, Thieving, table_vars
<1>2. PICK u \in Worker :
         /\ u # w /\ Waits(u, TaskOf(w)) /\ answer[u] = None /\ UNCHANGED channel
         /\ answer' = [answer EXCEPT ![u] = answer'[u]]
         /\ \/ Rich(w) = {} /\ answer'[u] = <<>> /\ UNCHANGED <<stack, stolen>>
            \/ /\ Rich(w) # {}
               /\ LET i == Shallowest(w)
                      n == IF stealAll THEN Len(Rest(stack[w][i])) ELSE 1
                  IN  /\ answer'[u] = SubSeq(Rest(stack[w][i]), 1, n)
                      /\ stack' = [stack EXCEPT ![w][i][2] = @ + n]
                      /\ stolen' = stolen \cup Range(answer'[u])
  BY ReplySends
<1>3. TaskOf(w)' = TaskOf(w) /\ \A v \in Worker \ {w} : stack'[v] = stack[v]
  <2>1. CASE Rich(w) = {}
    BY <1>2, <2>1 DEF TaskOf
  <2>2. CASE Rich(w) # {}
    <3>1. PICK i \in Nat, n \in Nat : /\ i = Shallowest(w)
                                      /\ n = IF stealAll THEN Len(Rest(stack[w][i])) ELSE 1
                                      /\ i \in 1..Len(stack[w]) - 1 /\ n \in 1..Len(Rest(stack[w][i]))
      BY <1>1, <2>2, GivesSome
    <3>2. Handing(w, i, n)
      BY <1>2, <2>2, <3>1 DEF Handing
    <3> QED
      BY <1>1, <2>2, <3>1, <3>2, ReplyStack
  <2> QED
    BY <2>1, <2>2
<1>4. /\ pc'[w] = "lower" /\ \A v \in Worker \ {w} : pc'[v] = pc[v]
      /\ \A v \in Worker \ {u} : answer'[v] = answer[v]
  BY <1>1, <1>2, StateTyped, ManagerParts DEF Goto
<1>5. SameTasks(w)
  BY <1>1, <1>3, StaysAtWork
<1>6. /\ \A s : \A l \in Locality : \A i : /\ Stealable(s, l, i)' <=> Stealable(s, l, i)
                                           /\ Listed(s, l, i)' <=> Listed(s, l, i)
      /\ \A v \in Worker : \A s : Waits(v, s)' <=> Waits(v, s)
  BY <1>1, <1>4 DEF Stealable, Listed, Waits
<1>7. \A s : \A l \in Locality : \A i : Where(s, l, i)' => Where(s, l, i)
  BY <1>1, <1>6 DEF Where
<1>8. Paired' /\ Distinct' /\ Unknown' /\ \A s \in Node : Known(s)' => Known(s)
  <2>1. \A s \in Node : s \in requested' \/ channel'[s] # None => Known(s)
    BY <1>1, <1>2 DEF Known
  <2> QED
    BY <1>5, <1>7, <2>1, TasksAgain
<1>9. ActiveOnce' /\ WaitsOnce' /\ WaitsOrActive'
  BY <1>6, OnceAgain
<1>10. Flagged'
  <2> SUFFICES ASSUME NEW v \in Worker, Registered(v)', pc'[v] # "lower",
                      NEW t, t = TaskOf(v)', t \in requested'
               PROVE  \E x \in Worker : Waits(x, t)' /\ answer'[x] = None
    BY DEF Flagged
  <2>1. Registered(v) /\ Running(v) /\ t = TaskOf(v) /\ v # w
    BY <1>4, <1>5 DEF SameTasks, Registered, Running
  <2>2. t # TaskOf(w)
    BY <1>1, <2>1 DEF Steals, Distinct
  <2>3. PICK x \in Worker : Waits(x, t) /\ answer[x] = None
    BY <1>1, <1>4, <2>1 DEF Steals, Flagged
  <2>4. x # u
    BY <1>2, <2>2, <2>3 DEF Waits
  <2> QED
    BY <1>4, <1>6, <2>3, <2>4
<1>11. Silent'
  <2> SUFFICES ASSUME NEW v \in Worker, Registered(v)', NEW t, t = TaskOf(v)'
               PROVE  channel'[t] = None
    BY DEF Silent
  <2> QED
    BY <1>2, <1>5 DEF Steals, Silent, SameTasks
<1>20. SameRuns(w)
  BY <1>5, TasksThenRuns
<1> QED
  BY <1>20, <1>8, <1>9, <1>10, <1>11 DEF Steals

LEMMA RegisterSteals ==
    ASSUME Shape, Steals, NEW w \in Worker, Register(w)
    PROVE  Steals' /\ SameRuns(w) /\ \A s \in Node : Known(s)' => Known(s) \/ s = TaskOf(w)
<1>1. /\ pc[w] = "register" /\ Goto(w, "loop") /\ Running(w)
      /\ UNCHANGED <<requested, channel, victim, answer, stack>>
  BY DEF Register, Running, Thieving, thief_vars
<1>2. /\ home[w] \in Locality /\ pc'[w] = "loop" /\ \A v \in Worker \ {w} : pc'[v] = pc[v]
      /\ \A v \in Worker \ {w} : id'[v] = id[v]
  BY <1>1, StateTyped DEF Goto, Register, registerThread
<1>3. PICK t0 \in Node : t0 = TaskOf(w)
  BY <1>1, FrameTyped
<1>4. /\ ~ Known(t0)
      /\ \A s : \A l \in Locality : \A i :
            LET new == s = t0 /\ l = home[w] /\ i = id'[w]
            IN  /\ Stealable(s, l, i)' => Stealable(s, l, i) \/ new
                /\ Listed(s, l, i)' => Listed(s, l, i) \/ new
  BY <1>1, <1>3, RegisterTables DEF Steals, Unknown
<1>5. /\ \A l \in Locality : \A i : ~ Where(t0, l, i) /\ ~ Listed(t0, l, i)
                                    /\ ~ Stealable(t0, l, i)
      /\ \A v \in Worker : ~ Waits(v, t0)
  <2>1. \A l \in Locality : \A i : Where(t0, l, i) => i \in Ids
    BY ManagerParts DEF Where, Listed, Stealable, EntriesTyped, Victims
  <2>2. \A l \in Locality : \A i : ~ Where(t0, l, i)
    BY <1>4, <2>1 DEF Known
  <2>3. \A v \in Worker : Waits(v, t0) => Where(t0, victim[v].at, victim[v].pos)
                                          /\ victim[v].at \in Locality
    BY ManagerParts DEF Where, Victims
  <2> QED
    BY <2>2, <2>3 DEF Where, Listed
<1>6. \A v \in Worker : \A s : Waits(v, s)' <=> Waits(v, s)
  BY <1>1, <1>2 DEF Waits
<1>7. \A s : \A l \in Locality : \A i :
         Where(s, l, i)' => Where(s, l, i) \/ (s = t0 /\ l = home[w] /\ i = id'[w])
  BY <1>1, <1>4, <1>6 DEF Where
<1>8. \A v \in Worker : /\ TaskOf(v)' = TaskOf(v) /\ (Running(v)' <=> Running(v))
                        /\ Registered(v)' => Registered(v) \/ v = w
                        /\ v # w /\ Running(v) => TaskOf(v) # t0
                        /\ Registered(v) => Running(v)
  BY <1>1, <1>2, <1>3 DEF TaskOf, Running, Registered, Thieving, Steals, Distinct
<1>9. \A s \in Node : Known(s)' => Known(s) \/ s = t0
  BY <1>1, <1>7 DEF Known
<1>10. ActiveOnce'
  BY <1>4, <1>5 DEF Steals, ActiveOnce
<1>11. WaitsOnce'
  BY <1>6 DEF Steals, WaitsOnce
<1>12. WaitsOrActive'
  BY <1>4, <1>5, <1>6 DEF Steals, WaitsOrActive
<1>13. Paired'
  <2> SUFFICES ASSUME NEW v \in Worker, Registered(v)', NEW l \in Locality, NEW i,
                      NEW t, t = TaskOf(v)', Where(t, l, i)'
               PROVE  l = home[v] /\ i = id'[v]
    BY DEF Paired
  <2>1. CASE v = w
    BY <1>3, <1>5, <1>7, <1>8, <2>1
  <2>2. CASE v # w
    BY <1>2, <1>7, <1>8, <2>2 DEF Steals, Paired
  <2> QED
    BY <2>1, <2>2
<1>14. Flagged'
  <2> SUFFICES ASSUME NEW v \in Worker, Registered(v)', pc'[v] # "lower",
                      NEW t, t = TaskOf(v)', t \in requested'
               PROVE  \E x \in Worker : Waits(x, t)' /\ answer'[x] = None
    BY DEF Flagged
  <2>1. t = TaskOf(v) /\ t \in requested
    BY <1>1, <1>8
  <2>2. v # w
    BY <1>3, <1>4, <2>1 DEF Known
  <2>3. PICK x \in Worker : Waits(x, t) /\ answer[x] = None
    BY <1>2, <1>8, <2>1, <2>2 DEF Steals, Flagged
  <2> QED
    BY <1>1, <1>6, <2>3
<1>15. Silent'
  <2> SUFFICES ASSUME NEW v \in Worker, Registered(v)', NEW t, t = TaskOf(v)'
               PROVE  channel'[t] = None
    BY DEF Silent
  <2>1. CASE v = w
    BY <1>1, <1>3, <1>4, <1>8, <2>1 DEF Known
  <2>2. CASE v # w
    BY <1>1, <1>8, <2>2 DEF Steals, Silent
  <2> QED
    BY <2>1, <2>2
<1>16. Distinct'
  BY <1>8 DEF Steals, Distinct
<1>17. Unknown'
  <2> SUFFICES ASSUME NEW v \in Worker, (pc[v] = "register")', NEW t, t = TaskOf(v)',
                      Known(t)'
               PROVE  FALSE
    BY DEF Unknown
  <2>1. v # w /\ t = TaskOf(v) /\ pc[v] = "register" /\ Running(v)
    BY <1>2, <1>8 DEF Running, Thieving
  <2>2. t \in Node /\ t # t0
    BY <1>8, <2>1, FrameTyped
  <2> QED
    BY <1>9, <2>1, <2>2 DEF Steals, Unknown
<1>20. SameRuns(w)
  <2>1. \A v \in Worker : TaskOf(v)' = TaskOf(v) /\ (Running(v)' => Running(v))
    BY <1>1, <1>2 DEF TaskOf, Running
  <2> QED
    BY <2>1 DEF SameRuns, Running
<1> QED
  BY <1>20, <1>3, <1>9, <1>10, <1>11, <1>12, <1>13, <1>14, <1>15, <1>16, <1>17 DEF Steals

LEMMA UnregisterSteals ==
    ASSUME Shape, Steals, NEW w \in Worker, Unregister(w)
    PROVE  Steals' /\ SameRuns(w) /\ \A s \in Node : Known(s)' => Known(s)
<1>1. /\ pc[w] = "unregister" /\ Goto(w, "idle") /\ Registered(w)
      /\ stack' = [stack EXCEPT ![w] = <<>>] /\ id' = [id EXCEPT ![w] = 0]
      /\ UNCHANGED <<requested, victim>>
  BY DEF Unregister, unregisterThread, Registered, Thieving
<1>2. /\ pc'[w] = "idle" /\ home[w] \in Locality
      /\ \A v \in Worker \ {w} : pc'[v] = pc[v] /\ stack'[v] = stack[v] /\ id'[v] = id[v]
  BY <1>1, StateTyped DEF Goto
<1>3. SameTasks(w)
  BY <1>1, <1>2, StaysIdle DEF Thieving
<1>4. \A s : \A l \in Locality : \A i :
         /\ Stealable(s, l, i)' => Stealable(s, l, i)
         /\ Listed(s, l, i)' => Listed(s, l, i)
  BY UnregisterTables
<1>5. \A v \in Worker : \A s : Waits(v, s)' <=> Waits(v, s)
  BY <1>1, <1>2 DEF Waits
<1>6. \A s : \A l \in Locality : \A i : Where(s, l, i)' => Where(s, l, i)
  BY <1>1, <1>4, <1>5 DEF Where
\* The state that a steal is cancelled with is that of no other thread.
<1>7. PICK s0 \in Node :
         /\ \A r \in Node : channel'[r] = channel[r] \/ (r = s0 /\ Known(r))
         /\ \A v \in Worker : answer'[v] = answer[v] \/ Waits(v, s0)
         /\ \A v \in Worker : Registered(v) /\ TaskOf(v) = s0 =>
               v = w \/ UNCHANGED <<channel, answer>>
  <2>1. CASE UNCHANGED <<channel, answer>>
    <3>1. Root \in Node
      BY TreeAssumption
    <3> QED
      BY <2>1, <3>1
  <2>2. ASSUME NEW s \in Node, Send(s, NoSteal), Listed(s, home[w], id[w])
        PROVE  /\ \A r \in Node : channel'[r] = channel[r] \/ (r = s /\ Known(r))
               /\ \A v \in Worker : answer'[v] = answer[v] \/ Waits(v, s)
               /\ \A v \in Worker : Registered(v) /\ TaskOf(v) = s => v = w
    <3>1. Where(s, home[w], id[w]) /\ id[w] \in Ids
      BY <2>2, StateTyped DEF Where
    <3>2. Known(s)
      BY <1>2, <3>1 DEF Known
    <3>3. ASSUME NEW v \in Worker, Registered(v), TaskOf(v) = s PROVE v = w
      <4>1. home[w] = home[v] /\ id[w] = id[v]
        BY <1>2, <3>1, <3>3 DEF Steals, Paired
      <4>2. HeldOnce
        BY DEF Shape, TableInv
      <4> QED
        BY <1>1, <3>3, <4>1, <4>2 DEF HeldOnce, Holds
    <3>4. /\ \A v \in Worker : answer'[v] = answer[v] \/ Waits(v, s)
          /\ \A r \in Node \ {s} : channel'[r] = channel[r]
      BY <2>2, SendEnd
    <3> QED
      BY <3>2, <3>3, <3>4
  <2> QED
    BY <2>1, <2>2, UnregisterTables
<1>8. Paired' /\ Distinct' /\ Unknown' /\ \A s \in Node : Known(s)' => Known(s)
  <2>1. \A s \in Node : s \in requested' \/ channel'[s] # None => Known(s)
    BY <1>1, <1>7 DEF Known
  <2> QED
    BY <1>3, <1>6, <2>1, TasksAgain
<1>9. ActiveOnce' /\ WaitsOnce' /\ WaitsOrActive'
  BY <1>4, <1>5, OnceAgain
<1>10. \A v \in Worker : Registered(v)' => Registered(v) /\ v # w /\ TaskOf(v)' = TaskOf(v)
                                           /\ TaskOf(v) \in Node
  BY <1>2, <1>3, FrameTyped DEF SameTasks, Registered, Running, Thieving
<1>11. Flagged'
  <2> SUFFICES ASSUME NEW v \in Worker, Registered(v)', pc'[v] # "lower",
                      NEW t, t = TaskOf(v)', t \in requested'
               PROVE  \E x \in Worker : Waits(x, t)' /\ answer'[x] = None
    BY DEF Flagged
  <2>1. Registered(v) /\ v # w /\ t = TaskOf(v) /\ pc[v] # "lower" /\ t \in requested
    BY <1>1, <1>2, <1>10
  <2>2. PICK x \in Worker : Waits(x, t) /\ answer[x] = None
    BY <2>1 DEF Steals, Flagged
  <2>3. answer'[x] = answer[x]
    <3>1. Waits(x, s0) => s0 = t
      BY <2>2 DEF Waits
    <3> QED
      BY <1>7, <2>1, <3>1
  <2> QED
    BY <1>5, <2>2, <2>3
<1>12. Silent'
  <2> SUFFICES ASSUME NEW v \in Worker, Registered(v)', NEW t, t = TaskOf(v)'
               PROVE  channel'[t] = None
    BY DEF Silent
  <2>1. Registered(v) /\ v # w /\ t = TaskOf(v) /\ t \in Node
    BY <1>10
  <2>2. channel'[t] = channel[t]
    BY <1>7, <2>1
  <2> QED
    BY <2>1, <2>2 DEF Steals, Silent
<1>20. SameRuns(w)
  BY <1>3, TasksThenRuns
<1> QED
  BY <1>20, <1>8, <1>9, <1>11, <1>12 DEF Steals

LEMMA NextSteals ==
    ASSUME Shape, Steals, [Next]_vars, \A w \in Worker : Thief(w) => StartsNew(w)
    PROVE  Steals'
<1>1. ASSUME NEW w \in Worker, Thief(w) PROVE Steals'
  BY <1>1, IdleSteals, TakeBufferedSteals, RequestSteals, AnswerSteals DEF Thief
<1>2. ASSUME NEW w \in Worker, Walk(w) PROVE Steals'
  BY <1>2, WalkSteals, ReplySteals, RegisterSteals, UnregisterSteals DEF Walk
<1> QED
  BY <1>1, <1>2, RestSteals DEF Next, Step
-----------------------------------------------------------------------------
\* 4. The claims.

\* The claims on a node: a step moves the one there is, and puts no other beside
\* it.
AtMostOne(A) == \A x, y \in A : x = y

\* A claim of something that has not been processed.
Alive(c) == c[1] \in {"frame", "child", "answer", "buffer"}

\* A has become B: nothing comes from nothing, the only claim becomes one claim
\* at most, which is lost only if it need not be kept.
MovesTo(A, B, keep) ==
    /\ A = {} => B = {}
    /\ \A c : A = {c} => \E d : /\ B \subseteq {d} /\ (Alive(d) => Alive(c))
                                /\ keep => d \in B

LEMMA MovesLess ==
    ASSUME NEW A, NEW B, NEW keep, B \subseteq A, keep => A \subseteq B
    PROVE  MovesTo(A, B, keep)
BY DEF MovesTo

LEMMA MovesOne ==
    ASSUME NEW A, NEW B, NEW keep, AtMostOne(A), NEW c \in A, NEW d, B \subseteq {d},
           Alive(d) => Alive(c), keep => d \in B
    PROVE  MovesTo(A, B, keep)
<1> SUFFICES ASSUME NEW x, A = {x}
             PROVE  \E y : B \subseteq {y} /\ (Alive(y) => Alive(x)) /\ (keep => y \in B)
  BY DEF MovesTo
<1>1. x = c
  OBVIOUS
<1> QED
  BY <1>1

LEMMA MovesBeside ==
    ASSUME NEW A, NEW B, NEW R, NEW keep, MovesTo(A, B, keep), A \cap R = {}
    PROVE  MovesTo(A \cup R, B \cup R, keep)
<1>1. ASSUME A \cup R = {} PROVE B \cup R = {}
  <2>1. A = {} /\ R = {}
    BY <1>1
  <2> QED
    BY <2>1 DEF MovesTo
<1>2. ASSUME NEW c, A \cup R = {c}
      PROVE  \E d : B \cup R \subseteq {d} /\ (Alive(d) => Alive(c)) /\ (keep => d \in B \cup R)
  <2>1. CASE c \in R
    <3>1. A = {} /\ R = {c}
      BY <1>2, <2>1
    <3>2. B = {}
      BY <3>1 DEF MovesTo
    <3>3. B \cup R \subseteq {c} /\ c \in B \cup R
      BY <3>1, <3>2
    <3> QED
      BY <3>3
  <2>2. CASE c \notin R
    <3>1. A = {c} /\ R = {}
      BY <1>2, <2>2
    <3>2. PICK d : B \subseteq {d} /\ (Alive(d) => Alive(c)) /\ (keep => d \in B)
      BY <3>1 DEF MovesTo
    <3>3. B \cup R \subseteq {d} /\ (keep => d \in B \cup R)
      BY <3>1, <3>2
    <3> QED
      BY <3>2, <3>3
  <2> QED
    BY <2>1, <2>2
<1> QED
  BY <1>1, <1>2 DEF MovesTo

Part(W, n) == Shared(n) \cup (UNION {Held(v, n) : v \in W})
Moved(n) == MovesTo(Claims(n), Claims(n)', Kind = "Enumeration" /\ n \in Space)

\* The names of the claims tell whose they are.
LEMMA HeldNames ==
    ASSUME NEW w \in Worker, NEW n
    PROVE  \A c : c \in Held(w, n) <=>
              \/ \E i \in FramesWith(stack[w], n) : Walking(w) /\ c = <<"frame", w, i>>
              \/ n \in Hand(w) /\ c = <<"child", w, 0>>
              \/ \E i \in TasksWith(InTransit(w), n) : c = <<"answer", w, i>>
              \/ \E i \in 1..acc[w][n] : c = <<"acc", w, i>>
BY DEF Held

LEMMA SharedNames ==
    ASSUME NEW n
    PROVE  \A c : c \in Shared(n) <=>
              \/ \E l \in Locality : \E i \in TasksWith(taskBuffer[l], n) : c = <<"buffer", l, i>>
              \/ \E i \in 1..counted[n] : c = <<"counted", 0, i>>
<1>1. \A c : c \in UNION {{<<"buffer", l, i>> : i \in TasksWith(taskBuffer[l], n)} : l \in Locality}
             <=> \E l \in Locality : \E i \in TasksWith(taskBuffer[l], n) : c = <<"buffer", l, i>>
  OBVIOUS
<1>2. \A c : c \in {<<"counted", 0, i>> : i \in 1..counted[n]}
             <=> \E i \in 1..counted[n] : c = <<"counted", 0, i>>
  OBVIOUS
<1> QED
  BY <1>1, <1>2 DEF Shared, Buffered

LEMMA OwnersApart ==
    ASSUME NEW n
    PROVE  /\ \A v, w \in Worker : v # w => Held(v, n) \cap Held(w, n) = {}
           /\ \A w \in Worker : Held(w, n) \cap Shared(n) = {}
<1>1. ASSUME NEW v \in Worker, NEW c \in Held(v, n)
      PROVE  c[2] = v /\ c[1] \in {"frame", "child", "answer", "acc"}
  BY <1>1, HeldNames
<1>2. ASSUME NEW c \in Shared(n)
      PROVE  c[1] \in {"buffer", "counted"}
  BY <1>2, SharedNames
<1> QED
  BY <1>1, <1>2

\* What the claims of the schedulers that a step concerns do, all claims do.
LEMMA PartMoves ==
    ASSUME NEW n, NEW W \in SUBSET Worker, \A v \in Worker \ W : Held(v, n)' = Held(v, n),
           MovesTo(Part(W, n), Part(W, n)', Kind = "Enumeration" /\ n \in Space)
    PROVE  Moved(n)
<1> DEFINE R == UNION {Held(v, n) : v \in Worker \ W}
           keep == Kind = "Enumeration" /\ n \in Space
<1>1. Claims(n) = Part(W, n) \cup R
  BY DEF Claims, Part
<1>2. Claims(n)' = Part(W, n)' \cup R
  <2>1. Claims(n)' = Part(W, n)' \cup (UNION {Held(v, n)' : v \in Worker \ W})
    BY DEF Claims, Part
  <2>2. UNION {Held(v, n)' : v \in Worker \ W} = R
    OBVIOUS
  <2> QED
    BY <2>1, <2>2
<1>3. Part(W, n) \cap R = {}
  BY OwnersApart DEF Part
<1>4. PICK A, B : A = Part(W, n) /\ B = Part(W, n)'
  OBVIOUS
<1> HIDE DEF R, keep
<1>5. MovesTo(A \cup R, B \cup R, keep)
  BY <1>3, <1>4, MovesBeside DEF keep
<1> QED
  BY <1>1, <1>2, <1>4, <1>5 DEF Moved, keep

\* The frames of a stack by the positions that are left in them.
LEMMA FramesAre ==
    ASSUME NEW s \in Seq(Frames), NEW n
    PROVE  \A i : i \in FramesWith(s, n) <=> i \in 1..Len(s) /\ FrameHas(s, i, n)
<1> SUFFICES ASSUME NEW i \in 1..Len(s)
             PROVE  (\E c \in Range(Rest(s[i])) : n \in Subtree(c)) <=> FrameHas(s, i, n)
  <2>1. DOMAIN s = 1..Len(s)
    OBVIOUS
  <2> QED
    BY <2>1 DEF FramesWith
<1>1. s[i] \in Frames
  BY ElementOfSeq
<1>2. PICK f : f = s[i]
  OBVIOUS
<1>3. /\ Rest(f) \in Seq(Node) /\ f[2] \in Nat \ {0} /\ numChildren(f[1]) \in Nat
      /\ Len(Rest(f)) = IF f[2] <= numChildren(f[1]) THEN numChildren(f[1]) - f[2] + 1 ELSE 0
      /\ \A j \in 1..Len(Rest(f)) : Rest(f)[j] = Child(f[1], f[2] + j - 1)
  BY <1>1, <1>2, RestTyped
<1>4. Range(Rest(f)) = {Rest(f)[j] : j \in 1..Len(Rest(f))}
  BY <1>3, RangeOf
<1>5. ASSUME NEW c \in Range(Rest(f)), n \in Subtree(c)
      PROVE  \E k \in 1..numChildren(f[1]) : k >= f[2] /\ n \in Subtree(Child(f[1], k))
  <2>1. PICK j \in 1..Len(Rest(f)) : c = Child(f[1], f[2] + j - 1)
    BY <1>3, <1>4, <1>5
  <2>2. f[2] + j - 1 \in 1..numChildren(f[1]) /\ f[2] + j - 1 >= f[2]
    BY <1>3, <2>1
  <2> QED
    BY <1>5, <2>1, <2>2
<1>6. ASSUME NEW k \in 1..numChildren(f[1]), k >= f[2], n \in Subtree(Child(f[1], k))
      PROVE  \E c \in Range(Rest(f)) : n \in Subtree(c)
  <2>1. k - f[2] + 1 \in 1..Len(Rest(f)) /\ f[2] + (k - f[2] + 1) - 1 = k
    BY <1>3, <1>6
  <2>2. Rest(f)[k - f[2] + 1] = Child(f[1], k)
    BY <1>3, <2>1
  <2> QED
    BY <1>4, <1>6, <2>1, <2>2
<1> QED
  BY <1>2, <1>5, <1>6 DEF FrameHas

\* What a scheduler holds depends on these parts of its state only.
LEMMA HeldAgain ==
    ASSUME NEW w \in Worker, NEW n, Walking(w)' <=> Walking(w),
           Walking(w) => FramesWith(stack'[w], n) = FramesWith(stack[w], n),
           n \in Hand(w)' <=> n \in Hand(w), InTransit(w)' = InTransit(w),
           acc'[w][n] = acc[w][n]
    PROVE  Held(w, n)' = Held(w, n)
<1>1. \A c : c \in Held(w, n)' <=> c \in Held(w, n)
  BY DEF Held
<1> QED
  BY <1>1, Zenon

LEMMA HeldLess ==
    ASSUME NEW w \in Worker, NEW n, Walking(w)' => Walking(w),
           Walking(w)' => FramesWith(stack'[w], n) \subseteq FramesWith(stack[w], n),
           n \in Hand(w)' => n \in Hand(w), InTransit(w)' = InTransit(w),
           acc'[w][n] = acc[w][n]
    PROVE  Held(w, n)' \subseteq Held(w, n)
BY DEF Held

\* The schedulers a step does not concern.
Aside(v) == /\ pc'[v] = pc[v] /\ child'[v] = child[v] /\ stack'[v] = stack[v]
            /\ acc'[v] = acc[v] /\ InTransit(v)' = InTransit(v)

LEMMA AsideHolds ==
    ASSUME NEW v \in Worker, Aside(v), NEW n
    PROVE  Held(v, n)' = Held(v, n)
<1>1. Walking(v)' <=> Walking(v)
  BY DEF Aside, Walking
<1>2. n \in Hand(v)' <=> n \in Hand(v)
  BY DEF Aside, Hand
<1> QED
  BY <1>1, <1>2, HeldAgain DEF Aside

\* A step of one scheduler that leaves what they share alone.
LEMMA AloneMoves ==
    ASSUME NEW n, NEW w \in Worker, \A v \in Worker \ {w} : Aside(v),
           UNCHANGED <<taskBuffer, counted>>,
           MovesTo(Held(w, n), Held(w, n)', Kind = "Enumeration" /\ n \in Space)
    PROVE  Moved(n)
<1>1. PICK A, B, R : A = Held(w, n) /\ B = Held(w, n)' /\ R = Shared(n)
  OBVIOUS
<1>2. Shared(n)' = R
  BY <1>1 DEF Shared, Buffered
<1>3. Part({w}, n) = A \cup R /\ Part({w}, n)' = B \cup R
  BY <1>1, <1>2 DEF Part
<1>4. A \cap R = {}
  BY <1>1, OwnersApart
<1>5. MovesTo(A \cup R, B \cup R, Kind = "Enumeration" /\ n \in Space)
  BY <1>1, <1>4, MovesBeside
<1> QED
  BY <1>3, <1>5, AsideHolds, PartMoves

LEMMA HeldKept ==
    ASSUME NEW w \in Worker, NEW n,
           Walking(w) => \A i \in FramesWith(stack[w], n) :
                            Walking(w)' /\ i \in FramesWith(stack'[w], n),
           n \in Hand(w) => n \in Hand(w)', InTransit(w)' = InTransit(w),
           acc'[w][n] = acc[w][n]
    PROVE  Held(w, n) \subseteq Held(w, n)'
BY DEF Held

\* In an enumeration processNode always answers Continue.
Continues == Kind = "Enumeration" => \A w \in Worker : ret[w] = "Continue"

LEMMA AsideWhen ==
    ASSUME Shape, NEW w \in Worker, NEW p, Goto(w, p),
           \A v \in Worker \ {w} : /\ child'[v] = child[v] /\ stack'[v] = stack[v]
                                   /\ acc'[v] = acc[v] /\ answer'[v] = answer[v]
    PROVE  pc'[w] = p /\ \A v \in Worker \ {w} : Aside(v)
BY StateTyped DEF Goto, Aside, InTransit

\* Places of a scheduler that has no node in hand.
LEMMA EmptyHand ==
    ASSUME NEW w \in Worker, pc[w] \notin ProcessPlaces \ {"free"}
    PROVE  Hand(w) = {}
BY DEF Hand, ProcessPlaces

LEMMA LessMoves ==
    ASSUME Shape, Continues, NEW w \in Worker, NEW n,
           Register(w) \/ LowerFlag(w) \/ Stop(w) \/ Prune(w) \/ Exit(w)
    PROVE  Moved(n)
<1>1. /\ UNCHANGED <<child, acc, answer, stack, taskBuffer, counted>>
      /\ \E p \in {"loop", "move", "count"} : Goto(w, p)
  BY DEF Register, LowerFlag, Stop, Prune, Exit, manager_vars, thief_vars, search_vars
<1>2. PICK p \in {"loop", "move", "count"} : Goto(w, p)
  BY <1>1
<1>3. pc'[w] = p /\ \A v \in Worker \ {w} : Aside(v)
  BY <1>1, <1>2, AsideWhen
<1>4. /\ Walking(w) /\ ~ n \in Hand(w)' /\ InTransit(w)' = InTransit(w)
  <2>1. Walking(w)
    BY DEF Register, LowerFlag, Stop, Prune, Exit, Walking, Thieving
  <2>2. Hand(w)' = {}
    BY <1>3 DEF Hand, ProcessPlaces
  <2>3. InTransit(w)' = InTransit(w)
    BY <1>1 DEF InTransit
  <2> QED
    BY <2>1, <2>2, <2>3
<1>5. Held(w, n)' \subseteq Held(w, n)
  BY <1>1, <1>4, HeldLess
<1>6. Kind = "Enumeration" => Held(w, n) \subseteq Held(w, n)'
  <2> SUFFICES ASSUME Kind = "Enumeration" PROVE Held(w, n) \subseteq Held(w, n)'
    OBVIOUS
  <2>1. Register(w) \/ LowerFlag(w)
    BY DEF Continues, Stop, Stopped, Prune, Exit
  <2>2. Walking(w)' /\ n \notin Hand(w)
    BY <1>3, <2>1, EmptyHand, StateTyped DEF Register, LowerFlag, Walking, Thieving, ProcessPlaces, Goto
  <2> QED
    BY <1>1, <1>4, <2>2, HeldKept
<1>7. PICK A, B, keep : /\ A = Held(w, n) /\ B = Held(w, n)'
                        /\ keep = (Kind = "Enumeration" /\ n \in Space)
  OBVIOUS
<1>8. MovesTo(A, B, keep)
  BY <1>5, <1>6, <1>7, MovesLess
<1> QED
  BY <1>1, <1>3, <1>7, <1>8, AloneMoves

\* A frame that is popped has nothing left, but for the rest of a level that is
\* pruned.
LEMMA PopMoves ==
    ASSUME Shape, Continues, NEW w \in Worker, NEW n, Backtrack(w) \/ Break(w)
    PROVE  Moved(n)
<1>1. /\ UNCHANGED <<child, acc, answer, taskBuffer, counted>> /\ Pop(w)
      /\ Running(w) /\ Walking(w) /\ pc[w] \in {"loop", "move", "answered"}
  BY DEF Backtrack, Break, Moving, manager_vars, thief_vars, search_vars, Running, Walking,
     Thieving
<1>2. PICK s : s = stack[w]
  OBVIOUS
<1>3. /\ s \in Seq(Frames) /\ s # <<>> /\ Len(s) \in Nat \ {0}
      /\ s[Len(s)] = <<Current(w), Frame(w)[2]>>
  BY <1>1, <1>2, FrameTyped
<1>4. /\ \A v \in Worker \ {w} : stack'[v] = stack[v]
      /\ \/ Len(s) = 1 /\ Goto(w, "count") /\ stack'[w] = s
         \/ Len(s) > 1 /\ Goto(w, "loop") /\ stack'[w] = SubSeq(s, 1, Len(s) - 1)
  BY <1>1, <1>2, PopStack
<1>5. /\ pc'[w] \in {"count", "loop"} /\ \A v \in Worker \ {w} : Aside(v)
      /\ Len(s) = 1 => pc'[w] = "count" /\ stack'[w] = s
      /\ Len(s) # 1 => pc'[w] = "loop" /\ stack'[w] = SubSeq(s, 1, Len(s) - 1)
  <2>1. \A v \in Worker \ {w} : /\ child'[v] = child[v] /\ stack'[v] = stack[v]
                                /\ acc'[v] = acc[v] /\ answer'[v] = answer[v]
    BY <1>1, <1>4
  <2>2. CASE Len(s) = 1 /\ Goto(w, "count") /\ stack'[w] = s
    <3>1. pc'[w] = "count" /\ \A v \in Worker \ {w} : Aside(v)
      BY <2>1, <2>2, AsideWhen
    <3> QED
      BY <2>2, <3>1
  <2>3. CASE Len(s) > 1 /\ Goto(w, "loop") /\ stack'[w] = SubSeq(s, 1, Len(s) - 1)
    <3>1. pc'[w] = "loop" /\ \A v \in Worker \ {w} : Aside(v)
      BY <2>1, <2>3, AsideWhen
    <3>2. Len(s) # 1
      BY <1>3, <2>3
    <3> QED
      BY <2>3, <3>1, <3>2
  <2> QED
    BY <1>4, <2>2, <2>3
<1>6. /\ ~ n \in Hand(w)' /\ InTransit(w)' = InTransit(w)
  BY <1>1, <1>5 DEF Hand, ProcessPlaces, InTransit
<1>7. /\ Walking(w)' <=> Len(s) # 1
      /\ Len(s) # 1 => \A i : i \in FramesWith(stack'[w], n)
                                 <=> i \in FramesWith(s, n) /\ i # Len(s)
  <2>1. Walking(w)' <=> Len(s) # 1
    BY <1>5 DEF Walking, Thieving
  <2>2. PICK t : t = SubSeq(s, 1, Len(s) - 1)
    OBVIOUS
  <2>3. /\ t \in Seq(Frames) /\ Len(t) = Len(s) - 1
        /\ \A i \in 1..Len(t) : FrameHas(t, i, n) <=> FrameHas(s, i, n)
    BY <1>3, <2>2, PopFrame
  <2>4. \A i : i \in FramesWith(t, n) <=> i \in FramesWith(s, n) /\ i # Len(s)
    BY <1>3, <2>3, FramesAre
  <2> QED
    BY <1>5, <2>1, <2>2, <2>4
<1>8. Held(w, n)' \subseteq Held(w, n)
  BY <1>1, <1>2, <1>6, <1>7, HeldLess
<1>9. Kind = "Enumeration" => Held(w, n) \subseteq Held(w, n)'
  <2> SUFFICES ASSUME Kind = "Enumeration" PROVE Held(w, n) \subseteq Held(w, n)'
    OBVIOUS
  <2>1. Backtrack(w)
    BY DEF Continues, Break
  <2>2. Len(s) \notin FramesWith(s, n)
    <3>1. /\ Frame(w)[2] > numChildren(Current(w)) /\ Frame(w)[2] \in Nat
          /\ numChildren(Current(w)) \in Nat
      BY <1>1, <2>1, FrameTyped, NumChildrenNat DEF Backtrack
    <3>2. ~ FrameHas(s, Len(s), n)
      BY <1>3, <3>1 DEF FrameHas
    <3> QED
      BY <1>3, <3>2, FramesAre
  <2>3. n \notin Hand(w)
    BY <1>1, <2>1, EmptyHand DEF Backtrack, Moving, ProcessPlaces
  <2>4. \A i \in FramesWith(s, n) : Walking(w)' /\ i \in FramesWith(stack'[w], n)
    <3>1. Len(s) = 1 => FramesWith(s, n) = {}
      BY <1>3, <2>2, FramesAre
    <3> QED
      BY <1>7, <2>2, <3>1
  <2> QED
    BY <1>1, <1>2, <1>6, <2>3, <2>4, HeldKept
<1>10. PICK A, B, keep : /\ A = Held(w, n) /\ B = Held(w, n)'
                         /\ keep = (Kind = "Enumeration" /\ n \in Space)
  OBVIOUS
<1>11. MovesTo(A, B, keep)
  BY <1>8, <1>9, <1>10, MovesLess
<1> QED
  BY <1>1, <1>5, <1>10, <1>11, AloneMoves

\* Where there is a claim there is no other.
LEMMA OnlyClaim ==
    ASSUME NEW n, AtMostOne(Claims(n)), NEW c \in Claims(n)
    PROVE  /\ \A v \in Worker : \A i :
                 /\ Walking(v) /\ i \in FramesWith(stack[v], n) => c = <<"frame", v, i>>
                 /\ i \in TasksWith(InTransit(v), n) => c = <<"answer", v, i>>
                 /\ i \in 1..acc[v][n] => c = <<"acc", v, i>>
           /\ \A v \in Worker : n \in Hand(v) => c = <<"child", v, 0>>
           /\ \A l \in Locality : \A i \in TasksWith(taskBuffer[l], n) : c = <<"buffer", l, i>>
           /\ \A i \in 1..counted[n] : c = <<"counted", 0, i>>
<1>1. \A x : x \in Shared(n) \/ (\E v \in Worker : x \in Held(v, n)) => x = c
  BY DEF Claims, AtMostOne
<1> QED
  BY <1>1, HeldNames, SharedNames

LEMMA PartOnce ==
    ASSUME NEW n, AtMostOne(Claims(n)), NEW W \in SUBSET Worker
    PROVE  /\ AtMostOne(Part(W, n)) /\ Part(W, n) \subseteq Claims(n)
           /\ \A w \in Worker : AtMostOne(Held(w, n)) /\ Held(w, n) \subseteq Claims(n)
BY DEF AtMostOne, Part, Claims

LEMMA NextMoves ==
    ASSUME Shape, NEW w \in Worker, NEW n, AtMostOne(Claims(n)), NextChild(w)
    PROVE  Moved(n)
<1>1. /\ UNCHANGED <<acc, answer, taskBuffer, counted>> /\ Goto(w, "process")
      /\ pc[w] \in {"loop", "move"} /\ Running(w)
  BY DEF NextChild, Moving, Running, Thieving, manager_vars, thief_vars, search_vars
<1>2. PICK s, t, c, k, m : /\ s = stack[w] /\ t = stack'[w] /\ c = child'[w]
                           /\ k = Frame(w)[2] /\ m = Current(w)
  OBVIOUS
<1>3. /\ s \in Seq(Frames) /\ s # <<>> /\ Len(s) \in Nat \ {0} /\ s[Len(s)] = <<m, k>>
  BY <1>1, <1>2, FrameTyped
<1>4. /\ t \in Seq(Frames) /\ Len(t) = Len(s) /\ t[Len(s)] = <<m, k + 1>>
      /\ \A i \in 1..Len(s) - 1 : t[i] = s[i]
      /\ k \in 1..numChildren(m) /\ c = Child(m, k)
      /\ \A v \in Worker \ {w} : stack'[v] = stack[v] /\ child'[v] = child[v]
  <2>1. stack' \in [Worker -> Seq(Frames)]
    BY NextChildStack
  <2>2. t \in Seq(Frames)
    BY <1>2, <2>1
  <2> QED
    BY <1>2, <2>2, NextChildStack
<1>5. pc'[w] = "process" /\ \A v \in Worker \ {w} : Aside(v)
  BY <1>1, <1>4, AsideWhen
<1>6. /\ Walking(w) /\ Walking(w)' /\ n \notin Hand(w) /\ InTransit(w)' = InTransit(w)
      /\ n \in Hand(w)' <=> n \in Subtree(c)
  <2>1. Hand(w)' = Subtree(c)
    BY <1>2, <1>5 DEF Hand
  <2> QED
    BY <1>1, <1>5, <2>1, EmptyHand DEF Walking, Thieving, ProcessPlaces, InTransit
<1>7. /\ \A i \in 1..Len(s) - 1 : i \in FramesWith(t, n) <=> i \in FramesWith(s, n)
      /\ Len(s) \in FramesWith(t, n) <=> Len(s) \in FramesWith(s, n) /\ n \notin Subtree(c)
      /\ n \in Subtree(c) => Len(s) \in FramesWith(s, n)
      /\ \A i : i \in FramesWith(t, n) \/ i \in FramesWith(s, n) => i \in 1..Len(s)
  <2>1. k <= numChildren(m)
    BY <1>4
  <2>2. /\ \A i \in 1..Len(s) - 1 : FrameHas(t, i, n) <=> FrameHas(s, i, n)
        /\ FrameHas(t, Len(s), n) <=> FrameHas(s, Len(s), n) /\ n \notin Subtree(Child(m, k))
        /\ n \in Subtree(Child(m, k)) => FrameHas(s, Len(s), n)
    BY <1>3, <1>4, <2>1, AdvanceFrame
  <2>3. /\ \A i : i \in FramesWith(s, n) <=> i \in 1..Len(s) /\ FrameHas(s, i, n)
        /\ \A i : i \in FramesWith(t, n) <=> i \in 1..Len(s) /\ FrameHas(t, i, n)
    BY <1>3, <1>4, FramesAre
  <2> QED
    BY <1>3, <1>4, <2>2, <2>3
<1>8. PICK A, B, keep : /\ A = Held(w, n) /\ B = Held(w, n)'
                        /\ keep = (Kind = "Enumeration" /\ n \in Space)
  OBVIOUS
<1>9. CASE n \notin Subtree(c)
  <2>1. FramesWith(t, n) = FramesWith(s, n)
    <3>1. \A i : i \in FramesWith(t, n) <=> i \in FramesWith(s, n)
      BY <1>3, <1>7, <1>9
    <3> QED
      BY <3>1, Zenon
  <2>2. B = A
    BY <1>1, <1>2, <1>6, <1>8, <1>9, <2>1, HeldAgain
  <2>3. MovesTo(A, B, keep)
    BY <2>2, MovesLess
  <2> QED
    BY <1>1, <1>5, <1>8, <2>3, AloneMoves
<1>10. CASE n \in Subtree(c)
  <2>1. PICK x, d : x = <<"frame", w, Len(s)>> /\ d = <<"child", w, 0>>
    OBVIOUS
  <2>2. x \in A /\ AtMostOne(A) /\ x \in Claims(n)
    BY <1>2, <1>6, <1>7, <1>8, <1>10, <2>1, HeldNames, PartOnce
  <2>3. d \in B
    BY <1>6, <1>8, <1>10, <2>1 DEF Held
  <2>4. B \subseteq {d}
    <3> SUFFICES ASSUME NEW y \in B PROVE y = d
      OBVIOUS
    <3>1. \/ \E i \in FramesWith(t, n) : y = <<"frame", w, i>>
          \/ y = d
          \/ \E i \in TasksWith(InTransit(w), n) : y = <<"answer", w, i>>
          \/ \E i \in 1..acc[w][n] : y = <<"acc", w, i>>
      BY <1>1, <1>2, <1>6, <1>8, <2>1 DEF Held
    <3>2. FramesWith(t, n) = {}
      BY <1>2, <1>3, <1>6, <1>7, <1>10, <2>1, <2>2, OnlyClaim
    <3>3. TasksWith(InTransit(w), n) = {} /\ 1..acc[w][n] = {}
      BY <2>1, <2>2, OnlyClaim
    <3> QED
      BY <3>1, <3>2, <3>3
  <2>5. Alive(d) => Alive(x)
    BY <2>1 DEF Alive
  <2>6. MovesTo(A, B, keep)
    BY <2>2, <2>3, <2>4, <2>5, MovesOne
  <2> QED
    BY <1>1, <1>5, <1>8, <2>6, AloneMoves
<1> QED
  BY <1>9, <1>10

\* An enumeration counts the node; another search need not keep it.
LEMMA ChildMoves ==
    ASSUME Shape, NEW w \in Worker, NEW n \in Node, AtMostOne(Claims(n)), ProcessChild(w)
    PROVE  Moved(n)
<1>1. /\ ProcessInv /\ ret \in [Worker -> Answers] /\ Process(w)
      /\ UNCHANGED <<manager_vars, stack, stolen, search_vars>>
  BY StateTyped DEF Shape, ProcessChild
<1>2. /\ pc[w] \in Acting \cup {"process"} /\ UNCHANGED <<child, answer, taskBuffer, counted>>
  BY <1>1, ProcessPlace DEF manager_vars, thief_vars, search_vars
<1>3. PICK p \in Acting \cup {"answered"} : Goto(w, p)
  BY <1>1, ProcessPlace
<1>4. child[w] \in Node /\ acc \in [Worker -> [Node -> Nat]]
  BY <1>2, StateTyped DEF Shape, ProcessInv, InHand, Acting
<1>5. \A v \in Worker \ {w} : acc'[v] = acc[v]
  <2>1. CASE Kind = "Enumeration"
    BY <1>1, <1>4, <2>1, CountingStep DEF ProcessCounted
  <2>2. CASE Kind # "Enumeration"
    BY <1>1, <2>2, CountingStep
  <2> QED
    BY <2>1, <2>2
<1>6. pc'[w] = p /\ \A v \in Worker \ {w} : Aside(v)
  BY <1>1, <1>2, <1>3, <1>5, AsideWhen
<1>7. /\ Walking(w) /\ Walking(w)' /\ InTransit(w)' = InTransit(w)
      /\ n \in Hand(w)' <=> n \in Below(child[w])
      /\ n \in Hand(w) <=> n \in IF pc[w] = "process" THEN Subtree(child[w]) ELSE Below(child[w])
  <2>1. Hand(w)' = Below(child[w])
    BY <1>2, <1>6 DEF Hand, Acting, ProcessPlaces
  <2>2. Hand(w) = IF pc[w] = "process" THEN Subtree(child[w]) ELSE Below(child[w])
    BY <1>2 DEF Hand, Acting, ProcessPlaces
  <2> QED
    BY <1>2, <1>6, <2>1, <2>2 DEF Walking, Thieving, Acting, InTransit
<1>8. PICK A, B, keep : /\ A = Held(w, n) /\ B = Held(w, n)'
                        /\ keep = (Kind = "Enumeration" /\ n \in Space)
  OBVIOUS
<1>9. CASE Kind # "Enumeration"
  <2>1. acc' = acc /\ (n \in Hand(w)' => n \in Hand(w))
    BY <1>1, <1>7, <1>9, CountingStep DEF Subtree
  <2>2. B \subseteq A
    BY <1>1, <1>7, <1>8, <2>1, HeldLess
  <2>3. MovesTo(A, B, keep)
    BY <1>8, <1>9, <2>2, MovesLess
  <2> QED
    BY <1>2, <1>6, <1>8, <2>3, AloneMoves
<1>10. CASE Kind = "Enumeration"
  <2>1. ProcessCounted(w)
    BY <1>1, <1>10, CountingStep
  <2>2. /\ pc[w] = "process"
        /\ acc'[w][n] = IF n = child[w] THEN acc[w][n] + 1 ELSE acc[w][n]
    BY <1>4, <2>1 DEF ProcessCounted
  <2>3. CASE n # child[w]
    <3>1. n \in Hand(w)' <=> n \in Hand(w)
      BY <1>7, <2>2, <2>3 DEF Subtree
    <3>2. B = A
      BY <1>1, <1>7, <1>8, <2>2, <2>3, <3>1, HeldAgain
    <3>3. MovesTo(A, B, keep)
      BY <3>2, MovesLess
    <3> QED
      BY <1>2, <1>6, <1>8, <3>3, AloneMoves
  <2>4. CASE n = child[w]
    <3>1. PICK x, d : x = <<"child", w, 0>> /\ d = <<"acc", w, 1>>
      OBVIOUS
    <3>2. x \in A /\ AtMostOne(A) /\ x \in Claims(n)
      BY <1>7, <1>8, <2>2, <2>4, <3>1, HeldNames, PartOnce DEF Subtree
    <3>3. acc[w][n] = 0 /\ acc'[w][n] = 1
      <4>1. 1 \notin 1..acc[w][n]
        BY <3>1, <3>2, OnlyClaim
      <4>2. acc[w][n] \in Nat
        BY <1>4
      <4> QED
        BY <2>2, <2>4, <4>1, <4>2
    <3>4. n \notin Below(child[w])
      BY <2>4, NodeTyped DEF Below
    <3>5. \A y : y \in B <=>
             \/ \E i \in FramesWith(stack[w], n) : y = <<"frame", w, i>>
             \/ \E i \in TasksWith(InTransit(w), n) : y = <<"answer", w, i>>
             \/ \E i \in 1..1 : y = <<"acc", w, i>>
      BY <1>1, <1>7, <1>8, <3>3, <3>4 DEF Held
    <3>6. /\ FramesWith(stack[w], n) = {} /\ TasksWith(InTransit(w), n) = {}
      BY <1>7, <3>1, <3>2, OnlyClaim
    <3>7. d \in B /\ B \subseteq {d}
      BY <3>1, <3>5, <3>6
    <3>8. Alive(d) => Alive(x)
      BY <3>1 DEF Alive
    <3>9. MovesTo(A, B, keep)
      BY <3>2, <3>7, <3>8, MovesOne
    <3> QED
      BY <1>2, <1>6, <1>8, <3>9, AloneMoves
  <2> QED
    BY <2>3, <2>4
<1> QED
  BY <1>9, <1>10

\* The walk goes down, but not past the depth limit.
LEMMA ContinueMoves ==
    ASSUME Shape, NEW w \in Worker, NEW n \in Node, AtMostOne(Claims(n)), Continue(w)
    PROVE  Moved(n)
<1>1. /\ UNCHANGED <<child, acc, answer, taskBuffer, counted>> /\ Goto(w, "loop")
      /\ pc[w] = "answered" /\ ret[w] = "Continue"
  BY DEF Continue, manager_vars, thief_vars, search_vars
<1>2. PICK s, t, c : s = stack[w] /\ t = stack'[w] /\ c = child[w]
  OBVIOUS
<1>3. /\ s \in Seq(Frames) /\ c \in Node /\ Running(w)
      /\ \A v \in Worker \ {w} : stack'[v] = stack[v]
      /\ IF DepthLimited /\ Len(c) + 1 = maxDepth THEN t = s ELSE t = Append(s, <<c, 1>>)
  BY <1>2, ContinueStack, StateTyped
<1>4. pc'[w] = "loop" /\ \A v \in Worker \ {w} : Aside(v)
  BY <1>1, <1>3, AsideWhen
<1>5. /\ Walking(w) /\ Walking(w)' /\ InTransit(w)' = InTransit(w)
      /\ ~ n \in Hand(w)' /\ (n \in Hand(w) <=> n \in Below(c))
  <2>1. Hand(w)' = {} /\ Hand(w) = Below(c)
    BY <1>1, <1>2, <1>4 DEF Hand, ProcessPlaces
  <2> QED
    BY <1>1, <1>4, <2>1 DEF Walking, Thieving, InTransit
<1>6. PICK A, B, keep : /\ A = Held(w, n) /\ B = Held(w, n)'
                        /\ keep = (Kind = "Enumeration" /\ n \in Space)
  OBVIOUS
<1>7. CASE DepthLimited /\ Len(c) + 1 = maxDepth
  <2>1. B \subseteq A
    BY <1>1, <1>2, <1>3, <1>5, <1>6, <1>7, HeldLess
  <2>2. n \in Below(c) => n \notin Space
    BY <1>3, <1>7, NodeTyped DEF Below, Space
  <2>3. keep => A \subseteq B
    BY <1>1, <1>2, <1>3, <1>5, <1>6, <1>7, <2>2, HeldKept
  <2>4. MovesTo(A, B, keep)
    BY <2>1, <2>3, MovesLess
  <2> QED
    BY <1>1, <1>4, <1>6, <2>4, AloneMoves
<1>8. CASE ~ (DepthLimited /\ Len(c) + 1 = maxDepth)
  <2>1. t = Append(s, <<c, 1>>)
    BY <1>3, <1>8
  <2>2. /\ t \in Seq(Frames) /\ Len(t) = Len(s) + 1 /\ Len(s) \in Nat
        /\ \A i \in 1..Len(s) : FrameHas(t, i, n) <=> FrameHas(s, i, n)
        /\ FrameHas(t, Len(s) + 1, n) <=> n \in Below(c)
    BY <1>3, <2>1, PushFrame
  <2>3. \A i : i \in FramesWith(t, n) <=>
           i \in FramesWith(s, n) \/ (i = Len(s) + 1 /\ n \in Below(c))
    <3>1. /\ \A i : i \in FramesWith(s, n) <=> i \in 1..Len(s) /\ FrameHas(s, i, n)
          /\ \A i : i \in FramesWith(t, n) <=> i \in 1..Len(t) /\ FrameHas(t, i, n)
      BY <1>3, <2>2, FramesAre
    <3> QED
      BY <2>2, <3>1
  <2>4. CASE n \notin Below(c)
    <3>1. FramesWith(t, n) = FramesWith(s, n)
      <4>1. \A i : i \in FramesWith(t, n) <=> i \in FramesWith(s, n)
        BY <2>3, <2>4
      <4> QED
        BY <4>1, Zenon
    <3>2. B = A
      BY <1>1, <1>2, <1>5, <1>6, <2>4, <3>1, HeldAgain
    <3>3. MovesTo(A, B, keep)
      BY <3>2, MovesLess
    <3> QED
      BY <1>1, <1>4, <1>6, <3>3, AloneMoves
  <2>5. CASE n \in Below(c)
    <3>1. PICK x, d : x = <<"child", w, 0>> /\ d = <<"frame", w, Len(s) + 1>>
      OBVIOUS
    <3>2. x \in A /\ AtMostOne(A) /\ x \in Claims(n)
      BY <1>5, <1>6, <2>5, <3>1, HeldNames, PartOnce
    <3>3. \A y : y \in B <=>
             \/ \E i \in FramesWith(t, n) : y = <<"frame", w, i>>
             \/ \E i \in TasksWith(InTransit(w), n) : y = <<"answer", w, i>>
             \/ \E i \in 1..acc[w][n] : y = <<"acc", w, i>>
      BY <1>1, <1>2, <1>5, <1>6 DEF Held
    <3>4. /\ FramesWith(s, n) = {} /\ TasksWith(InTransit(w), n) = {} /\ 1..acc[w][n] = {}
      BY <1>2, <1>5, <3>1, <3>2, OnlyClaim
    <3>5. d \in B /\ B \subseteq {d}
      BY <2>3, <2>5, <3>1, <3>3, <3>4
    <3>6. Alive(d) => Alive(x)
      BY <3>1 DEF Alive
    <3>7. MovesTo(A, B, keep)
      BY <3>2, <3>5, <3>6, MovesOne
    <3> QED
      BY <1>1, <1>4, <1>6, <3>7, AloneMoves
  <2> QED
    BY <2>4, <2>5
<1> QED
  BY <1>7, <1>8

\* The registry takes over what the task has counted.
LEMMA UpdateMoves ==
    ASSUME Shape, NEW w \in Worker, NEW n \in Node, AtMostOne(Claims(n)), UpdateEnumerator(w)
    PROVE  Moved(n)
<1>1. /\ pc[w] = "count" /\ Goto(w, "unregister")
      /\ UNCHANGED <<child, answer, stack, taskBuffer>>
      /\ counted' = [m \in Node |-> counted[m] + acc[w][m]]
      /\ acc' = [acc EXCEPT ![w] = Zero]
  BY DEF UpdateEnumerator, manager_vars, thief_vars
<1>2. /\ acc[w][n] \in Nat /\ counted[n] \in Nat /\ acc'[w][n] = 0
      /\ counted'[n] = counted[n] + acc[w][n]
      /\ \A v \in Worker \ {w} : acc'[v] = acc[v]
  BY <1>1, StateTyped DEF Zero
<1>3. pc'[w] = "unregister" /\ \A v \in Worker \ {w} : Aside(v)
  BY <1>1, <1>2, AsideWhen
<1>4. /\ ~ Walking(w) /\ ~ Walking(w)' /\ InTransit(w)' = InTransit(w)
      /\ n \notin Hand(w) /\ ~ n \in Hand(w)'
  BY <1>1, <1>3 DEF Walking, Hand, ProcessPlaces, InTransit
<1>5. PICK A, B, keep : /\ A = Part({w}, n) /\ B = Part({w}, n)'
                        /\ keep = (Kind = "Enumeration" /\ n \in Space)
  OBVIOUS
<1>6. A = Shared(n) \cup Held(w, n) /\ B = Shared(n)' \cup Held(w, n)'
  BY <1>5 DEF Part
<1>7. \A v \in Worker \ {w} : Held(v, n)' = Held(v, n)
  BY <1>3, AsideHolds
<1>8. CASE acc[w][n] = 0
  <2>1. Held(w, n)' = Held(w, n)
    BY <1>1, <1>2, <1>4, <1>8, HeldAgain
  <2>2. Shared(n)' = Shared(n)
    BY <1>1, <1>2, <1>8 DEF Shared, Buffered
  <2>3. MovesTo(A, B, keep)
    BY <1>6, <2>1, <2>2, MovesLess
  <2> QED
    BY <1>5, <1>7, <2>3, PartMoves
<1>9. CASE acc[w][n] # 0
  <2>1. PICK x, d : x = <<"acc", w, 1>> /\ d = <<"counted", 0, 1>>
    OBVIOUS
  <2>2. x \in A /\ AtMostOne(A) /\ x \in Claims(n)
    <3>1. 1 \in 1..acc[w][n]
      BY <1>2, <1>9
    <3>2. x \in Held(w, n)
      BY <2>1, <3>1, HeldNames
    <3>3. AtMostOne(A) /\ A \subseteq Claims(n)
      <4>1. {w} \in SUBSET Worker
        OBVIOUS
      <4> QED
        BY <1>5, <4>1, PartOnce
    <3> QED
      BY <1>6, <3>2, <3>3
  <2>3. acc[w][n] = 1
    <3>1. 2 \notin 1..acc[w][n]
      BY <2>1, <2>2, OnlyClaim
    <3> QED
      BY <1>2, <1>9, <3>1
  <2>4. counted[n] = 0 /\ counted'[n] = 1
    <3>1. 1 \notin 1..counted[n]
      BY <2>1, <2>2, OnlyClaim
    <3> QED
      BY <1>2, <2>3, <3>1
  <2>5. /\ \A l \in Locality : TasksWith(taskBuffer[l], n) = {}
        /\ TasksWith(InTransit(w), n) = {}
    BY <2>1, <2>2, OnlyClaim
  <2>6. Held(w, n)' = {}
    BY <1>1, <1>2, <1>4, <2>5 DEF Held
  <2>7. \A y : y \in Shared(n)' <=> y = d
    <3>1. \A y : y \in Shared(n)' <=>
             \/ \E l \in Locality : \E i \in TasksWith(taskBuffer[l], n) : y = <<"buffer", l, i>>
             \/ \E i \in 1..1 : y = <<"counted", 0, i>>
      BY <1>1, <2>4 DEF Shared, Buffered
    <3> QED
      BY <2>1, <2>5, <3>1
  <2>8. d \in B /\ B \subseteq {d}
    BY <1>6, <2>6, <2>7
  <2>9. Alive(d) => Alive(x)
    BY <2>1 DEF Alive
  <2>10. MovesTo(A, B, keep)
    BY <2>2, <2>8, <2>9, MovesOne
  <2> QED
    BY <1>5, <1>7, <2>10, PartMoves
<1> QED
  BY <1>8, <1>9

\* The end of a steal brings nothing.
LEMMA UnregisterMoves ==
    ASSUME Shape, NEW w \in Worker, NEW n, Unregister(w)
    PROVE  Moved(n)
<1>1. /\ pc[w] = "unregister" /\ Goto(w, "idle") /\ UNCHANGED <<acc, taskBuffer, counted>>
      /\ stack' = [stack EXCEPT ![w] = <<>>] /\ child' = [child EXCEPT ![w] = NoNode]
  BY DEF Unregister, search_vars
<1>2. \A v \in Worker : InTransit(v)' = InTransit(v)
  <2>1. \A v \in Worker : answer'[v] = answer[v] \/ (answer[v] = None /\ answer'[v] = NoSteal)
    BY UnregisterTables, SendEnd
  <2> QED
    BY <2>1 DEF InTransit
<1>3. /\ pc'[w] = "idle" /\ \A v \in Worker \ {w} : Aside(v)
  BY <1>1, <1>2, StateTyped DEF Goto, Aside
<1>4. /\ ~ Walking(w) /\ ~ Walking(w)' /\ n \notin Hand(w) /\ ~ n \in Hand(w)'
  BY <1>1, <1>3 DEF Walking, Hand, ProcessPlaces, Thieving
<1>5. PICK A, B, keep : /\ A = Held(w, n) /\ B = Held(w, n)'
                        /\ keep = (Kind = "Enumeration" /\ n \in Space)
  OBVIOUS
<1>6. B = A
  BY <1>1, <1>2, <1>4, <1>5, HeldAgain
<1>7. MovesTo(A, B, keep)
  BY <1>6, MovesLess
<1> QED
  BY <1>1, <1>3, <1>5, <1>7, AloneMoves

\* A thief that goes on as a thief.
LEMMA IdleMoves ==
    ASSUME Shape, NEW w \in Worker, NEW n, NEW p \in Thieving, Goto(w, p), pc[w] \in Thieving,
           UNCHANGED <<child, acc, stack, taskBuffer, counted>>,
           InTransit(w)' = InTransit(w),
           \A v \in Worker \ {w} : answer'[v] = answer[v]
    PROVE  Moved(n)
<1>1. pc'[w] = p /\ \A v \in Worker \ {w} : Aside(v)
  BY AsideWhen
<1>2. /\ ~ Walking(w) /\ ~ Walking(w)' /\ n \notin Hand(w) /\ ~ n \in Hand(w)'
  BY <1>1 DEF Walking, Hand, ProcessPlaces, Thieving
<1>3. PICK A, B, keep : /\ A = Held(w, n) /\ B = Held(w, n)'
                        /\ keep = (Kind = "Enumeration" /\ n \in Space)
  OBVIOUS
<1>4. B = A
  BY <1>2, <1>3, HeldAgain
<1>5. MovesTo(A, B, keep)
  BY <1>4, MovesLess
<1> QED
  BY <1>1, <1>3, <1>5, AloneMoves

LEMMA NoTransit ==
    ASSUME NEW w \in Worker, answer[w] \in {None, NoSteal}
    PROVE  InTransit(w) = <<>>
BY DEF InTransit

LEMMA ThiefMoves ==
    ASSUME Shape, NEW w \in Worker, NEW n,
           \/ Loop(w) \/ NoWork(w) \/ AskRemote(w) \/ RefuseRemote(w) \/ AskLocal(w)
           \/ ServeRemote(w) \/ AnswerRemote(w)
    PROVE  Moved(n)
<1>1. /\ pc[w] \in Thieving /\ UNCHANGED <<child, acc, stack, taskBuffer, counted>>
      /\ home[w] \in Locality
  BY StateTyped DEF Loop, NoWork, AskRemote, RefuseRemote, AskLocal, ServeRemote, AnswerRemote,
     Thieving, manager_vars, search_vars
<1>2. CASE Loop(w) \/ NoWork(w) \/ AskRemote(w)
  <2>1. UNCHANGED answer /\ \E p \in {"gone", "get", "idle", "ask"} : Goto(w, p)
    BY <1>2 DEF Loop, NoWork, AskRemote, manager_vars, thief_vars
  <2>2. PICK p \in Thieving : Goto(w, p)
    BY <2>1 DEF Thieving
  <2>3. InTransit(w)' = InTransit(w)
    BY <2>1 DEF InTransit
  <2> QED
    BY <1>1, <2>1, <2>2, <2>3, IdleMoves
<1>3. CASE RefuseRemote(w)
  <2>1. pc[w] = "ask" /\ answer' = [answer EXCEPT ![w] = <<>>] /\ Goto(w, "told")
    BY <1>3 DEF RefuseRemote
  <2>2. answer[w] = None /\ answer'[w] = <<>>
    BY <2>1, ManagerParts DEF Shape, Placed
  <2>3. InTransit(w)' = InTransit(w)
    BY <2>2 DEF InTransit
  <2>4. "told" \in Thieving /\ \A v \in Worker \ {w} : answer'[v] = answer[v]
    BY <2>1 DEF Thieving
  <2> QED
    BY <1>1, <2>1, <2>3, <2>4, IdleMoves
<1>4. CASE AskLocal(w) \/ ServeRemote(w)
  <2>1. PICK l \in Locality : Request(w, l)
    BY <1>1, <1>4, ManagerParts DEF AskLocal, ServeRemote, Victims
  <2>2. PICK s \in Node : answer' = [answer EXCEPT ![w] = channel[s]] /\ Goto(w, "await")
    BY <2>1, RequestTables
  <2>3. /\ answer'[w] \in {None, NoSteal} /\ answer[w] = None
        /\ \A v \in Worker \ {w} : answer'[v] = answer[v]
    BY <1>4, <2>2, ManagerParts DEF AskLocal, ServeRemote, Shape, Placed
  <2>4. InTransit(w)' = InTransit(w) /\ "await" \in Thieving
    BY <2>3 DEF InTransit, Thieving
  <2> QED
    BY <1>1, <2>2, <2>3, <2>4, IdleMoves
<1>5. CASE AnswerRemote(w)
  <2>1. /\ answer[w] # None /\ answer' = [answer EXCEPT ![w] = Stolen(w)] /\ Goto(w, "told")
    BY <1>5 DEF AnswerRemote
  <2>2. answer'[w] = Stolen(w) /\ \A v \in Worker \ {w} : answer'[v] = answer[v]
    BY <2>1, ManagerParts
  <2>3. InTransit(w)' = InTransit(w) /\ "told" \in Thieving
    BY <2>1, <2>2, NothingElse DEF InTransit, Stolen, Thieving
  <2> QED
    BY <1>1, <2>1, <2>2, <2>3, IdleMoves
<1> QED
  BY <1>2, <1>3, <1>4, <1>5

LEMMA RestMoves ==
    ASSUME NEW n, RootReady \/ Return \/ Deliver \/ UNCHANGED vars
    PROVE  Moved(n)
<1>1. UNCHANGED <<pc, child, stack, acc, answer, taskBuffer, counted>>
  BY DEF RootReady, Return, Deliver, Receive, ReceiveBound, ReceiveStop, vars,
     process_vars, manager_vars, thief_vars, search_vars
<1>2. \A v \in Worker : Aside(v)
  BY <1>1 DEF Aside, InTransit
<1>3. PICK A, B, keep : /\ A = Part({}, n) /\ B = Part({}, n)'
                        /\ keep = (Kind = "Enumeration" /\ n \in Space)
  OBVIOUS
<1>4. Shared(n)' = Shared(n)
  BY <1>1 DEF Shared, Buffered
<1>5. B = A
  BY <1>3, <1>4 DEF Part
<1>6. MovesTo(A, B, keep)
  BY <1>5, MovesLess
<1>7. {} \in SUBSET Worker /\ \A v \in Worker \ {} : Held(v, n)' = Held(v, n)
  BY <1>2, AsideHolds
<1> QED
  BY <1>3, <1>6, <1>7, PartMoves

\* The first children that a frame has left are given away.
LEMMA HandedFrame ==
    ASSUME NEW s \in Seq(Frames), NEW t \in Seq(Frames), NEW i \in 1..Len(s),
           NEW k \in 1..Len(Rest(s[i])), Handed(s, t, i, k), NEW n
    PROVE  /\ \A j \in 1..Len(s) : j # i => (FrameHas(t, j, n) <=> FrameHas(s, j, n))
           /\ \A j \in 1..k : n \in Subtree(Rest(s[i])[j]) =>
                 /\ FrameHas(s, i, n) /\ ~ FrameHas(t, i, n)
                 /\ \A e \in 1..k : n \in Subtree(Rest(s[i])[e]) => e = j
           /\ (\A j \in 1..k : n \notin Subtree(Rest(s[i])[j])) =>
                 (FrameHas(t, i, n) <=> FrameHas(s, i, n))
<1>1. PICK m, q : m = s[i][1] /\ q = s[i][2]
  OBVIOUS
<1>2. s[i] \in Frames
  BY ElementOfSeq
<1>3. /\ m \in Node /\ q \in Nat \ {0} /\ numChildren(m) \in Nat
      /\ q <= numChildren(m) /\ Len(Rest(s[i])) = numChildren(m) - q + 1
      /\ k \in Nat \ {0} /\ q + k - 1 <= numChildren(m)
      /\ \A j \in 1..k : Rest(s[i])[j] = Child(m, q + j - 1)
  <2>1. /\ m \in Node /\ q \in Nat \ {0} /\ numChildren(m) \in Nat
        /\ Len(Rest(s[i])) = IF q <= numChildren(m) THEN numChildren(m) - q + 1 ELSE 0
        /\ \A j \in 1..Len(Rest(s[i])) : Rest(s[i])[j] = Child(m, q + j - 1)
    BY <1>1, <1>2, RestTyped
  <2>2. q <= numChildren(m)
    BY <2>1
  <2> QED
    BY <2>1, <2>2
<1>4. /\ FrameHas(s, i, n) <=> \E j \in 1..numChildren(m) : j >= q /\ n \in Subtree(Child(m, j))
      /\ FrameHas(t, i, n) <=> \E j \in 1..numChildren(m) : j >= q + k /\ n \in Subtree(Child(m, j))
  BY <1>1 DEF FrameHas, Handed, Advanced
<1>5. ASSUME NEW j \in 1..k, n \in Subtree(Rest(s[i])[j])
      PROVE  /\ FrameHas(s, i, n) /\ ~ FrameHas(t, i, n)
             /\ \A e \in 1..k : n \in Subtree(Rest(s[i])[e]) => e = j
  <2>1. /\ q + j - 1 \in 1..numChildren(m) /\ q + j - 1 >= q /\ q + j - 1 < q + k
        /\ n \in Subtree(Child(m, q + j - 1))
    <3>1. n \in Subtree(Child(m, q + j - 1))
      BY <1>3, <1>5
    <3>2. j \in Nat \ {0} /\ j <= k
      BY <1>3
    <3> QED
      BY <1>3, <3>1, <3>2
  <2>2. \A e \in 1..numChildren(m) : n \in Subtree(Child(m, e)) => e = q + j - 1
    BY <1>3, <2>1, SiblingsDisjoint
  <2>3. FrameHas(s, i, n)
    BY <1>4, <2>1
  <2>4. ~ FrameHas(t, i, n)
    BY <1>3, <1>4, <2>1, <2>2
  <2>5. \A e \in 1..k : n \in Subtree(Rest(s[i])[e]) => e = j
    <3> SUFFICES ASSUME NEW e \in 1..k, n \in Subtree(Rest(s[i])[e]) PROVE e = j
      OBVIOUS
    <3>1. n \in Subtree(Child(m, q + e - 1))
      BY <1>3
    <3>2. q + e - 1 \in 1..numChildren(m)
      BY <1>3
    <3>3. q + e - 1 = q + j - 1
      BY <2>2, <3>1, <3>2
    <3> QED
      BY <1>3, <3>3
  <2> QED
    BY <2>3, <2>4, <2>5
<1>6. ASSUME \A j \in 1..k : n \notin Subtree(Rest(s[i])[j]), FrameHas(s, i, n)
      PROVE  FrameHas(t, i, n)
  <2>1. PICK j \in 1..numChildren(m) : j >= q /\ n \in Subtree(Child(m, j))
    BY <1>4, <1>6
  <2>2. ASSUME j < q + k PROVE FALSE
    <3>1. j - q + 1 \in 1..k /\ q + (j - q + 1) - 1 = j
      BY <1>3, <2>1, <2>2
    <3>2. Rest(s[i])[j - q + 1] = Child(m, j)
      BY <1>3, <3>1
    <3> QED
      BY <1>6, <2>1, <3>1, <3>2
  <2>3. j >= q + k
    BY <1>3, <2>2
  <2> QED
    BY <1>4, <2>1, <2>3
<1>7. FrameHas(t, i, n) => FrameHas(s, i, n)
  BY <1>3, <1>4
<1>8. \A j \in 1..Len(s) : j # i => (FrameHas(t, j, n) <=> FrameHas(s, j, n))
  BY DEF FrameHas, Handed
<1> QED
  BY <1>5, <1>6, <1>7, <1>8

LEMMA ReplyMoves ==
    ASSUME Shape, Steals, NEW w \in Worker, NEW n \in Node, AtMostOne(Claims(n)), Reply(w)
    PROVE  Moved(n)
<1>1. /\ pc[w] = "loop" /\ Goto(w, "lower") /\ Running(w)
      /\ UNCHANGED <<child, acc, taskBuffer, counted>>
  BY DEF Reply, Running, Thieving, search_vars
<1>2. PICK u \in Worker :
         /\ u # w /\ Waits(u, TaskOf(w)) /\ answer[u] = None
         /\ answer' = [answer EXCEPT ![u] = answer'[u]]
         /\ \/ Rich(w) = {} /\ answer'[u] = <<>> /\ UNCHANGED stack
            \/ /\ Rich(w) # {}
               /\ LET i == Shallowest(w)
                      k == IF stealAll THEN Len(Rest(stack[w][i])) ELSE 1
                  IN  /\ answer'[u] = SubSeq(Rest(stack[w][i]), 1, k)
                      /\ stack' = [stack EXCEPT ![w][i][2] = @ + k]
  <2>1. PICK u \in Worker :
           /\ u # w /\ Waits(u, TaskOf(w)) /\ answer[u] = None
           /\ answer' = [answer EXCEPT ![u] = answer'[u]]
           /\ \/ Rich(w) = {} /\ answer'[u] = <<>> /\ UNCHANGED <<stack, stolen>>
              \/ /\ Rich(w) # {}
                 /\ LET i == Shallowest(w)
                        k == IF stealAll THEN Len(Rest(stack[w][i])) ELSE 1
                    IN  /\ answer'[u] = SubSeq(Rest(stack[w][i]), 1, k)
                        /\ stack' = [stack EXCEPT ![w][i][2] = @ + k]
                        /\ stolen' = stolen \cup Range(answer'[u])
    BY ReplySends
  <2> QED
    BY <2>1
<1>3. /\ pc'[w] = "lower" /\ \A v \in Worker \ {w} : pc'[v] = pc[v]
      /\ \A v \in Worker \ {u} : answer'[v] = answer[v] /\ InTransit(v)' = InTransit(v)
      /\ InTransit(u) = <<>>
  BY <1>1, <1>2, StateTyped, ManagerParts, NoTransit DEF Goto, InTransit
<1>4. /\ Walking(w) /\ Walking(w)' /\ n \notin Hand(w) /\ ~ n \in Hand(w)'
      /\ ~ Walking(u) /\ ~ Walking(u)' /\ n \notin Hand(u) /\ ~ n \in Hand(u)'
  BY <1>1, <1>2, <1>3 DEF Walking, Hand, ProcessPlaces, Thieving, Waits
<1>5. CASE Rich(w) = {}
  <2>1. UNCHANGED stack /\ answer'[u] = <<>>
    BY <1>2, <1>5
  <2>2. \A v \in Worker : InTransit(v)' = InTransit(v)
    BY <1>3, <2>1 DEF InTransit
  <2>3. \A v \in Worker \ {w} : Aside(v)
    BY <1>1, <1>3, <2>1, <2>2 DEF Aside
  <2>4. PICK A, B, keep : /\ A = Held(w, n) /\ B = Held(w, n)'
                          /\ keep = (Kind = "Enumeration" /\ n \in Space)
    OBVIOUS
  <2>5. B = A
    BY <1>1, <1>4, <2>1, <2>2, <2>4, HeldAgain
  <2>6. MovesTo(A, B, keep)
    BY <2>5, MovesLess
  <2> QED
    BY <1>1, <2>3, <2>4, <2>6, AloneMoves
<1>6. CASE Rich(w) # {}
  <2>1. PICK i \in Nat, k \in Nat :
           /\ i \in 1..Len(stack[w]) - 1 /\ k \in 1..Len(Rest(stack[w][i]))
           /\ answer'[u] = SubSeq(Rest(stack[w][i]), 1, k)
           /\ stack' \in [Worker -> Seq(Frames)] /\ Len(stack'[w]) = Len(stack[w])
           /\ Handed(stack[w], stack'[w], i, k)
           /\ \A v \in Worker \ {w} : stack'[v] = stack[v]
           /\ SubSeq(Rest(stack[w][i]), 1, k) \in Seq(Node)
           /\ Len(SubSeq(Rest(stack[w][i]), 1, k)) = k
           /\ \A j \in 1..k : SubSeq(Rest(stack[w][i]), 1, k)[j] = Rest(stack[w][i])[j]
    <3>1. PICK i \in Nat, k \in Nat : /\ i = Shallowest(w)
                                      /\ k = IF stealAll THEN Len(Rest(stack[w][i])) ELSE 1
                                      /\ i \in 1..Len(stack[w]) - 1 /\ k \in 1..Len(Rest(stack[w][i]))
      BY <1>1, <1>6, GivesSome
    <3>2. answer'[u] = SubSeq(Rest(stack[w][i]), 1, k) /\ Handing(w, i, k)
      BY <1>2, <1>6, <3>1 DEF Handing
    <3>4. i \in 1..Len(stack[w]) - 1 /\ k \in 1..Len(Rest(stack[w][i]))
      BY <3>1
    <3>3. /\ stack' \in [Worker -> Seq(Frames)] /\ Len(stack'[w]) = Len(stack[w])
          /\ \A v \in Worker \ {w} : stack'[v] = stack[v]
      BY <1>1, <3>2, <3>4, ReplyStack
    <3>5. Handed(stack[w], stack'[w], i, k)
      BY <1>1, <3>2, <3>4, ReplyStack DEF Handed
    <3>7. /\ SubSeq(Rest(stack[w][i]), 1, k) \in Seq(Node)
          /\ Len(SubSeq(Rest(stack[w][i]), 1, k)) = k
          /\ \A j \in 1..k : SubSeq(Rest(stack[w][i]), 1, k)[j] = Rest(stack[w][i])[j]
      BY <1>1, <3>2, <3>4, ReplyStack
    <3> QED
      BY <3>2, <3>3, <3>4, <3>5, <3>7
  <2>2. PICK s, t, H : s = stack[w] /\ t = stack'[w] /\ H = answer'[u]
    OBVIOUS
  <2>3. H = SubSeq(Rest(s[i]), 1, k)
    BY <2>1, <2>2
  <2>4. /\ stack' \in [Worker -> Seq(Frames)] /\ Len(t) = Len(s)
        /\ i \in 1..Len(s) - 1 /\ k \in 1..Len(Rest(s[i]))
        /\ Handed(s, t, i, k)
        /\ \A v \in Worker \ {w} : stack'[v] = stack[v]
        /\ SubSeq(Rest(s[i]), 1, k) \in Seq(Node) /\ Len(SubSeq(Rest(s[i]), 1, k)) = k
        /\ \A j \in 1..k : SubSeq(Rest(s[i]), 1, k)[j] = Rest(s[i])[j]
    BY <2>1, <2>2
  <2>5. /\ s \in Seq(Frames) /\ t \in Seq(Frames) /\ i \in 1..Len(s) /\ Len(s) \in Nat
        /\ H \in Seq(Node) /\ Len(H) = k /\ \A j \in 1..k : H[j] = Rest(s[i])[j]
    BY <1>1, <2>2, <2>3, <2>4, StateTyped, FrameTyped
  <2>6. /\ \A j \in 1..Len(s) : j # i => (FrameHas(t, j, n) <=> FrameHas(s, j, n))
        /\ \A j \in 1..k : n \in Subtree(Rest(s[i])[j]) =>
              /\ FrameHas(s, i, n) /\ ~ FrameHas(t, i, n)
              /\ \A e \in 1..k : n \in Subtree(Rest(s[i])[e]) => e = j
        /\ (\A j \in 1..k : n \notin Subtree(Rest(s[i])[j])) =>
              (FrameHas(t, i, n) <=> FrameHas(s, i, n))
    <3>1. s \in Seq(Frames) /\ t \in Seq(Frames) /\ i \in 1..Len(s)
      BY <2>4, <2>5
    <3>2. k \in 1..Len(Rest(s[i])) /\ Handed(s, t, i, k)
      BY <2>4
    <3> QED
      BY <3>1, <3>2, HandedFrame
  <2>7. /\ \A j : j \in FramesWith(s, n) <=> j \in 1..Len(s) /\ FrameHas(s, j, n)
        /\ \A j : j \in FramesWith(t, n) <=> j \in 1..Len(s) /\ FrameHas(t, j, n)
    BY <2>4, <2>5, FramesAre
  <2>8. InTransit(u)' = H /\ \A j : j \in TasksWith(H, n) <=> j \in 1..k /\ n \in Subtree(H[j])
    <3>1. InTransit(u)' = H
      BY <2>2, <2>5, NothingElse DEF InTransit
    <3>2. DOMAIN H = 1..k
      BY <2>5
    <3> QED
      BY <3>1, <3>2 DEF TasksWith
  <2>9. \A v \in Worker \ {w, u} : Held(v, n)' = Held(v, n)
    <3>1. \A v \in Worker \ {w, u} : Aside(v)
      BY <1>1, <1>3, <2>4 DEF Aside
    <3> QED
      BY <3>1, AsideHolds
  <2>10. Shared(n)' = Shared(n)
    BY <1>1 DEF Shared, Buffered
  <2>11. PICK A, B, keep : /\ A = Part({w, u}, n) /\ B = Part({w, u}, n)'
                           /\ keep = (Kind = "Enumeration" /\ n \in Space)
    OBVIOUS
  <2>12. /\ A = Shared(n) \cup Held(w, n) \cup Held(u, n)
         /\ B = Shared(n) \cup Held(w, n)' \cup Held(u, n)'
    BY <2>10, <2>11 DEF Part
  <2>13. CASE \A j \in 1..k : n \notin Subtree(H[j])
    <3>1. FramesWith(t, n) = FramesWith(s, n)
      <4>1. \A j : j \in FramesWith(t, n) <=> j \in FramesWith(s, n)
        BY <2>5, <2>6, <2>7, <2>13
      <4> QED
        BY <4>1, Zenon
    <3>2. Held(w, n)' = Held(w, n)
      BY <1>1, <1>2, <1>3, <1>4, <2>2, <3>1, HeldAgain
    <3>3. Held(u, n)' = Held(u, n)
      <4>1. TasksWith(H, n) = {} /\ TasksWith(<<>>, n) = {}
        <5>1. DOMAIN <<>> = {}
          OBVIOUS
        <5> QED
          BY <2>8, <2>13, <5>1 DEF TasksWith
      <4> QED
        BY <1>1, <1>3, <1>4, <2>8, <4>1 DEF Held
    <3>4. B = A
      BY <2>12, <3>2, <3>3
    <3>5. MovesTo(A, B, keep)
      BY <3>4, MovesLess
    <3> QED
      BY <2>9, <2>11, <3>5, PartMoves
  <2>14. ASSUME NEW j0 \in 1..k, n \in Subtree(H[j0])
         PROVE  Moved(n)
    <3>1. PICK x, d : x = <<"frame", w, i>> /\ d = <<"answer", u, j0>>
      OBVIOUS
    <3>2. n \in Subtree(Rest(s[i])[j0])
      BY <2>5, <2>14
    <3>3. i \in FramesWith(s, n)
      BY <2>5, <2>6, <2>7, <3>2
    <3>4. x \in A /\ AtMostOne(A) /\ x \in Claims(n)
      <4>1. x \in Held(w, n)
        BY <1>4, <2>2, <3>1, <3>3, HeldNames
      <4>2. AtMostOne(A) /\ A \subseteq Claims(n)
        <5>1. {w, u} \in SUBSET Worker
          OBVIOUS
        <5> QED
          BY <2>11, <5>1, PartOnce
      <4> QED
        BY <2>12, <4>1, <4>2
    <3>5. /\ \A j : j \in FramesWith(s, n) => j = i
          /\ \A v \in Worker : TasksWith(InTransit(v), n) = {} /\ 1..acc[v][n] = {}
          /\ Shared(n) = {}
      <4>1. \A j : j \in FramesWith(s, n) => j = i
        BY <1>4, <2>2, <3>1, <3>4, OnlyClaim
      <4>2. \A v \in Worker : TasksWith(InTransit(v), n) = {} /\ 1..acc[v][n] = {}
        BY <3>1, <3>4, OnlyClaim
      <4>3. \A y : y \notin Shared(n)
        BY <3>1, <3>4, OnlyClaim, SharedNames
      <4> QED
        BY <4>1, <4>2, <4>3
    <3>6. FramesWith(t, n) = {}
      BY <2>5, <2>6, <2>7, <3>2, <3>5
    <3>7. Held(w, n)' = {}
      BY <1>1, <1>2, <1>3, <1>4, <2>2, <3>5, <3>6 DEF Held
    <3>8. \A y : y \in Held(u, n)' <=> y = d
      <4>1. \A j : j \in TasksWith(H, n) <=> j = j0
        BY <2>5, <2>6, <2>8, <2>14, <3>2
      <4>2. \A y : y \in Held(u, n)' <=> \E j \in TasksWith(H, n) : y = <<"answer", u, j>>
        BY <1>1, <1>4, <2>8, <3>5 DEF Held
      <4> QED
        BY <3>1, <4>1, <4>2
    <3>9. d \in B /\ B \subseteq {d}
      BY <2>12, <3>5, <3>7, <3>8
    <3>10. Alive(d) => Alive(x)
      BY <3>1 DEF Alive
    <3>11. MovesTo(A, B, keep)
      BY <3>4, <3>9, <3>10, MovesOne
    <3> QED
      BY <2>9, <2>11, <3>11, PartMoves
  <2> QED
    BY <2>13, <2>14
<1> QED
  BY <1>5, <1>6
-----------------------------------------------------------------------------
\* What a thief waits with, and the tasks that are buffered, before it runs one.
Waiting(w, n) == {<<"answer", w, i>> : i \in TasksWith(InTransit(w), n)} \cup Buffered(n)

LEMMA BufferedNames ==
    ASSUME NEW n
    PROVE  \A c : c \in Buffered(n) <=>
              \E l \in Locality : \E i \in TasksWith(taskBuffer[l], n) : c = <<"buffer", l, i>>
<1>1. \A c : c \in UNION {{<<"buffer", l, i>> : i \in TasksWith(taskBuffer[l], n)} : l \in Locality}
             <=> \E l \in Locality : \E i \in TasksWith(taskBuffer[l], n) : c = <<"buffer", l, i>>
  OBVIOUS
<1> QED
  BY <1>1 DEF Buffered

\* The only claim of a new task that holds n.
LEMMA NewHeld ==
    ASSUME NEW w \in Worker, NEW n \in Node, NEW t \in Node,
           stack'[w] = <<<<t, 1>>>>, acc'[w] = NewAcc({t}), pc'[w] = "register",
           InTransit(w)' = <<>>, UNCHANGED tags
    PROVE  \A c : c \in Held(w, n)' <=>
              \/ n \in Below(t) /\ c = <<"frame", w, 1>>
              \/ n = t /\ Kind = "Enumeration" /\ c = <<"acc", w, 1>>
<1>1. PICK s : s = <<<<t, 1>>>>
  OBVIOUS
<1>2. /\ s \in Seq(Frames) /\ Len(s) = 1 /\ s[1] = <<t, 1>>
  <2>1. <<t, 1>> \in Frames
    BY DEF Frames
  <2> QED
    BY <1>1, <2>1
<1>3. FrameHas(s, 1, n) <=> n \in Below(t)
  <2>1. 1 \in 1..Len(s)
    BY <1>2
  <2> QED
    BY <1>2, <2>1, NewFrameHas
<1>4. \A i : i \in FramesWith(s, n) <=> i = 1 /\ n \in Below(t)
  <2>1. \A i : i \in FramesWith(s, n) <=> i \in 1..1 /\ FrameHas(s, i, n)
    BY <1>2, FramesAre
  <2>2. \A i \in 1..1 : i = 1
    OBVIOUS
  <2> QED
    BY <1>3, <2>1, <2>2
<1>5. Walking(w)' /\ ~ n \in Hand(w)'
  BY DEF Walking, Thieving, Hand, ProcessPlaces
<1>6. TasksWith(<<>>, n) = {}
  BY DEF TasksWith
<1>7. acc'[w][n] = IF Kind = "Enumeration" /\ n = t THEN 1 ELSE 0
  BY DEF NewAcc, Kind
<1>8. \A i : i \in 1..acc'[w][n] <=> i = 1 /\ Kind = "Enumeration" /\ n = t
  <2>1. 1..0 = {} /\ 1..1 = {1}
    OBVIOUS
  <2> QED
    BY <1>7, <2>1
<1>9. \A c : c \in Held(w, n)' <=>
         \/ \E i \in FramesWith(s, n) : c = <<"frame", w, i>>
         \/ \E i \in 1..acc'[w][n] : c = <<"acc", w, i>>
  BY <1>1, <1>5, <1>6 DEF Held
<1> QED
  BY <1>4, <1>8, <1>9

\* A thief has nothing in hand but the answer.
LEMMA ThiefHolds ==
    ASSUME NEW w \in Worker, NEW n \in Node, pc[w] \in Thieving, acc[w] = Zero
    PROVE  /\ \A c : c \in Held(w, n) <=> \E i \in TasksWith(InTransit(w), n) : c = <<"answer", w, i>>
           /\ Part({w}, n) = Waiting(w, n) \cup {<<"counted", 0, i>> : i \in 1..counted[n]}
<1>1. ~ Walking(w) /\ n \notin Hand(w) /\ acc[w][n] = 0 /\ 1..0 = {}
  BY DEF Walking, Hand, Thieving, ProcessPlaces, Zero
<1>2. \A c : c \in Held(w, n) <=> \E i \in TasksWith(InTransit(w), n) : c = <<"answer", w, i>>
  BY <1>1, HeldNames
<1>3. Part({w}, n) = Shared(n) \cup Held(w, n)
  BY DEF Part
<1>4. Held(w, n) = {<<"answer", w, i>> : i \in TasksWith(InTransit(w), n)}
  BY <1>2, Zenon
<1> QED
  BY <1>2, <1>3, <1>4 DEF Shared, Waiting

\* Node n was claimed by what is to be processed, and is no more.
Consumed(n) == (\E c \in Claims(n) : Alive(c)) /\ \A c \in Claims(n)' : ~ Alive(c)

\* A thief takes one of the tasks that wait, t, for its own.
LEMMA RunMoves ==
    ASSUME Shape, NEW w \in Worker, NEW n \in Node, AtMostOne(Claims(n)), pc[w] \in Thieving,
           NEW t \in Node, Run(w, t), InTransit(w)' = <<>>, UNCHANGED <<tags, child, counted>>,
           \A v \in Worker \ {w} : answer'[v] = answer[v],
           n \in Subtree(t) => Waiting(w, n) # {} /\ Buffered(n)' = {},
           n \notin Subtree(t) => MovesTo(Waiting(w, n), Buffered(n)', TRUE)
    PROVE  Moved(n) /\ (n = t => Consumed(n))
<1>1. acc[w] = Zero
  BY DEF Shape, Placed
<1>2. /\ stack'[w] = <<<<t, 1>>>> /\ acc'[w] = NewAcc({t}) /\ Goto(w, "register")
      /\ \A v \in Worker \ {w} : stack'[v] = stack[v] /\ acc'[v] = acc[v]
  BY RunState
<1>3. pc'[w] = "register" /\ \A v \in Worker \ {w} : Aside(v)
  BY <1>2, AsideWhen
<1>4. \A v \in Worker \ {w} : Held(v, n)' = Held(v, n)
  BY <1>3, AsideHolds
<1>5. PICK A, B, Q, R, C, H, keep :
         /\ A = Part({w}, n) /\ B = Part({w}, n)' /\ Q = Waiting(w, n) /\ R = Buffered(n)'
         /\ C = {<<"counted", 0, i>> : i \in 1..counted[n]} /\ H = Held(w, n)'
         /\ keep = (Kind = "Enumeration" /\ n \in Space)
  OBVIOUS
<1>6. A = Q \cup C
  BY <1>1, <1>5, ThiefHolds
<1>7. B = R \cup C \cup H
  <2>1. Shared(n)' = R \cup C
    BY <1>5 DEF Shared
  <2> QED
    BY <1>5, <2>1 DEF Part
<1>8. \A c : c \in H <=> \/ n \in Below(t) /\ c = <<"frame", w, 1>>
                         \/ n = t /\ Kind = "Enumeration" /\ c = <<"acc", w, 1>>
  BY <1>2, <1>3, <1>5, NewHeld
<1>9. AtMostOne(A) /\ A \subseteq Claims(n)
  <2>1. {w} \in SUBSET Worker
    OBVIOUS
  <2> QED
    BY <1>5, <2>1, PartOnce
<1>10. \A c \in Q : Alive(c) /\ c[1] \in {"answer", "buffer"}
  BY <1>5, BufferedNames DEF Waiting, Alive
<1>11. \A c \in C : c[1] = "counted"
  BY <1>5
<1>12. CASE n \notin Subtree(t)
  <2>1. H = {}
    <3>1. \A c : c \notin H
      BY <1>8, <1>12 DEF Subtree
    <3> QED
      BY <3>1
  <2>2. MovesTo(Q, R, TRUE)
    BY <1>5, <1>12
  <2>3. Q \cap C = {}
    BY <1>10, <1>11
  <2>4. MovesTo(Q \cup C, R \cup C, TRUE)
    BY <2>2, <2>3, MovesBeside
  <2>5. MovesTo(A, B, keep)
    BY <1>6, <1>7, <2>1, <2>4 DEF MovesTo
  <2>6. n # t
    BY <1>12 DEF Subtree
  <2> QED
    BY <1>4, <1>5, <2>5, <2>6, PartMoves
<1>13. CASE n \in Subtree(t)
  <2>1. PICK x \in Q : Alive(x) /\ x[1] \in {"answer", "buffer"}
    BY <1>5, <1>10, <1>13
  <2>2. x \in A /\ C = {} /\ R = {}
    <3>1. x \in A /\ R = {}
      BY <1>5, <1>6, <1>13
    <3>2. ASSUME NEW c \in C PROVE FALSE
      <4>1. c = x
        BY <1>6, <1>9, <3>1 DEF AtMostOne
      <4> QED
        BY <1>11, <2>1, <4>1
    <3> QED
      BY <3>1, <3>2
  <2>3. B = H
    BY <1>7, <2>2
  <2>4. ~ (n \in Below(t) /\ n = t)
    BY DEF Below
  <2>5. PICK d : d = IF n = t THEN <<"acc", w, 1>> ELSE <<"frame", w, 1>>
    OBVIOUS
  <2>6. B \subseteq {d} /\ (keep => d \in B)
    BY <1>5, <1>8, <1>13, <2>3, <2>4, <2>5 DEF Subtree
  <2>7. MovesTo(A, B, keep)
    BY <1>9, <2>1, <2>2, <2>6, MovesOne
  <2>8. Moved(n)
    <3>1. {w} \in SUBSET Worker
      OBVIOUS
    <3> QED
      BY <1>4, <1>5, <2>7, <3>1, PartMoves
  <2>9. ASSUME n = t, NEW c \in Claims(n)' PROVE ~ Alive(c)
    <3>1. c \in Shared(n)' \/ \E v \in Worker : c \in Held(v, n)'
      BY <2>9 DEF Claims
    <3>2. Shared(n)' = {}
      BY <1>5, <2>2 DEF Shared
    <3>3. ASSUME NEW v \in Worker \ {w}, c \in Held(v, n) PROVE FALSE
      <4>1. c \in Claims(n) /\ x \in Claims(n)
        BY <1>9, <2>2, <3>3 DEF Claims
      <4>2. c = x
        BY <4>1 DEF AtMostOne
      <4>3. x \in Shared(n) \/ x \in Held(w, n)
        BY <1>5, <2>2 DEF Part
      <4> QED
        BY <3>3, <4>2, <4>3, OwnersApart
    <3>4. c \in H
      BY <1>4, <1>5, <3>1, <3>2, <3>3
    <3>5. c = <<"acc", w, 1>>
      BY <1>8, <2>4, <2>9, <3>4
    <3> QED
      BY <3>5 DEF Alive
  <2>10. \E c \in Claims(n) : Alive(c)
    BY <1>9, <2>1, <2>2
  <2> QED
    BY <2>8, <2>9, <2>10 DEF Consumed
<1> QED
  BY <1>12, <1>13

\* The positions of tasks when the first is taken, and when others are queued.
LEMMA TasksTail ==
    ASSUME NEW b \in Seq(Node), b # <<>>, NEW n
    PROVE  /\ \A j : j \in TasksWith(Tail(b), n) <=> j \in Nat \ {0} /\ j + 1 \in TasksWith(b, n)
           /\ 1 \in TasksWith(b, n) <=> n \in Subtree(Head(b))
           /\ \A j \in TasksWith(b, n) : j \in Nat \ {0} /\ (j # 1 => j - 1 \in TasksWith(Tail(b), n))
<1>1. Len(b) \in Nat \ {0}
  BY EmptySeq
<1>2. DOMAIN b = 1..Len(b) /\ DOMAIN Tail(b) = 1..Len(b) - 1 /\ Head(b) = b[1]
      /\ \A j \in 1..Len(b) - 1 : Tail(b)[j] = b[j + 1]
  BY <1>1, HeadTailProperties
<1>3. \A j : j \in TasksWith(b, n) <=> j \in 1..Len(b) /\ n \in Subtree(b[j])
  BY <1>2 DEF TasksWith
<1>4. \A j : j \in TasksWith(Tail(b), n) <=> j \in 1..Len(b) - 1 /\ n \in Subtree(b[j + 1])
  BY <1>2 DEF TasksWith
<1>5. 1 \in TasksWith(b, n) <=> n \in Subtree(Head(b))
  <2>1. 1 \in 1..Len(b)
    BY <1>1
  <2> QED
    BY <1>2, <1>3, <2>1
<1>6. ASSUME NEW j \in TasksWith(Tail(b), n)
      PROVE  j \in Nat \ {0} /\ j + 1 \in TasksWith(b, n)
  <2>1. j \in 1..Len(b) - 1 /\ n \in Subtree(b[j + 1])
    BY <1>4, <1>6
  <2>2. j \in Nat \ {0} /\ j + 1 \in 1..Len(b)
    BY <1>1, <2>1
  <2> QED
    BY <1>3, <2>1, <2>2
<1>7. ASSUME NEW j \in Nat \ {0}, j + 1 \in TasksWith(b, n)
      PROVE  j \in TasksWith(Tail(b), n)
  <2>1. j + 1 \in 1..Len(b) /\ n \in Subtree(b[j + 1])
    BY <1>3, <1>7
  <2>2. j \in 1..Len(b) - 1
    BY <1>1, <2>1
  <2> QED
    BY <1>4, <2>1, <2>2
<1>8. ASSUME NEW j \in TasksWith(b, n)
      PROVE  j \in Nat \ {0} /\ (j # 1 => j - 1 \in TasksWith(Tail(b), n))
  <2>1. j \in 1..Len(b) /\ n \in Subtree(b[j])
    BY <1>3, <1>8
  <2>2. j \in Nat \ {0} /\ (j # 1 => j - 1 \in 1..Len(b) - 1 /\ (j - 1) + 1 = j)
    BY <1>1, <2>1
  <2>3. ASSUME j # 1 PROVE j - 1 \in TasksWith(Tail(b), n)
    <3>1. n \in Subtree(b[(j - 1) + 1])
      BY <2>1, <2>2, <2>3
    <3> QED
      BY <1>4, <2>2, <2>3, <3>1
  <2> QED
    BY <2>2, <2>3
<1> QED
  BY <1>5, <1>6, <1>7, <1>8

LEMMA TasksQueued ==
    ASSUME NEW b \in Seq(Node), NEW c \in Seq(Node), NEW n
    PROVE  \A j : j \in TasksWith(b \o c, n) <=>
              j \in TasksWith(b, n) \/ \E i \in TasksWith(c, n) : j = Len(b) + i
<1>1. Len(b) \in Nat /\ Len(c) \in Nat /\ DOMAIN b = 1..Len(b) /\ DOMAIN c = 1..Len(c)
  OBVIOUS
<1>2. /\ DOMAIN (b \o c) = 1..Len(b) + Len(c)
      /\ \A j \in 1..Len(b) : (b \o c)[j] = b[j]
      /\ \A j \in 1..Len(c) : (b \o c)[Len(b) + j] = c[j]
  <2>1. b \o c \in Seq(Node) /\ Len(b \o c) = Len(b) + Len(c)
        /\ \A j \in 1..Len(b) + Len(c) :
              (b \o c)[j] = IF j <= Len(b) THEN b[j] ELSE c[j - Len(b)]
    BY ConcatProperties
  <2>2. \A j \in 1..Len(b) : j \in 1..Len(b) + Len(c) /\ j <= Len(b)
    BY <1>1
  <2>3. \A j \in 1..Len(c) : /\ Len(b) + j \in 1..Len(b) + Len(c) /\ ~ Len(b) + j <= Len(b)
                             /\ (Len(b) + j) - Len(b) = j
    BY <1>1
  <2>4. \A j \in 1..Len(c) : (b \o c)[Len(b) + j] = c[(Len(b) + j) - Len(b)]
    BY <2>1, <2>3
  <2> QED
    BY <2>1, <2>2, <2>3, <2>4
<1>3. ASSUME NEW j \in TasksWith(b \o c, n)
      PROVE  j \in TasksWith(b, n) \/ \E i \in TasksWith(c, n) : j = Len(b) + i
  <2>1. j \in 1..Len(b) + Len(c) /\ n \in Subtree((b \o c)[j])
    BY <1>2 DEF TasksWith
  <2>2. CASE j \in 1..Len(b)
    BY <1>1, <1>2, <2>1, <2>2 DEF TasksWith
  <2>3. CASE j \notin 1..Len(b)
    <3>1. PICK i \in 1..Len(c) : j = Len(b) + i
      <4>1. j - Len(b) \in 1..Len(c) /\ j = Len(b) + (j - Len(b))
        BY <1>1, <2>1, <2>3
      <4> QED
        BY <4>1
    <3>2. n \in Subtree(c[i])
      BY <1>2, <2>1, <3>1
    <3> QED
      BY <1>1, <3>1, <3>2 DEF TasksWith
  <2> QED
    BY <2>2, <2>3
<1>4. ASSUME NEW j \in TasksWith(b, n) PROVE j \in TasksWith(b \o c, n)
  <2>1. j \in 1..Len(b) /\ j \in 1..Len(b) + Len(c) /\ n \in Subtree((b \o c)[j])
    BY <1>1, <1>2 DEF TasksWith
  <2> QED
    BY <1>2, <2>1 DEF TasksWith
<1>5. ASSUME NEW i \in TasksWith(c, n) PROVE Len(b) + i \in TasksWith(b \o c, n)
  <2>1. i \in 1..Len(c) /\ n \in Subtree(c[i])
    BY <1>1 DEF TasksWith
  <2>2. Len(b) + i \in 1..Len(b) + Len(c) /\ n \in Subtree((b \o c)[Len(b) + i])
    BY <1>1, <1>2, <2>1
  <2> QED
    BY <1>2, <2>2 DEF TasksWith
<1> QED
  BY <1>3, <1>4, <1>5

LEMMA WaitingOnce ==
    ASSUME NEW w \in Worker, NEW n \in Node, AtMostOne(Claims(n)), pc[w] \in Thieving, acc[w] = Zero
    PROVE  AtMostOne(Waiting(w, n))
<1>1. {w} \in SUBSET Worker
  OBVIOUS
<1>2. AtMostOne(Part({w}, n))
  BY <1>1, PartOnce
<1>3. Waiting(w, n) \subseteq Part({w}, n)
  BY ThiefHolds
<1> QED
  BY <1>2, <1>3 DEF AtMostOne

LEMMA TakeBufferedMoves ==
    ASSUME Shape, NEW w \in Worker, NEW n \in Node, AtMostOne(Claims(n)), TakeBuffered(w)
    PROVE  Moved(n) /\ (n = TaskOf(w)' => Consumed(n))
<1>1. /\ pc[w] = "get" /\ pc[w] \in Thieving /\ acc[w] = Zero
      /\ answer[w] = None /\ home[w] \in Locality
  BY ThiefIs DEF Thief, TakeBuffered, Shape, Placed
<1>2. PICK b, l : b = taskBuffer[home[w]] /\ l = home[w]
  OBVIOUS
<1>3. /\ b # <<>> /\ Run(w, Head(b)) /\ taskBuffer' = [taskBuffer EXCEPT ![l] = Tail(b)]
      /\ UNCHANGED <<tags, child, counted, answer>>
  BY <1>2 DEF TakeBuffered, thief_vars, search_vars
<1>4. b \in Seq(Node) /\ Head(b) \in Node /\ taskBuffer \in [Locality -> Seq(Node)]
  <2>1. b \in Seq(Node) /\ taskBuffer \in [Locality -> Seq(Node)]
    BY <1>1, <1>2, ManagerParts
  <2> QED
    BY <1>3, <2>1
<1>5. PICK t \in Node : t = Head(b)
  BY <1>4
<1>6. Run(w, t) /\ TaskOf(w)' = t
  BY <1>3, <1>5, RunState
<1>7. /\ taskBuffer'[l] = Tail(b) /\ taskBuffer[l] = b /\ l \in Locality
      /\ \A m \in Locality \ {l} : taskBuffer'[m] = taskBuffer[m]
  BY <1>1, <1>2, <1>3, <1>4
<1>8. InTransit(w) = <<>> /\ InTransit(w)' = <<>>
  BY <1>1, <1>3 DEF InTransit
<1>9. /\ \A j : j \in TasksWith(Tail(b), n) => j \in Nat \ {0} /\ j + 1 \in TasksWith(b, n)
      /\ 1 \in TasksWith(b, n) <=> n \in Subtree(t)
      /\ \A j \in TasksWith(b, n) : j \in Nat \ {0} /\ (j # 1 => j - 1 \in TasksWith(Tail(b), n))
  BY <1>3, <1>4, <1>5, TasksTail
<1>10. PICK Q, R : Q = Waiting(w, n) /\ R = Buffered(n)'
  OBVIOUS
<1>11. /\ \A c : c \in Q <=> \E m \in Locality : \E i \in TasksWith(taskBuffer[m], n) : c = <<"buffer", m, i>>
       /\ \A c : c \in R <=> \E m \in Locality : \E i \in TasksWith(taskBuffer'[m], n) : c = <<"buffer", m, i>>
  <2>1. Q = Buffered(n)
    BY <1>8, <1>10 DEF Waiting, TasksWith
  <2>2. \A c : c \in UNION {{<<"buffer", m, i>> : i \in TasksWith(taskBuffer'[m], n)} : m \in Locality}
               <=> \E m \in Locality : \E i \in TasksWith(taskBuffer'[m], n) : c = <<"buffer", m, i>>
    OBVIOUS
  <2>3. R = UNION {{<<"buffer", m, i>> : i \in TasksWith(taskBuffer'[m], n)} : m \in Locality}
    BY <1>10 DEF Buffered
  <2> QED
    BY <2>1, <2>2, <2>3, BufferedNames
<1>12. AtMostOne(Q)
  BY <1>1, <1>10, WaitingOnce
<1>13. \A m, k \in Locality : \A i \in TasksWith(taskBuffer[m], n) : \A j \in TasksWith(taskBuffer[k], n) :
          m = k /\ i = j
  <2> SUFFICES ASSUME NEW m \in Locality, NEW k \in Locality, NEW i \in TasksWith(taskBuffer[m], n),
                      NEW j \in TasksWith(taskBuffer[k], n)
               PROVE  m = k /\ i = j
    OBVIOUS
  <2>1. <<"buffer", m, i>> = <<"buffer", k, j>>
    BY <1>11, <1>12 DEF AtMostOne
  <2> QED
    BY <2>1
<1>14. n \in Subtree(t) => Q # {} /\ R = {}
  <2> SUFFICES ASSUME n \in Subtree(t) PROVE Q # {} /\ R = {}
    OBVIOUS
  <2>1. 1 \in TasksWith(taskBuffer[l], n)
    BY <1>7, <1>9
  <2>2. ASSUME NEW m \in Locality, NEW i \in TasksWith(taskBuffer'[m], n) PROVE FALSE
    <3>1. CASE m = l
      <4>1. i \in Nat \ {0} /\ i + 1 \in TasksWith(taskBuffer[l], n)
        BY <1>7, <1>9, <3>1
      <4>2. i + 1 = 1
        BY <1>7, <1>13, <2>1, <4>1
      <4> QED
        BY <4>1, <4>2
    <3>2. CASE m # l
      BY <1>7, <1>13, <2>1, <3>2
    <3> QED
      BY <3>1, <3>2
  <2>3. \A c : c \notin R
    BY <1>11, <2>2
  <2> QED
    BY <1>7, <1>11, <2>1, <2>3
<1>15. n \notin Subtree(t) => MovesTo(Q, R, TRUE)
  <2> SUFFICES ASSUME n \notin Subtree(t) PROVE MovesTo(Q, R, TRUE)
    OBVIOUS
  <2>1. \A m \in Locality : \A i \in TasksWith(taskBuffer'[m], n) :
           \E j \in TasksWith(taskBuffer[m], n) : IF m = l THEN j = i + 1 /\ i \in Nat ELSE j = i
    BY <1>7, <1>9
  <2>2. CASE Q = {}
    <3>1. \A c : c \notin R
      BY <1>11, <2>1, <2>2
    <3>2. R = {}
      BY <3>1
    <3> QED
      BY <2>2, <3>2, MovesLess
  <2>3. CASE Q # {}
    <3>0. PICK m \in Locality : \E i : i \in TasksWith(taskBuffer[m], n)
      BY <1>11, <2>3
    <3>1. PICK i : i \in TasksWith(taskBuffer[m], n)
      BY <3>0
    <3>2. PICK c : c = <<"buffer", m, i>>
      OBVIOUS
    <3>3. c \in Q /\ Alive(c)
      BY <1>11, <3>1, <3>2 DEF Alive
    <3>4. CASE m = l
      <4>1. i \in Nat \ {0} /\ i - 1 \in TasksWith(taskBuffer'[l], n)
        BY <1>7, <1>9, <3>1, <3>4
      <4>2. \A k \in Locality : \A j \in TasksWith(taskBuffer'[k], n) : k = l /\ j = i - 1
        <5> SUFFICES ASSUME NEW k \in Locality, NEW j \in TasksWith(taskBuffer'[k], n)
                     PROVE  k = l /\ j = i - 1
          OBVIOUS
        <5>1. PICK e \in TasksWith(taskBuffer[k], n) : IF k = l THEN e = j + 1 /\ j \in Nat ELSE e = j
          BY <2>1
        <5>2. k = l /\ e = i
          BY <1>13, <3>1, <3>4, <5>1
        <5> QED
          BY <5>1, <5>2
      <4>3. PICK d : d = <<"buffer", l, i - 1>>
        OBVIOUS
      <4>4. R \subseteq {d} /\ d \in R
        BY <1>7, <1>11, <4>1, <4>2, <4>3
      <4> QED
        BY <1>12, <3>3, <4>4, MovesOne
    <3>5. CASE m # l
      <4>1. i \in TasksWith(taskBuffer'[m], n)
        BY <1>7, <3>1, <3>5
      <4>2. \A k \in Locality : \A j \in TasksWith(taskBuffer'[k], n) : k = m /\ j = i
        <5> SUFFICES ASSUME NEW k \in Locality, NEW j \in TasksWith(taskBuffer'[k], n)
                     PROVE  k = m /\ j = i
          OBVIOUS
        <5>1. PICK e \in TasksWith(taskBuffer[k], n) : IF k = l THEN e = j + 1 /\ j \in Nat ELSE e = j
          BY <2>1
        <5>2. k = m /\ e = i
          BY <1>13, <3>1, <5>1
        <5> QED
          BY <3>5, <5>1, <5>2
      <4>4. R \subseteq {c} /\ c \in R
        BY <1>11, <3>2, <4>1, <4>2
      <4> QED
        BY <1>12, <3>3, <4>4, MovesOne
    <3> QED
      BY <3>4, <3>5
  <2> QED
    BY <2>2, <2>3
<1> QED
  <2>1. Moved(n) /\ (n = t => Consumed(n))
    BY <1>1, <1>3, <1>6, <1>8, <1>10, <1>14, <1>15, RunMoves
  <2> QED
    BY <1>6, <2>1

\* What a thief waits with by name.
LEMMA WaitingNames ==
    ASSUME NEW w \in Worker, NEW n
    PROVE  \A c : c \in Waiting(w, n) <=>
              \/ \E i \in TasksWith(InTransit(w), n) : c = <<"answer", w, i>>
              \/ \E l \in Locality : \E i \in TasksWith(taskBuffer[l], n) : c = <<"buffer", l, i>>
<1>1. \A c : c \in {<<"answer", w, i>> : i \in TasksWith(InTransit(w), n)}
             <=> \E i \in TasksWith(InTransit(w), n) : c = <<"answer", w, i>>
  OBVIOUS
<1> QED
  BY <1>1, BufferedNames DEF Waiting

\* The end of a steal with a chunk.
LEMMA UseMoves ==
    ASSUME Shape, NEW w \in Worker, NEW n \in Node, AtMostOne(Claims(n)), pc[w] \in Thieving,
           acc[w] = Zero, UNCHANGED <<tags, child, counted>>, NEW chunk \in Seq(Node),
           chunk = InTransit(w), Use(w, chunk)
    PROVE  Moved(n) /\ (pc'[w] = "register" /\ n = TaskOf(w)' => Consumed(n))
<1>1. /\ answer'[w] = None /\ \A v \in Worker \ {w} : answer'[v] = answer[v]
      /\ \/ chunk = <<>> /\ Goto(w, "idle") /\ UNCHANGED <<stack, acc, taskBuffer>>
         \/ chunk # <<>> /\ Run(w, chunk[1]) /\ Buffer(home[w], chunk) /\ chunk[1] \in Node
  BY UseState
<1>2. InTransit(w)' = <<>> /\ home[w] \in Locality
  BY <1>1, StateTyped DEF InTransit
<1>3. CASE chunk = <<>>
  <2>1. Goto(w, "idle") /\ UNCHANGED <<stack, acc, taskBuffer>> /\ "idle" \in Thieving
    BY <1>1, <1>3 DEF Thieving
  <2>2. Moved(n)
    BY <1>1, <1>2, <1>3, <2>1, IdleMoves
  <2>3. pc'[w] # "register"
    BY <2>1, StateTyped DEF Goto
  <2> QED
    BY <2>2, <2>3
<1>4. CASE chunk # <<>>
  <2>1. PICK b, l, t : b = taskBuffer[home[w]] /\ l = home[w] /\ t = chunk[1]
    OBVIOUS
  <2>2. /\ Run(w, t) /\ t \in Node /\ TaskOf(w)' = t
        /\ taskBuffer' = [taskBuffer EXCEPT ![l] = b \o Tail(chunk)]
        /\ taskBuffer \in [Locality -> Seq(Node)] /\ l \in Locality
    <3>1. Run(w, t) /\ t \in Node /\ Buffer(l, chunk)
      BY <1>1, <1>4, <2>1
    <3> QED
      BY <1>2, <1>4, <2>1, <3>1, RunState, BufferTyped, ManagerParts
  <2>3. /\ b \in Seq(Node) /\ taskBuffer[l] = b /\ taskBuffer'[l] = b \o Tail(chunk)
        /\ \A m \in Locality \ {l} : taskBuffer'[m] = taskBuffer[m]
    BY <2>1, <2>2
  <2>4. /\ \A j : j \in TasksWith(Tail(chunk), n) => j \in Nat \ {0} /\ j + 1 \in TasksWith(chunk, n)
        /\ 1 \in TasksWith(chunk, n) <=> n \in Subtree(t)
        /\ \A j \in TasksWith(chunk, n) :
              j \in Nat \ {0} /\ (j # 1 => j - 1 \in TasksWith(Tail(chunk), n))
    <3>1. Head(chunk) = t
      BY <1>4, <2>1
    <3> QED
      BY <1>4, <3>1, TasksTail
  <2>5. Tail(chunk) \in Seq(Node) /\ Len(b) \in Nat
    BY <1>4, <2>3
  <2>6. \A j : j \in TasksWith(taskBuffer'[l], n) <=>
           j \in TasksWith(b, n) \/ \E i \in TasksWith(Tail(chunk), n) : j = Len(b) + i
    <3>1. PICK c \in Seq(Node) : c = Tail(chunk)
      BY <2>5
    <3>2. \A j : j \in TasksWith(b \o c, n) <=>
             j \in TasksWith(b, n) \/ \E i \in TasksWith(c, n) : j = Len(b) + i
      BY <2>3, TasksQueued
    <3> QED
      BY <2>3, <3>1, <3>2
  <2>7. PICK Q, R : Q = Waiting(w, n) /\ R = Buffered(n)'
    OBVIOUS
  <2>8. /\ \A c : c \in Q <=>
              \/ \E i \in TasksWith(chunk, n) : c = <<"answer", w, i>>
              \/ \E m \in Locality : \E i \in TasksWith(taskBuffer[m], n) : c = <<"buffer", m, i>>
        /\ \A c : c \in R <=> \E m \in Locality : \E i \in TasksWith(taskBuffer'[m], n) : c = <<"buffer", m, i>>
    <3>1. \A c : c \in UNION {{<<"buffer", m, i>> : i \in TasksWith(taskBuffer'[m], n)} : m \in Locality}
                 <=> \E m \in Locality : \E i \in TasksWith(taskBuffer'[m], n) : c = <<"buffer", m, i>>
      OBVIOUS
    <3>2. R = UNION {{<<"buffer", m, i>> : i \in TasksWith(taskBuffer'[m], n)} : m \in Locality}
      BY <2>7 DEF Buffered
    <3> QED
      BY <2>7, <3>1, <3>2, WaitingNames
  <2>9. AtMostOne(Q)
    BY <2>7, WaitingOnce
  <2>10. \A m \in Locality : \A j \in TasksWith(taskBuffer'[m], n) :
            \/ j \in TasksWith(taskBuffer[m], n)
            \/ m = l /\ \E i \in TasksWith(Tail(chunk), n) : j = Len(b) + i
    BY <2>3, <2>6
  <2>11. \A m \in Locality : \A j \in TasksWith(taskBuffer[m], n) : j \in TasksWith(taskBuffer'[m], n)
    BY <2>3, <2>6
  <2>12. ASSUME NEW i \in TasksWith(chunk, n)
         PROVE  /\ \A m \in Locality : TasksWith(taskBuffer[m], n) = {}
                /\ \A j \in TasksWith(chunk, n) : j = i
    <3>1. ASSUME NEW m \in Locality, NEW j \in TasksWith(taskBuffer[m], n) PROVE FALSE
      <4>1. <<"answer", w, i>> = <<"buffer", m, j>>
        BY <2>8, <2>9 DEF AtMostOne
      <4> QED
        BY <4>1
    <3>2. ASSUME NEW j \in TasksWith(chunk, n) PROVE j = i
      <4>1. <<"answer", w, i>> = <<"answer", w, j>>
        BY <2>8, <2>9 DEF AtMostOne
      <4> QED
        BY <4>1
    <3> QED
      BY <3>1, <3>2
  <2>13. n \in Subtree(t) => Q # {} /\ R = {}
    <3> SUFFICES ASSUME n \in Subtree(t) PROVE Q # {} /\ R = {}
      OBVIOUS
    <3>1. 1 \in TasksWith(chunk, n)
      BY <2>4
    <3>2. ASSUME NEW i \in TasksWith(Tail(chunk), n) PROVE FALSE
      <4>1. i \in Nat \ {0} /\ i + 1 = 1
        BY <2>4, <2>12, <3>1
      <4> QED
        BY <4>1
    <3>3. \A c : c \notin R
      BY <2>8, <2>10, <2>12, <3>1, <3>2
    <3> QED
      BY <2>8, <3>1, <3>3
  <2>14. n \notin Subtree(t) => MovesTo(Q, R, TRUE)
    <3> SUFFICES ASSUME n \notin Subtree(t) PROVE MovesTo(Q, R, TRUE)
      OBVIOUS
    <3>1. CASE Q = {}
      <4>1. \A i : i \notin TasksWith(Tail(chunk), n)
        BY <2>4, <2>8, <3>1
      <4>2. \A c : c \notin R
        BY <2>8, <2>10, <3>1, <4>1
      <4>3. R = {}
        BY <4>2
      <4> QED
        BY <3>1, <4>3, MovesLess
    <3>2. ASSUME NEW i \in TasksWith(chunk, n) PROVE MovesTo(Q, R, TRUE)
      <4>1. i - 1 \in TasksWith(Tail(chunk), n) /\ i \in Nat
        BY <2>4
      <4>2. PICK c, d : c = <<"answer", w, i>> /\ d = <<"buffer", l, Len(b) + (i - 1)>>
        OBVIOUS
      <4>3. c \in Q /\ Alive(c)
        BY <2>8, <4>2 DEF Alive
      <4>4. Len(b) + (i - 1) \in TasksWith(taskBuffer'[l], n)
        BY <2>6, <4>1
      <4>5. \A k \in Locality : \A j \in TasksWith(taskBuffer'[k], n) : k = l /\ j = Len(b) + (i - 1)
        <5> SUFFICES ASSUME NEW k \in Locality, NEW j \in TasksWith(taskBuffer'[k], n)
                     PROVE  k = l /\ j = Len(b) + (i - 1)
          OBVIOUS
        <5>1. k = l /\ \E e \in TasksWith(Tail(chunk), n) : j = Len(b) + e
          BY <2>10, <2>12
        <5>2. PICK e \in TasksWith(Tail(chunk), n) : j = Len(b) + e
          BY <5>1
        <5>3. e \in Nat /\ e + 1 = i
          BY <2>4, <2>12
        <5>4. e = i - 1
          BY <4>1, <5>3
        <5> QED
          BY <5>1, <5>2, <5>4
      <4>6. R \subseteq {d} /\ d \in R
        BY <2>2, <2>8, <4>2, <4>4, <4>5
      <4> QED
        BY <2>9, <4>3, <4>6, MovesOne
    <3>3. ASSUME NEW m \in Locality, NEW i \in TasksWith(taskBuffer[m], n)
          PROVE  MovesTo(Q, R, TRUE)
      <4>1. PICK c : c = <<"buffer", m, i>>
        OBVIOUS
      <4>2. c \in Q /\ Alive(c)
        BY <2>8, <4>1 DEF Alive
      <4>3. \A j : j \notin TasksWith(Tail(chunk), n)
        BY <2>4, <2>12
      <4>4. \A k \in Locality : \A j \in TasksWith(taskBuffer'[k], n) : k = m /\ j = i
        <5> SUFFICES ASSUME NEW k \in Locality, NEW j \in TasksWith(taskBuffer'[k], n)
                     PROVE  k = m /\ j = i
          OBVIOUS
        <5>1. j \in TasksWith(taskBuffer[k], n)
          BY <2>10, <4>3
        <5>2. <<"buffer", m, i>> = <<"buffer", k, j>>
          BY <2>8, <2>9, <5>1 DEF AtMostOne
        <5> QED
          BY <5>2
      <4>5. R \subseteq {c} /\ c \in R
        BY <2>8, <2>11, <4>1, <4>4
      <4> QED
        BY <2>9, <4>2, <4>5, MovesOne
    <3> QED
      BY <2>8, <3>1, <3>2, <3>3
  <2>15. Moved(n) /\ (n = t => Consumed(n))
    BY <1>1, <1>2, <2>2, <2>7, <2>13, <2>14, RunMoves
  <2> QED
    BY <2>2, <2>15
<1> QED
  BY <1>3, <1>4

LEMMA FinishMoves ==
    ASSUME Shape, NEW w \in Worker, NEW n \in Node, AtMostOne(Claims(n)),
           FinishRemote(w) \/ FinishLocal(w)
    PROVE  Moved(n) /\ (pc'[w] = "register" /\ n = TaskOf(w)' => Consumed(n))
<1>1. /\ pc[w] \in Thieving /\ acc[w] = Zero
  BY ThiefIs DEF Thief
<1>2. UNCHANGED <<tags, child, counted>>
  BY DEF FinishRemote, FinishLocal, search_vars
<1>3. PICK chunk \in Seq(Node) : Use(w, chunk) /\ chunk = InTransit(w)
  <2>1. CASE FinishRemote(w)
    <3>1. answer[w] \in Seq(Node) /\ Use(w, answer[w])
      BY <2>1 DEF FinishRemote, Shape, Placed
    <3>2. InTransit(w) = answer[w]
      BY <3>1, NothingElse DEF InTransit
    <3> QED
      BY <3>1, <3>2
  <2>2. CASE FinishLocal(w)
    <3>1. Stolen(w) \in Seq(Node) /\ Use(w, Stolen(w)) /\ answer[w] # None
      BY <2>2, StolenTyped DEF FinishLocal
    <3>2. InTransit(w) = Stolen(w)
      BY <3>1 DEF InTransit, Stolen
    <3> QED
      BY <3>1, <3>2
  <2> QED
    BY <2>1, <2>2
<1> QED
  BY <1>1, <1>2, <1>3, UseMoves
-----------------------------------------------------------------------------
\* 5. No task starts twice.

\* The claims of all nodes together with the states of the searches.  A state is
\* named by the task's node, so a task must not start twice: what stands for a
\* node some scheduler has started with, or some manager knows, is a count.
Ran(s) == \E v \in Worker : Running(v) /\ TaskOf(v) = s
Unique == \A n \in Node : AtMostOne(Claims(n))
Fresh == \A s \in Node : Known(s) \/ Ran(s) => \A c \in Claims(s) : ~ Alive(c)

LEMMA WalkMoves ==
    ASSUME Shape, Steals, Continues, Unique, NEW w \in Worker, Walk(w), NEW n \in Node
    PROVE  Moved(n)
<1>1. AtMostOne(Claims(n))
  BY DEF Unique
<1>2. CASE Register(w) \/ LowerFlag(w) \/ Stop(w) \/ Prune(w) \/ Exit(w)
  BY <1>2, LessMoves
<1>3. CASE Backtrack(w) \/ Break(w)
  BY <1>3, PopMoves
<1>4. CASE Reply(w)
  BY <1>1, <1>4, ReplyMoves
<1>5. CASE NextChild(w) \/ ProcessChild(w) \/ Continue(w)
  BY <1>1, <1>5, NextMoves, ChildMoves, ContinueMoves
<1>6. CASE UpdateEnumerator(w) \/ Unregister(w)
  BY <1>1, <1>6, UpdateMoves, UnregisterMoves
<1> QED
  BY <1>2, <1>3, <1>4, <1>5, <1>6 DEF Walk

LEMMA StealMoves ==
    ASSUME Shape, Unique, NEW w \in Worker, Thief(w), NEW n \in Node
    PROVE  Moved(n)
<1>1. AtMostOne(Claims(n))
  BY DEF Unique
<1>2. CASE TakeBuffered(w) \/ FinishRemote(w) \/ FinishLocal(w)
  BY <1>1, <1>2, TakeBufferedMoves, FinishMoves
<1>3. CASE \/ Loop(w) \/ NoWork(w) \/ AskRemote(w) \/ RefuseRemote(w) \/ AskLocal(w)
           \/ ServeRemote(w) \/ AnswerRemote(w)
  BY <1>3, ThiefMoves
<1> QED
  BY <1>2, <1>3 DEF Thief

LEMMA StepMoves ==
    ASSUME Shape, Steals, Continues, Unique, [Next]_vars, NEW n \in Node
    PROVE  Moved(n)
BY WalkMoves, StealMoves, RestMoves DEF Next, Step

LEMMA OnceMoved ==
    ASSUME NEW n, AtMostOne(Claims(n)), Moved(n)
    PROVE  /\ AtMostOne(Claims(n)')
           /\ (\A c \in Claims(n) : ~ Alive(c)) => \A d \in Claims(n)' : ~ Alive(d)
<1>1. PICK A, B : A = Claims(n) /\ B = Claims(n)'
  OBVIOUS
<1>2. (A = {} => B = {}) /\ \A c : A = {c} => \E d : B \subseteq {d} /\ (Alive(d) => Alive(c))
  BY <1>1 DEF Moved, MovesTo
<1>3. CASE A = {}
  BY <1>1, <1>2, <1>3 DEF AtMostOne
<1>4. ASSUME NEW c \in A PROVE AtMostOne(B) /\ ((\A x \in A : ~ Alive(x)) => \A d \in B : ~ Alive(d))
  <2>1. A = {c}
    BY <1>1 DEF AtMostOne
  <2>2. PICK d : B \subseteq {d} /\ (Alive(d) => Alive(c))
    BY <1>2, <2>1
  <2> QED
    BY <2>1, <2>2 DEF AtMostOne
<1> QED
  BY <1>1, <1>3, <1>4

LEMMA UniqueKept ==
    ASSUME Shape, Steals, Continues, Unique, [Next]_vars
    PROVE  Unique'
<1> SUFFICES ASSUME NEW n \in Node PROVE AtMostOne(Claims(n)')
  BY DEF Unique, AtMostOne
<1> QED
  BY StepMoves, OnceMoved DEF Unique

\* A thief that starts a task has taken it from what waits.
LEMMA ThiefStarts ==
    ASSUME Shape, Unique, NEW w \in Worker, Thief(w), Running(w)' \/ pc'[w] = "register",
           NEW n \in Node, n = TaskOf(w)'
    PROVE  Consumed(n)
<1>1. pc'[w] \notin Thieving
  BY DEF Running, Thieving
<1>2. AtMostOne(Claims(n))
  BY DEF Unique
<1>3. \/ TakeBuffered(w) \/ FinishRemote(w) \/ FinishLocal(w)
  <2>1. CASE Loop(w) \/ NoWork(w) \/ AskRemote(w) \/ RefuseRemote(w) \/ AskLocal(w)
             \/ ServeRemote(w) \/ AnswerRemote(w)
    <3>1. PICK p \in Thieving : Goto(w, p)
      BY <2>1 DEF Loop, NoWork, AskRemote, RefuseRemote, AskLocal, ServeRemote, AnswerRemote,
         Request, Thieving
    <3> QED
      BY <1>1, <3>1, StateTyped DEF Goto
  <2> QED
    BY <2>1 DEF Thief
<1>4. CASE TakeBuffered(w)
  BY <1>2, <1>4, TakeBufferedMoves
<1>5. CASE FinishRemote(w) \/ FinishLocal(w)
  <2>1. PICK chunk \in Seq(Node) : Use(w, chunk)
    BY <1>5, StolenTyped DEF FinishRemote, FinishLocal, Shape, Placed
  <2>2. PICK p \in {"idle", "register"} : Goto(w, p)
    BY <1>5, <2>1, UseState, ThiefIs DEF Thief
  <2>3. pc'[w] = "register"
    BY <1>1, <2>2, StateTyped DEF Goto, Thieving
  <2> QED
    BY <1>2, <1>5, <2>3, FinishMoves
<1> QED
  BY <1>3, <1>4, <1>5

LEMMA ThiefStartsNew ==
    ASSUME Shape, Unique, Fresh, NEW w \in Worker, Thief(w)
    PROVE  StartsNew(w)
<1> SUFFICES ASSUME pc'[w] = "register", NEW t \in Node, t = TaskOf(w)'
             PROVE  New(t)
  BY DEF StartsNew
<1>1. \E c \in Claims(t) : Alive(c)
  BY ThiefStarts DEF Consumed
<1> QED
  BY <1>1 DEF Fresh, New, Ran

LEMMA WalkRuns ==
    ASSUME NEW w \in Worker, Walk(w)
    PROVE  Running(w)
<1>1. CASE Register(w) \/ Unregister(w)
  BY <1>1 DEF Register, Unregister, Running, Thieving
<1> QED
  BY <1>1, MovingPlaces DEF Walk, Running

\* Which states and tasks there are after a step of w.
LEMMA StepRuns ==
    ASSUME Shape, Steals, Unique, Fresh, NEW w \in Worker, Step(w)
    PROVE  SameRuns(w) /\ \A s \in Node : Known(s)' => Known(s) \/ Ran(s)
<1>1. CASE Thief(w)
  <2>1. StartsNew(w)
    BY <1>1, ThiefStartsNew
  <2>2. CASE Loop(w) \/ NoWork(w) \/ AskRemote(w) \/ RefuseRemote(w)
    BY <2>2, IdleSteals
  <2>3. CASE TakeBuffered(w) \/ FinishRemote(w)
    BY <2>1, <2>3, TakeBufferedSteals
  <2>4. CASE AskLocal(w) \/ ServeRemote(w)
    BY <2>4, RequestSteals
  <2>5. CASE AnswerRemote(w) \/ FinishLocal(w)
    BY <2>1, <2>5, AnswerSteals
  <2> QED
    BY <1>1, <2>2, <2>3, <2>4, <2>5 DEF Thief
<1>2. CASE Walk(w)
  <2>1. Running(w)
    BY <1>2, WalkRuns
  <2>2. CASE Register(w)
    BY <2>1, <2>2, RegisterSteals DEF Ran
  <2>3. CASE ~ Register(w)
    BY <1>2, <2>3, WalkSteals, ReplySteals, UnregisterSteals DEF Walk
  <2> QED
    BY <2>2, <2>3
<1> QED
  BY <1>1, <1>2 DEF Step

LEMMA FreshKept ==
    ASSUME Shape, Steals, Continues, Unique, Fresh, [Next]_vars
    PROVE  Fresh'
<1> SUFFICES ASSUME NEW s \in Node, Known(s)' \/ Ran(s)', NEW c \in Claims(s)'
             PROVE  ~ Alive(c)
  BY DEF Fresh
<1>1. Moved(s) /\ AtMostOne(Claims(s))
  BY StepMoves DEF Unique
<1>2. CASE Known(s) \/ Ran(s)
  BY <1>1, <1>2, OnceMoved DEF Fresh
<1>3. CASE RootReady \/ Return \/ Deliver \/ UNCHANGED vars
  <2>1. Known(s)' => Known(s)
    BY <1>3, RestSteals
  <2>2. UNCHANGED <<pc, stack>>
    BY <1>3 DEF RootReady, Return, Deliver, Receive, ReceiveBound, ReceiveStop, vars, process_vars
  <2>3. Ran(s)' => Ran(s)
    BY <2>2 DEF Ran, Running, TaskOf
  <2> QED
    BY <1>2, <2>1, <2>3
<1>4. ASSUME NEW w \in Worker, Step(w), ~ (Known(s) \/ Ran(s)) PROVE ~ Alive(c)
  <2>1. Ran(s)'
    BY <1>4, StepRuns
  <2>2. PICK v \in Worker : Running(v)' /\ TaskOf(v)' = s
    BY <2>1 DEF Ran
  <2>3. v = w /\ ~ Running(w)
    BY <1>4, <2>2, StepRuns DEF SameRuns, Ran
  <2>4. Thief(w)
    BY <1>4, <2>3, WalkRuns DEF Step
  <2>5. Consumed(s)
    BY <2>2, <2>3, <2>4, ThiefStarts
  <2> QED
    BY <2>5 DEF Consumed
<1> QED
  BY <1>2, <1>3, <1>4 DEF Next

LEMMA ContinuesKept ==
    ASSUME Shape, Continues, [Next]_vars
    PROVE  Continues'
<1> SUFFICES ASSUME Kind' = "Enumeration", NEW w \in Worker PROVE ret'[w] = "Continue"
  BY DEF Continues
<1>1. UNCHANGED tags
  BY DEF Next, Step, Thief, Walk, RootReady, Return, Deliver, Receive, ReceiveBound, ReceiveStop,
     vars, process_vars, Register, Stop, Reply, LowerFlag, NextChild, Backtrack, ProcessChild,
     Continue, Prune, Break, Exit, UpdateEnumerator, Unregister, Loop, TakeBuffered, AskLocal,
     AskRemote, NoWork, ServeRemote, RefuseRemote, AnswerRemote, FinishRemote, FinishLocal,
     Process, ProcessCounted, ProcessFound, ProcessHopeless, ProcessAlive, CheckObjective,
     RaiseBound, SubmitIncumbent, StopOthers
<1>2. Kind = "Enumeration" /\ ret[w] = "Continue" /\ ret \in [Worker -> Answers]
  BY <1>1, StateTyped DEF Continues, Kind
<1>3. CASE UNCHANGED ret
  BY <1>2, <1>3
<1>4. ASSUME NEW v \in Worker, ProcessChild(v) PROVE ret'[w] = "Continue"
  <2>1. ProcessCounted(v)
    BY <1>2, <1>4, CountingStep DEF ProcessChild, Shape
  <2> QED
    BY <1>2, <2>1 DEF ProcessCounted, Answer
<1>5. ASSUME NEW v \in Worker, Unregister(v) PROVE ret'[w] = "Continue"
  BY <1>2, <1>5 DEF Unregister
<1> QED
  <2>1. \/ UNCHANGED ret
        \/ \E v \in Worker : ProcessChild(v) \/ Unregister(v)
    BY DEF Next, Step, Thief, Walk, RootReady, Return, Deliver, Receive, ReceiveBound, ReceiveStop,
       vars, process_vars, Register, Stop, Reply, LowerFlag, NextChild, Backtrack,
       Continue, Prune, Break, Exit, UpdateEnumerator, Loop, TakeBuffered, AskLocal,
       AskRemote, NoWork, ServeRemote, RefuseRemote, AnswerRemote, FinishRemote, FinishLocal
  <2> QED
    BY <1>3, <1>4, <1>5, <2>1
-----------------------------------------------------------------------------
\* 6. The initial states.

\* A node at depth two, and the tasks that the other schedulers start with.
LEMMA DepthTwo ==
    ASSUME NEW n \in AtDepth(2)
    PROVE  /\ n \in Node /\ Len(n) = 2 /\ n[1] \in Nat \ {0} /\ n[2] \in Nat \ {0}
           /\ <<n[1]>> \in Node
<1>1. n \in Node /\ Len(n) = 2
  BY DEF AtDepth
<1>2. n \in Seq(Nat) /\ n[1] \in Nat \ {0} /\ n[2] \in Nat \ {0}
  BY <1>1, NodeTyped
<1>3. SubSeq(n, 1, 1) \in Node
  <2>1. \A k \in 0..Len(n) : SubSeq(n, 1, k) \in Node
    BY <1>1, TreeAssumption
  <2>2. 1 \in 0..Len(n)
    BY <1>1
  <2> QED
    BY <2>1, <2>2
<1>4. SubSeq(n, 1, 1) = <<n[1]>>
  <2> DEFINE s == SubSeq(n, 1, 1)
  <2>1. s \in Seq(Nat) /\ Len(s) = 1 /\ s[1] = n[1]
    BY <1>1, <1>2
  <2> HIDE DEF s
  <2>2. s = <<n[1]>>
    BY <2>1
  <2> QED
    BY <2>2 DEF s
<1> QED
  BY <1>1, <1>2, <1>3, <1>4

Given1(w) == Level(2)[initial[w]]

LEMMA StartTasks ==
    /\ others \in Nat /\ others <= Len(Level(2)) /\ Len(Level(2)) \in Nat
    /\ \A w \in Worker \ {first} : Given1(w) \in AtDepth(2) /\ initial[w] \in 1..others
    /\ \A v, w \in Worker \ {first} : Given1(v) = Given1(w) => v = w
    /\ \A k \in 1..others : \E w \in Worker \ {first} : initial[w] = k
    /\ \A k \in 1..Len(Level(2)) : Level(2)[k] \in AtDepth(2)
<1>1. /\ Level(2) \in Seq(AtDepth(2)) /\ Len(Level(2)) \in Nat
      /\ \A k \in 1..Len(Level(2)) : Place(Level(2)[k]) = k
  BY LevelExact
<1>2. tasksRequired \in Nat /\ initial \in Bijection(Worker \ {first}, 1..others)
      /\ others = IF tasksRequired < Len(Level(2)) THEN tasksRequired ELSE Len(Level(2))
  BY StackAssumption
<1>3. others \in Nat /\ others <= Len(Level(2))
  BY <1>1, <1>2
<1>4. /\ initial \in [Worker \ {first} -> 1..others]
      /\ \A v, w \in Worker \ {first} : initial[v] = initial[w] => v = w
      /\ \A k \in 1..others : \E w \in Worker \ {first} : initial[w] = k
  BY <1>2 DEF Bijection, Injection, Surjection, IsInjective
<1>5. \A w \in Worker \ {first} : Given1(w) \in AtDepth(2) /\ initial[w] \in 1..others
      /\ Place(Given1(w)) = initial[w]
  BY <1>1, <1>3, <1>4 DEF Given1
<1> QED
  BY <1>1, <1>3, <1>4, <1>5

LEMMA StartState ==
    ASSUME Init
    PROVE  /\ given \in Nat /\ given \in {0, others} /\ stealAll \in BOOLEAN
           /\ first \in Worker /\ pc[first] = IF Exhausted THEN "count" ELSE "loop"
           /\ \A w \in Worker \ {first} : pc[w] = IF given = 0 THEN "gone" ELSE "register"
           /\ stack = [w \in Worker |-> stack[w]] /\ acc = [w \in Worker |-> acc[w]]
           /\ stack[first] = FirstStack /\ acc[first] = NewAcc({Root} \cup Passed)
           /\ \A w \in Worker \ {first} :
                 IF given = 0 THEN stack[w] = <<>> /\ acc[w] = Zero
                 ELSE stack[w] = <<<<Given1(w), 1>>>> /\ acc[w] = NewAcc({Given1(w)})
           /\ given # 0 /\ ~ Exhausted => given = tasksRequired /\ given \in 1..Len(Level(2))
           /\ Exhausted => given = Len(Level(2)) /\ given # 0
           /\ given # 0 => given = others /\ maxDepth > 3
<1>1. /\ stealAll \in StealAll[Kind] /\ given \in Given[Kind] /\ SharedInit
      /\ pc = [w \in Worker |-> IF w = first THEN IF Exhausted THEN "count" ELSE "loop"
                                 ELSE IF given = 0 THEN "gone" ELSE "register"]
      /\ stack = [w \in Worker |-> CASE w = first -> FirstStack
                                      [] pc[w] = "register" -> <<<<Level(2)[initial[w]], 1>>>>
                                      [] OTHER -> <<>>]
      /\ acc = [w \in Worker |-> CASE w = first -> NewAcc({Root} \cup Passed)
                                    [] pc[w] = "register" -> NewAcc({Level(2)[initial[w]]})
                                    [] OTHER -> Zero]
  BY DEF Init
<1>2. Kind \in Kinds
  BY <1>1, BoundAssumption DEF SharedInit, Kind
<1>3. /\ StealAll[Kind] \subseteq BOOLEAN /\ Given[Kind] \subseteq {0, others}
      /\ (Given[Kind] # {0} => maxDepth > 3) /\ first \in Worker /\ tasksRequired \in Nat
      /\ others = IF tasksRequired < Len(Level(2)) THEN tasksRequired ELSE Len(Level(2))
  BY <1>2, StackAssumption
<1>4. given \in {0, others} /\ given \in Nat /\ stealAll \in BOOLEAN
  BY <1>1, <1>3, StartTasks
<1>5. given # 0 => given = others /\ maxDepth > 3
  BY <1>1, <1>3, <1>4
<1>6. given # 0 /\ ~ Exhausted => given = tasksRequired /\ given \in 1..Len(Level(2))
  BY <1>3, <1>4, StartTasks DEF Exhausted
<1>7. Exhausted => given = Len(Level(2)) /\ given # 0
  BY <1>3, <1>4, StartTasks DEF Exhausted
<1>8. \A w \in Worker : stack[w] = CASE w = first -> FirstStack
                                      [] pc[w] = "register" -> <<<<Level(2)[initial[w]], 1>>>>
                                      [] OTHER -> <<>>
  BY <1>1
<1>9. \A w \in Worker : acc[w] = CASE w = first -> NewAcc({Root} \cup Passed)
                                    [] pc[w] = "register" -> NewAcc({Level(2)[initial[w]]})
                                    [] OTHER -> Zero
  BY <1>1
<1>10. /\ pc[first] = IF Exhausted THEN "count" ELSE "loop"
       /\ \A w \in Worker \ {first} : pc[w] = IF given = 0 THEN "gone" ELSE "register"
  BY <1>1, <1>3
<1>11. stack[first] = FirstStack /\ acc[first] = NewAcc({Root} \cup Passed)
  <2>1. first \in Worker
    BY <1>3
  <2>2. \A w \in Worker : w = first => stack[w] = FirstStack
    BY <1>8, <1>10
  <2>3. \A w \in Worker : w = first => acc[w] = NewAcc({Root} \cup Passed)
    BY <1>9, <1>10
  <2> QED
    BY <2>1, <2>2, <2>3
<1>12. \A w \in Worker \ {first} :
                 IF given = 0 THEN stack[w] = <<>> /\ acc[w] = Zero
                 ELSE stack[w] = <<<<Given1(w), 1>>>> /\ acc[w] = NewAcc({Given1(w)})
  BY <1>8, <1>9, <1>10 DEF Given1
<1>13. stack = [w \in Worker |-> stack[w]] /\ acc = [w \in Worker |-> acc[w]]
  BY <1>1
<1> QED
  BY <1>3, <1>4, <1>5, <1>6, <1>7, <1>10, <1>11, <1>12, <1>13

LEMMA FirstFrames ==
    ASSUME Init
    PROVE  /\ FirstStack \in Seq(Frames) /\ FirstStack # <<>> /\ FirstStack[1][1] = Root
           /\ Passed \subseteq Node
<1>1. Root \in Node
  BY TreeAssumption
<1>2. CASE given = 0 \/ Exhausted
  <2>1. FirstStack = <<<<Root, 1>>>>
    BY <1>2 DEF FirstStack
  <2>2. Passed \subseteq Node
    BY <1>1, <1>2, TreeAssumption DEF Passed, PassedBy, Exhausted
  <2> QED
    BY <1>1, <2>1, <2>2 DEF Frames
<1>3. CASE given # 0 /\ ~ Exhausted
  <2> DEFINE n == Level(2)[given]
  <2>1. n \in AtDepth(2)
    BY <1>3, StartState, StartTasks
  <2>2. n[1] \in Nat \ {0} /\ n[2] \in Nat \ {0} /\ <<n[1]>> \in Node
    BY <2>1, DepthTwo
  <2>3. FirstStack = <<<<Root, n[1] + 1>>, <<<<n[1]>>, n[2] + 1>>>>
        /\ Passed = {<<i>> : i \in 1..n[1]}
    BY <1>3 DEF FirstStack, Passed, PassedBy, Exhausted
  <2> HIDE DEF n
  <2>4. Passed \subseteq Node
    <3>1. \A i \in 1..n[1] : <<i>> \in Node
      <4>1. <<n[1]>> \in NextLevel(Root)
        BY <1>1, <2>2, BelowRoot DEF Below, Root, NextLevel
      <4>2. <<n[1]>> \in Children(Root)
        BY <1>1, <4>1, ChildrenExact
      <4>3. PICK j \in 1..numChildren(Root) : <<n[1]>> = Child(Root, j)
        BY <4>2 DEF Children
      <4>4. numChildren(Root) \in Nat
        BY <1>1, NumChildrenNat
      <4>5. n[1] = j
        BY <4>3, <4>4, <2>2 DEF Child, Root
      <4>6. \A i \in 1..n[1] : i \in 1..numChildren(Root) /\ Child(Root, i) = <<i>>
        BY <4>4, <4>5, <2>2 DEF Child, Root
      <4> QED
        BY <1>1, <4>6, ChildInTree
    <3> QED
      BY <2>3, <3>1
  <2>5. <<Root, n[1] + 1>> \in Frames /\ <<<<n[1]>>, n[2] + 1>> \in Frames
    BY <1>1, <2>2 DEF Frames
  <2> QED
    BY <2>3, <2>4, <2>5
<1> QED
  BY <1>2, <1>3

LEMMA InitShape == Init => Shape
<1> SUFFICES ASSUME Init PROVE Shape
  OBVIOUS
<1>1. /\ given \in Nat /\ given \in {0, others} /\ stealAll \in BOOLEAN
      /\ first \in Worker /\ pc[first] = IF Exhausted THEN "count" ELSE "loop"
      /\ \A w \in Worker \ {first} : pc[w] = IF given = 0 THEN "gone" ELSE "register"
      /\ stack = [w \in Worker |-> stack[w]] /\ acc = [w \in Worker |-> acc[w]]
      /\ stack[first] = FirstStack /\ acc[first] = NewAcc({Root} \cup Passed)
      /\ \A w \in Worker \ {first} :
            IF given = 0 THEN stack[w] = <<>> /\ acc[w] = Zero
            ELSE stack[w] = <<<<Given1(w), 1>>>> /\ acc[w] = NewAcc({Given1(w)})
  BY StartState
<1>2. /\ SharedInit /\ ManagerInit(first, Root) /\ counted = Zero /\ main = "await"
      /\ stolen = {Level(2)[i] : i \in 1..given}
      /\ pc = [w \in Worker |-> pc[w]]
  BY DEF Init
<1>3. \A w \in Worker \ {first} : Given1(w) \in Node
  BY StartTasks, DepthTwo
<1>4. \A w \in Worker : pc[w] \in {"count", "loop", "gone", "register"}
  BY <1>1
<1>5. TableInv
  BY InitTables
<1>6. ProcessInv
  BY <1>2, <1>4, SharedInitInv DEF Acting
<1>7. SearchTyped
  <2>1. pc \in [Worker -> Places]
    BY <1>2, <1>4 DEF Places, Thieving
  <2>2. ret \in [Worker -> Answers]
    BY <1>2 DEF SharedInit, Answers
  <2>3. acc \in [Worker -> [Node -> Nat]]
    <3>1. \A S : NewAcc(S) \in [Node -> Nat]
      BY DEF NewAcc
    <3>2. acc[first] \in [Node -> Nat]
      BY <1>1, <3>1, Zenon
    <3>3. \A w \in Worker \ {first} : acc[w] \in [Node -> Nat]
      BY <1>1, <3>1, ZeroTyped
    <3> QED
      BY <1>1, <3>2, <3>3
  <2>4. counted \in [Node -> Nat]
    BY <1>2, ZeroTyped
  <2>5. stack \in [Worker -> Seq(Frames)]
    <3>1. stack[first] \in Seq(Frames)
      BY <1>1, FirstFrames
    <3>2. \A w \in Worker \ {first} : stack[w] \in Seq(Frames)
      <4>1. \A n \in Node : <<n, 1>> \in Frames
        BY DEF Frames
      <4>2. \A f \in Frames : <<f>> \in Seq(Frames)
        OBVIOUS
      <4>3. \A w \in Worker \ {first} : <<<<Given1(w), 1>>>> \in Seq(Frames)
        BY <1>3, <4>1, <4>2
      <4>4. \A w \in Worker \ {first} : stack[w] = <<>> \/ stack[w] = <<<<Given1(w), 1>>>>
        BY <1>1
      <4>5. <<>> \in Seq(Frames)
        OBVIOUS
      <4> QED
        BY <4>3, <4>4, <4>5, Zenon
    <3> QED
      BY <1>1, <3>1, <3>2
  <2>6. stolen \subseteq Node
    <3>1. \A i \in 1..given : Level(2)[i] \in AtDepth(2)
      BY <1>1, StartTasks
    <3>2. \A i \in 1..given : Level(2)[i] \in Node
      BY <3>1, DepthTwo
    <3> QED
      BY <1>2, <3>2
  <2> QED
    BY <1>1, <1>2, <2>1, <2>2, <2>3, <2>4, <2>5, <2>6 DEF SearchTyped
<1>8. ManagerTyped
  <2> USE <1>2 DEF ManagerInit
  <2>1. requested \subseteq Node /\ channel \in [Node -> {None, NoSteal}]
        /\ taskBuffer \in [Locality -> Seq(Node)]
        /\ last_remote \in [Locality -> Locality]
    OBVIOUS
  <2>2. answer \in [Worker -> Responses]
    BY DEF Responses
  <2>3. victim \in [Worker -> Victims]
    BY Several, TreeAssumption DEF NoVictim, Victims
  <2>4. \A l \in Locality : \A i \in DOMAIN inactive[l] : i \in Ids /\ inactive[l][i] \in Node
    OBVIOUS
  <2>5. \A l \in Locality : \A i \in DOMAIN active[l] : i \in Ids /\ active[l][i] \in Node
    BY Several, TreeAssumption DEF With
  <2> QED
    BY <2>1, <2>2, <2>3, <2>4, <2>5 DEF ManagerTyped
<1>9. Placed
  <2>1. \A w \in Worker : Running(w) <=> stack[w] # <<>>
    <3>1. Running(first) /\ stack[first] # <<>>
      BY <1>1, FirstFrames DEF Running, Thieving
    <3>2. \A w \in Worker \ {first} : Running(w) <=> stack[w] # <<>>
      <4>1. \A f : <<f>> # <<>>
        OBVIOUS
      <4> QED
        BY <1>1, <4>1 DEF Running, Thieving
    <3> QED
      BY <3>1, <3>2
  <2>2. \A w \in Worker : pc[w] \in Thieving \cup {"unregister"} => acc[w] = Zero
    BY <1>1 DEF Thieving
  <2>3. \A w \in Worker : answer[w] = None
    BY <1>2 DEF ManagerInit
  <2> QED
    BY <1>4, <2>1, <2>2, <2>3 DEF Placed
<1> QED
  BY <1>5, <1>6, <1>7, <1>8, <1>9 DEF Shape

\* The tasks before the first step: the root's and those given away.
LEMMA StartRuns ==
    ASSUME Init
    PROVE  /\ \A w \in Worker : Registered(w) <=> w = first
           /\ \A w \in Worker : Running(w) => w = first \/ given # 0
           /\ TaskOf(first) = Root /\ Running(first) /\ pc[first] \in {"loop", "count"}
           /\ \A w \in Worker \ {first} : Running(w) =>
                 TaskOf(w) = Given1(w) /\ Given1(w) \in Node /\ Given1(w) # Root
           /\ \A s : \A l \in Locality : \A i : Where(s, l, i) =>
                 s = Root /\ l = home[first] /\ i = id[first]
           /\ requested = {} /\ \A s \in Node : channel[s] = None
           /\ \A w \in Worker : pc[w] # "await" /\ pc[w] # "lower"
<1>1. /\ given \in Nat /\ given \in {0, others} /\ stealAll \in BOOLEAN
      /\ first \in Worker /\ pc[first] = IF Exhausted THEN "count" ELSE "loop"
      /\ \A w \in Worker \ {first} : pc[w] = IF given = 0 THEN "gone" ELSE "register"
      /\ stack = [w \in Worker |-> stack[w]] /\ acc = [w \in Worker |-> acc[w]]
      /\ stack[first] = FirstStack /\ acc[first] = NewAcc({Root} \cup Passed)
      /\ \A w \in Worker \ {first} :
            IF given = 0 THEN stack[w] = <<>> /\ acc[w] = Zero
            ELSE stack[w] = <<<<Given1(w), 1>>>> /\ acc[w] = NewAcc({Given1(w)})
  BY StartState
<1>2. ManagerInit(first, Root)
  BY DEF Init
<1>3. \A w \in Worker : Registered(w) <=> w = first
  BY <1>1 DEF Registered, Thieving
<1>4. \A w \in Worker : Running(w) => w = first \/ given # 0
  BY <1>1 DEF Running, Thieving
<1>5. TaskOf(first) = Root /\ Running(first) /\ pc[first] \in {"loop", "count"}
  BY <1>1, FirstFrames DEF TaskOf, Running, Thieving
<1>6. \A w \in Worker \ {first} : Given1(w) \in Node /\ Given1(w) # Root
  <2>1. \A w \in Worker \ {first} : Given1(w) \in Node /\ Len(Given1(w)) = 2
    BY StartTasks, DepthTwo
  <2>2. Len(Root) = 0
    BY DEF Root
  <2> QED
    BY <2>1, <2>2
<1>7. \A w \in Worker \ {first} : Running(w) => TaskOf(w) = Given1(w)
  <2>1. \A w \in Worker \ {first} : Running(w) => stack[w] = <<<<Given1(w), 1>>>>
    BY <1>1, <1>4
  <2>2. \A f : <<f>>[1] = f
    OBVIOUS
  <2>3. \A n : <<n, 1>>[1] = n
    OBVIOUS
  <2> QED
    BY <2>1, <2>2, <2>3 DEF TaskOf
<1>8. \A w \in Worker : pc[w] # "await" /\ pc[w] # "lower"
  BY <1>1
<1>9. \A s : \A l \in Locality : \A i : Where(s, l, i) =>
                 s = Root /\ l = home[first] /\ i = id[first]
  <2>1. \A s : \A w \in Worker : ~ Waits(w, s)
    BY <1>8 DEF Waits
  <2>2. \A l \in Locality : inactive[l] = <<>>
    BY <1>2 DEF ManagerInit
  <2>3. \A l \in Locality : active[l] = IF l = home[first] THEN With(<<>>, 0, Root) ELSE <<>>
    BY <1>2 DEF ManagerInit
  <2>4. \A s : \A l \in Locality : \A i : Stealable(s, l, i) =>
                 s = Root /\ l = home[first] /\ i = 0
    <3>1. With(<<>>, 0, Root) = [y \in {0} |-> Root] /\ DOMAIN <<>> = {}
      BY DEF With
    <3> QED
      BY <2>3, <3>1 DEF Stealable
  <2>5. id[first] = 0
    BY <1>1, <1>2 DEF ManagerInit
  <2> QED
    BY <2>1, <2>2, <2>4, <2>5 DEF Where, Listed
<1>10. requested = {} /\ \A s \in Node : channel[s] = None
  BY <1>2 DEF ManagerInit
<1> QED
  BY <1>3, <1>4, <1>5, <1>6, <1>7, <1>8, <1>9, <1>10

LEMMA InitSteals == Init => Steals
<1> SUFFICES ASSUME Init PROVE Steals
  OBVIOUS
<1>1. Shape
  BY InitShape
<1>2. ActiveOnce
  <2>1. \A s : \A l \in Locality : \A i : Stealable(s, l, i) => l = home[first] /\ i = id[first]
    BY StartRuns DEF Where, Listed
  <2> QED
    BY <2>1 DEF ActiveOnce
<1>3. WaitsOnce /\ WaitsOrActive
  BY StartRuns DEF WaitsOnce, WaitsOrActive, Waits
<1>4. Paired
  BY StartRuns DEF Paired
<1>5. Flagged
  BY StartRuns DEF Flagged
<1>6. Silent
  BY StartRuns, TreeAssumption DEF Silent
<1>7. Distinct
  <2> SUFFICES ASSUME NEW v \in Worker, NEW w \in Worker, Running(v), Running(w),
                      TaskOf(v) = TaskOf(w)
               PROVE  v = w
    BY DEF Distinct
  <2>1. CASE v # first /\ w # first
    <3>1. Given1(v) = Given1(w)
      BY <2>1, StartRuns
    <3> QED
      BY <2>1, <3>1, StartTasks
  <2>2. CASE v = first \/ w = first
    BY <2>2, StartRuns
  <2> QED
    BY <2>1, <2>2
<1>8. Unknown
  <2> SUFFICES ASSUME NEW w \in Worker, pc[w] = "register", Known(TaskOf(w))
               PROVE  FALSE
    BY DEF Unknown
  <2>1. w # first /\ Running(w)
    BY StartRuns DEF Running, Thieving
  <2>2. TaskOf(w) \in Node /\ TaskOf(w) # Root
    BY <2>1, StartRuns
  <2> QED
    BY <2>2, StartRuns DEF Known
<1> QED
  BY <1>2, <1>3, <1>4, <1>5, <1>6, <1>7, <1>8 DEF Steals

LEMMA InitContinues == Init => Continues
BY DEF Init, SharedInit, Continues
-----------------------------------------------------------------------------
\* What a frame has, read off the paths: the nodes below its own whose next
\* step is to a child not generated yet.
LEMMA UnderChild ==
    ASSUME NEW m \in Node, NEW i \in 1..numChildren(m), NEW n \in Subtree(Child(m, i))
    PROVE  n \in Below(m) /\ n[Len(m) + 1] = i
<1>1. i \in Nat /\ Len(m) \in Nat
  BY NumChildrenNat, NodeTyped
<1>2. Len(Child(m, i)) = Len(m) + 1 /\ Child(m, i)[Len(m) + 1] = i
  BY <1>1, ChildTyped
<1>3. n \in Below(m)
  BY SubtreeOfChild
<1>4. CASE n = Child(m, i)
  BY <1>2, <1>3, <1>4
<1>5. CASE n \in Below(Child(m, i))
  <2> DEFINE k == Len(m) + 1
  <2>1. n \in Seq(Nat) /\ Len(n) > k /\ SubSeq(n, 1, k) = Child(m, i) /\ k \in Nat \ {0}
    BY <1>1, <1>2, <1>5, NodeTyped DEF Below
  <2> HIDE DEF k
  <2>2. SubSeq(n, 1, k)[k] = n[k]
    BY <2>1
  <2>3. Child(m, i)[k] = i
    BY <1>2 DEF k
  <2> QED
    BY <1>3, <2>1, <2>2, <2>3 DEF k
<1> QED
  BY <1>4, <1>5 DEF Subtree

LEMMA FrameOver ==
    ASSUME NEW s \in Seq(Frames), NEW i \in 1..Len(s), NEW m \in Node, NEW k \in Nat \ {0},
           s[i] = <<m, k>>, NEW n \in Node
    PROVE  FrameHas(s, i, n) <=> n \in Below(m) /\ n[Len(m) + 1] >= k
<1>1. s[i][1] = m /\ s[i][2] = k
  OBVIOUS
<1>2. FrameHas(s, i, n) <=>
         \E j \in 1..numChildren(m) : j >= k /\ n \in Subtree(Child(m, j))
  BY <1>1 DEF FrameHas
<1>3. ASSUME FrameHas(s, i, n) PROVE n \in Below(m) /\ n[Len(m) + 1] >= k
  <2>1. PICK j \in 1..numChildren(m) : j >= k /\ n \in Subtree(Child(m, j))
    BY <1>2, <1>3
  <2> QED
    BY <2>1, UnderChild
<1>4. ASSUME n \in Below(m), n[Len(m) + 1] >= k PROVE FrameHas(s, i, n)
  <2>1. PICK j \in 1..numChildren(m) : n \in Below(Child(m, j)) \cup {Child(m, j)}
    BY <1>4, BelowThroughChild
  <2>2. n \in Subtree(Child(m, j))
    BY <2>1 DEF Subtree
  <2>3. n[Len(m) + 1] = j
    BY <2>2, UnderChild
  <2> QED
    BY <1>2, <1>4, <2>2, <2>3
<1> QED
  BY <1>3, <1>4

\* The first two steps of a path.
LEMMA PathStarts ==
    ASSUME NEW n \in Node
    PROVE  /\ Len(n) \in Nat /\ (n = Root <=> Len(n) = 0) /\ (n \in Below(Root) <=> n # Root)
           /\ \A i : n = <<i>> <=> Len(n) = 1 /\ n[1] = i
           /\ \A i : n \in Below(<<i>>) <=> Len(n) > 1 /\ n[1] = i
           /\ \A p \in AtDepth(2) : n \in Subtree(p) <=> Len(n) > 1 /\ n[1] = p[1] /\ n[2] = p[2]
<1>1. n \in Seq(Nat) /\ Len(n) \in Nat
  BY NodeTyped
<1>2. n = Root <=> Len(n) = 0
  BY <1>1 DEF Root
<1>3. n \in Below(Root) <=> n # Root
  BY <1>1, <1>2, BelowRoot DEF Below, Root
<1>4. \A i : n = <<i>> <=> Len(n) = 1 /\ n[1] = i
  BY <1>1
<1>5. \A i : n \in Below(<<i>>) <=> Len(n) > 1 /\ n[1] = i
  <2> SUFFICES ASSUME NEW i, Len(n) > 1 PROVE SubSeq(n, 1, 1) = <<i>> <=> n[1] = i
    <3>1. \A i : Len(<<i>>) = 1
      OBVIOUS
    <3>2. \A i : n \in Below(<<i>>) <=> Len(n) > 1 /\ SubSeq(n, 1, 1) = <<i>>
      BY <3>1 DEF Below
    <3> QED
      BY <3>2
  <2> DEFINE s == SubSeq(n, 1, 1)
  <2>1. s \in Seq(Nat) /\ Len(s) = 1 /\ s[1] = n[1]
    BY <1>1
  <2> HIDE DEF s
  <2>2. s = <<i>> <=> n[1] = i
    BY <2>1
  <2> QED
    BY <2>2 DEF s
<1>6. \A p \in AtDepth(2) : n \in Subtree(p) <=> Len(n) > 1 /\ n[1] = p[1] /\ n[2] = p[2]
  <2> SUFFICES ASSUME NEW p \in AtDepth(2)
               PROVE  n \in Subtree(p) <=> Len(n) > 1 /\ n[1] = p[1] /\ n[2] = p[2]
    OBVIOUS
  <2>1. p \in Node /\ p \in Seq(Nat) /\ Len(p) = 2
    BY DepthTwo, NodeTyped
  <2>2. n \in Subtree(p) <=> n = p \/ (Len(n) > 2 /\ SubSeq(n, 1, 2) = p)
    BY <2>1 DEF Subtree, Below
  <2>3. ASSUME Len(n) > 1 PROVE SubSeq(n, 1, 2) = p <=> n[1] = p[1] /\ n[2] = p[2]
    <3> DEFINE s == SubSeq(n, 1, 2)
    <3>1. s \in Seq(Nat) /\ Len(s) = 2 /\ s[1] = n[1] /\ s[2] = n[2]
      BY <1>1, <2>3
    <3> HIDE DEF s
    <3>2. s[1] = p[1] /\ s[2] = p[2] => s = p
      <4>1. \A i \in 1..2 : i = 1 \/ i = 2
        OBVIOUS
      <4> QED
        BY <2>1, <3>1, <4>1, SeqEqual
    <3> QED
      BY <3>1, <3>2 DEF s
  <2>4. n = p <=> Len(n) = 2 /\ n[1] = p[1] /\ n[2] = p[2]
    BY <1>1, <2>1
  <2> QED
    BY <1>1, <2>2, <2>3, <2>4
<1> QED
  BY <1>1, <1>2, <1>3, <1>4, <1>5, <1>6

\* What stands for a node before the first step.
LEMMA StartShared ==
    ASSUME Init, NEW n \in Node
    PROVE  /\ Shared(n) = {} /\ \A w \in Worker : TasksWith(InTransit(w), n) = {} /\ Hand(w) = {}
           /\ \A w \in Worker : \A c : c \in Held(w, n) <=>
                 \/ \E i \in FramesWith(stack[w], n) : Walking(w) /\ c = <<"frame", w, i>>
                 \/ \E i \in 1..acc[w][n] : c = <<"acc", w, i>>
<1>1. /\ counted = Zero /\ \A w \in Worker : answer[w] = None
      /\ \A l \in Locality : taskBuffer[l] = <<>>
  BY DEF Init, ManagerInit
<1>2. TasksWith(<<>>, n) = {}
  BY DEF TasksWith
<1>3. Shared(n) = {}
  <2>1. counted[n] = 0 /\ 1..0 = {}
    BY <1>1 DEF Zero
  <2>2. \A c : c \notin Shared(n)
    BY <1>1, <1>2, <2>1, SharedNames
  <2> QED
    BY <2>2
<1>4. \A w \in Worker : TasksWith(InTransit(w), n) = {}
  BY <1>1, <1>2, NoTransit
<1>5. \A w \in Worker : Hand(w) = {}
  <2>1. \A w \in Worker : pc[w] \in {"count", "loop", "gone", "register"}
    BY StartState
  <2>2. \A w \in Worker : pc[w] \notin ProcessPlaces \ {"free"}
    BY <2>1 DEF ProcessPlaces
  <2> QED
    BY <2>2, EmptyHand
<1>6. \A w \in Worker : \A c : c \in Held(w, n) <=>
                 \/ \E i \in FramesWith(stack[w], n) : Walking(w) /\ c = <<"frame", w, i>>
                 \/ \E i \in 1..acc[w][n] : c = <<"acc", w, i>>
  BY <1>4, <1>5, HeldNames
<1> QED
  BY <1>3, <1>4, <1>5, <1>6

LEMMA AccOf ==
    ASSUME NEW S, NEW n \in Node
    PROVE  \A i : i \in 1..NewAcc(S)[n] <=> i = 1 /\ Kind = "Enumeration" /\ n \in S
<1>1. 1..0 = {} /\ 1..1 = {1}
  OBVIOUS
<1>2. NewAcc(S)[n] = IF Kind = "Enumeration" /\ n \in S THEN 1 ELSE 0
  BY DEF NewAcc
<1> QED
  BY <1>1, <1>2

LEMMA StartOthers ==
    ASSUME Init, NEW w \in Worker \ {first}, NEW n \in Node
    PROVE  \A c : c \in Held(w, n) <=>
              given # 0 /\ \/ n \in Below(Given1(w)) /\ c = <<"frame", w, 1>>
                           \/ n = Given1(w) /\ Kind = "Enumeration" /\ c = <<"acc", w, 1>>
<1>1. /\ pc[w] = IF given = 0 THEN "gone" ELSE "register"
      /\ IF given = 0 THEN stack[w] = <<>> /\ acc[w] = Zero
         ELSE stack[w] = <<<<Given1(w), 1>>>> /\ acc[w] = NewAcc({Given1(w)})
  BY StartState
<1>2. Given1(w) \in Node
  BY StartTasks, DepthTwo
<1>3. CASE given = 0
  <2>1. ~ Walking(w) /\ 1..acc[w][n] = {}
    BY <1>1, <1>3 DEF Walking, Thieving, Zero
  <2> QED
    BY <1>3, <2>1, StartShared
<1>4. CASE given # 0
  <2>1. Walking(w)
    BY <1>1, <1>4 DEF Walking, Thieving
  <2>2. PICK s : s = <<<<Given1(w), 1>>>>
    OBVIOUS
  <2>3. /\ s \in Seq(Frames) /\ Len(s) = 1 /\ s[1] = <<Given1(w), 1>>
    <3>1. <<Given1(w), 1>> \in Frames
      BY <1>2 DEF Frames
    <3> QED
      BY <2>2, <3>1
  <2>4. FrameHas(s, 1, n) <=> n \in Below(Given1(w))
    <3>1. 1 \in 1..Len(s)
      BY <2>3
    <3> QED
      BY <1>2, <2>3, <3>1, NewFrameHas
  <2>5. \A i : i \in FramesWith(s, n) <=> i = 1 /\ n \in Below(Given1(w))
    <3>1. \A i : i \in FramesWith(s, n) <=> i \in 1..1 /\ FrameHas(s, i, n)
      BY <2>3, FramesAre
    <3>2. \A i \in 1..1 : i = 1
      OBVIOUS
    <3> QED
      BY <2>4, <3>1, <3>2
  <2>6. \A i : i \in 1..acc[w][n] <=> i = 1 /\ Kind = "Enumeration" /\ n \in {Given1(w)}
    BY <1>1, <1>4, AccOf
  <2>7. stack[w] = s
    BY <1>1, <1>4, <2>2
  <2> QED
    BY <1>4, <2>1, <2>5, <2>6, <2>7, StartShared
<1> QED
  BY <1>3, <1>4

LEMMA StartFirst ==
    ASSUME Init, NEW n \in Node
    PROVE  \A c : c \in Held(first, n) <=>
              \/ \E i \in 1..Len(FirstStack) :
                    ~ Exhausted /\ FrameHas(FirstStack, i, n) /\ c = <<"frame", first, i>>
              \/ n \in {Root} \cup Passed /\ Kind = "Enumeration" /\ c = <<"acc", first, 1>>
<1>1. /\ first \in Worker /\ pc[first] = IF Exhausted THEN "count" ELSE "loop"
      /\ stack[first] = FirstStack /\ acc[first] = NewAcc({Root} \cup Passed)
  BY StartState
<1>2. Walking(first) <=> ~ Exhausted
  BY <1>1 DEF Walking, Thieving
<1>3. \A i : i \in FramesWith(FirstStack, n) <=>
             i \in 1..Len(FirstStack) /\ FrameHas(FirstStack, i, n)
  BY FirstFrames, FramesAre
<1>4. \A i : i \in 1..acc[first][n] <=> i = 1 /\ Kind = "Enumeration" /\ n \in {Root} \cup Passed
  <2> DEFINE S == {Root} \cup Passed
  <2>1. acc[first] = NewAcc(S)
    BY <1>1
  <2> HIDE DEF S
  <2>2. \A i : i \in 1..acc[first][n] <=> i = 1 /\ Kind = "Enumeration" /\ n \in S
    BY <2>1, AccOf
  <2> QED
    BY <2>2 DEF S
<1>5. \A c : c \in Held(first, n) <=>
                 \/ \E i \in FramesWith(FirstStack, n) : Walking(first) /\ c = <<"frame", first, i>>
                 \/ \E i \in 1..acc[first][n] : c = <<"acc", first, i>>
  BY <1>1, StartShared
<1> QED
  BY <1>2, <1>3, <1>4, <1>5

\* The frames and the count of the main thread, read off the paths: with the
\* last task given away at m, it goes on after m on either level.
FirstAfter(m, n) ==
    /\ Len(FirstStack) = 2
    /\ FrameHas(FirstStack, 1, n) <=> Len(n) > 0 /\ n[1] > m[1]
    /\ FrameHas(FirstStack, 2, n) <=> Len(n) > 1 /\ n[1] = m[1] /\ n[2] > m[2]
    /\ n \in {Root} \cup Passed <=> Len(n) = 0 \/ (Len(n) = 1 /\ n[1] <= m[1])

LEMMA FirstFrom ==
    ASSUME Init, NEW n \in Node, given = 0 \/ Exhausted
    PROVE  /\ Len(FirstStack) = 1 /\ (FrameHas(FirstStack, 1, n) <=> n # Root)
           /\ n \in {Root} \cup Passed <=> Len(n) = 0 \/ (Exhausted /\ Len(n) = 1)
<1>0. Root \in Node /\ Len(n) \in Nat
  BY TreeAssumption, NodeTyped
<1>1. FirstStack = <<<<Root, 1>>>>
  BY DEF FirstStack
<1>2. Len(FirstStack) = 1 /\ FirstStack[1] = <<Root, 1>> /\ FirstStack \in Seq(Frames)
  BY <1>1, FirstFrames
<1>3. FrameHas(FirstStack, 1, n) <=> n \in Below(Root)
  <2>1. 1 \in 1..Len(FirstStack)
    BY <1>2
  <2> QED
    BY <1>0, <1>2, <2>1, NewFrameHas
<1>4. n \in Children(Root) <=> Len(n) = 1
  <2>1. n \in Children(Root) <=> Len(n) = Len(Root) + 1 /\ SubSeq(n, 1, Len(Root)) = Root
    BY <1>0, ChildrenExact DEF NextLevel
  <2>2. Len(n) > Len(Root) <=> n \in Below(Root)
    BY <1>0, PathStarts DEF Root
  <2>3. Len(Root) = 0
    BY DEF Root
  <2>4. Len(n) > Len(Root) => SubSeq(n, 1, Len(Root)) = Root
    BY <2>2 DEF Below
  <2> QED
    BY <1>0, <2>1, <2>3, <2>4
<1>5. Exhausted => given # 0
  BY StartState
<1>6. n \in Passed <=> Exhausted /\ Len(n) = 1
  BY <1>4, <1>5 DEF Passed, PassedBy, Exhausted
<1> QED
  BY <1>2, <1>3, <1>6, PathStarts

LEMMA FirstPast ==
    ASSUME Init, NEW n \in Node, given # 0, ~ Exhausted
    PROVE  FirstAfter(Level(2)[given], n)
<1> DEFINE m == Level(2)[given]
<1>1. m \in AtDepth(2)
  BY StartState, StartTasks
<1>2. m[1] \in Nat \ {0} /\ m[2] \in Nat \ {0} /\ <<m[1]>> \in Node
  BY <1>1, DepthTwo
<1>3. /\ Root \in Node /\ Len(n) \in Nat /\ \A i \in 1..Len(n) : n[i] \in Nat \ {0}
      /\ Len(Root) = 0
  BY TreeAssumption, NodeTyped DEF Root
<1>4. FirstStack = <<<<Root, m[1] + 1>>, <<<<m[1]>>, m[2] + 1>>>>
        /\ Passed = {<<i>> : i \in 1..m[1]}
  BY DEF FirstStack, Passed, PassedBy, Exhausted
<1>5. FirstStack \in Seq(Frames)
  BY FirstFrames
<1> HIDE DEF m
<1>6. /\ Len(FirstStack) = 2 /\ FirstStack[1] = <<Root, m[1] + 1>>
      /\ FirstStack[2] = <<<<m[1]>>, m[2] + 1>>
  BY <1>4
<1>7. FrameHas(FirstStack, 1, n) <=> Len(n) > 0 /\ n[1] > m[1]
  <2>1. 1 \in 1..Len(FirstStack) /\ m[1] + 1 \in Nat \ {0}
    BY <1>2, <1>6
  <2>2. FrameHas(FirstStack, 1, n) <=> n \in Below(Root) /\ n[Len(Root) + 1] >= m[1] + 1
    BY <1>3, <1>5, <1>6, <2>1, FrameOver
  <2>3. n \in Below(Root) <=> Len(n) > 0
    BY <1>3, PathStarts
  <2>4. Len(n) > 0 => n[1] \in Nat
    BY <1>3
  <2> QED
    BY <1>2, <1>3, <2>2, <2>3, <2>4
<1>8. FrameHas(FirstStack, 2, n) <=> Len(n) > 1 /\ n[1] = m[1] /\ n[2] > m[2]
  <2>1. 2 \in 1..Len(FirstStack) /\ m[2] + 1 \in Nat \ {0} /\ Len(<<m[1]>>) = 1
    BY <1>2, <1>6
  <2>2. FrameHas(FirstStack, 2, n) <=> n \in Below(<<m[1]>>) /\ n[2] >= m[2] + 1
    <3>1. PICK q \in Node : q = <<m[1]>>
      BY <1>2
    <3>2. FirstStack[2] = <<q, m[2] + 1>> /\ Len(q) + 1 = 2
      BY <1>6, <2>1, <3>1
    <3>3. FrameHas(FirstStack, 2, n) <=> n \in Below(q) /\ n[Len(q) + 1] >= m[2] + 1
      BY <1>5, <2>1, <3>2, FrameOver
    <3> QED
      BY <3>1, <3>2, <3>3
  <2>3. n \in Below(<<m[1]>>) <=> Len(n) > 1 /\ n[1] = m[1]
    BY PathStarts
  <2>4. Len(n) > 1 => n[2] \in Nat
    BY <1>3
  <2> QED
    BY <1>2, <2>2, <2>3, <2>4
<1>9. n \in {Root} \cup Passed <=> Len(n) = 0 \/ (Len(n) = 1 /\ n[1] <= m[1])
  <2>1. n \in Passed <=> \E i \in 1..m[1] : n = <<i>>
    BY <1>4
  <2>2. n \in Passed <=> Len(n) = 1 /\ n[1] \in 1..m[1]
    BY <2>1, PathStarts
  <2>3. Len(n) = 1 => n[1] \in Nat \ {0}
    BY <1>3
  <2> QED
    BY <1>2, <1>3, <2>2, <2>3, PathStarts
<1>10. FirstAfter(m, n)
  BY <1>6, <1>7, <1>8, <1>9 DEF FirstAfter
<1> QED
  BY <1>10 DEF m

\* Of two nodes at depth two, the one with the higher place.
LEMMA PlaceAfter ==
    ASSUME NEW j \in 1..Len(Level(2)), NEW k \in 1..Len(Level(2)), j <= k,
           NEW p, p = Level(2)[j], NEW m, m = Level(2)[k]
    PROVE  \/ p[1] < m[1]
           \/ p[1] = m[1] /\ p[2] <= m[2]
<1>1. p \in AtDepth(2) /\ m \in AtDepth(2) /\ Place(p) = j /\ Place(m) = k
  BY StartTasks, LevelExact
<1>2. p \in Node /\ m \in Node /\ Len(p) = 2 /\ Len(m) = 2
      /\ p[1] \in Nat /\ p[2] \in Nat /\ m[1] \in Nat /\ m[2] \in Nat
  BY <1>1, DepthTwo
<1>3. ~ Before(m, p)
  BY <1>1, PlaceMonotone
<1>4. CASE p = m
  BY <1>2, <1>4
<1>5. CASE p # m
  <2>1. Before(p, m)
    BY <1>2, <1>3, <1>5, BeforeTotal
  <2>2. PICK i \in 1..2 : p[i] < m[i] /\ \A e \in 1..i - 1 : p[e] = m[e]
    BY <1>2, <2>1 DEF Before
  <2>3. CASE i = 1
    BY <2>2, <2>3
  <2>4. CASE i = 2
    <3>1. 1 \in 1..i - 1
      BY <2>4
    <3> QED
      BY <1>2, <2>2, <2>4, <3>1
  <2> QED
    BY <2>3, <2>4
<1> QED
  BY <1>4, <1>5
-----------------------------------------------------------------------------
LEMMA UnderTwo ==
    ASSUME NEW n \in Node, NEW p \in AtDepth(2)
    PROVE  /\ n \in Subtree(p) <=> Len(n) > 1 /\ n[1] = p[1] /\ n[2] = p[2]
           /\ p \in Node /\ Len(p) = 2 /\ p[1] \in Nat /\ p[2] \in Nat
BY PathStarts, DepthTwo

\* Before the first step each node is the first thread's or belongs to one of
\* the tasks given away.
LEMMA StartApart ==
    ASSUME Init, NEW n \in Node
    PROVE  /\ \A w \in Worker \ {first} : Held(w, n) # {} => given # 0 /\ n \in Subtree(Given1(w))
           /\ \A v, w \in Worker \ {first} :
                 n \in Subtree(Given1(v)) /\ n \in Subtree(Given1(w)) => v = w
           /\ \A w \in Worker \ {first} :
                 given # 0 /\ n \in Subtree(Given1(w)) => Held(first, n) = {}
<1>1. \A w \in Worker \ {first} : Held(w, n) # {} => given # 0 /\ n \in Subtree(Given1(w))
  BY StartOthers DEF Subtree
<1>2. ASSUME NEW v \in Worker \ {first}, NEW w \in Worker \ {first},
             n \in Subtree(Given1(v)), n \in Subtree(Given1(w))
      PROVE  v = w
  <2>1. PICK p \in AtDepth(2), q \in AtDepth(2) : p = Given1(v) /\ q = Given1(w)
    BY StartTasks
  <2>2. n \in Subtree(p) /\ n \in Subtree(q)
    BY <1>2, <2>1
  <2>3. p[1] = q[1] /\ p[2] = q[2] /\ p \in Node /\ Len(p) = 2 /\ Len(q) = 2
    BY <2>2, UnderTwo
  <2>4. p \in Subtree(q)
    BY <2>3, UnderTwo
  <2>5. p = q
    <3>1. Len(p) = 2 /\ Len(q) = 2
      BY <2>3
    <3>2. p \in Subtree(q) => p = q
      BY <3>1 DEF Subtree, Below
    <3> QED
      BY <2>4, <3>2
  <2> QED
    BY <2>1, <2>5, StartTasks
<1>3. ASSUME NEW w \in Worker \ {first}, given # 0, n \in Subtree(Given1(w))
      PROVE  Held(first, n) = {}
  <2>1. PICK p \in AtDepth(2) : p = Given1(w)
    BY StartTasks
  <2>2. Len(n) > 1 /\ n[1] = p[1] /\ n[2] = p[2] /\ Len(n) \in Nat
    BY <1>3, <2>1, PathStarts
  <2>3. CASE Exhausted
    <3>1. n \notin {Root} \cup Passed
      BY <2>2, <2>3, FirstFrom
    <3> QED
      BY <2>3, <3>1, StartFirst
  <2>4. CASE ~ Exhausted
    <3>1. PICK m : m = Level(2)[given]
      OBVIOUS
    <3>2. FirstAfter(m, n)
      BY <1>3, <2>4, <3>1, FirstPast
    <3>3. /\ initial[w] \in 1..Len(Level(2)) /\ given \in 1..Len(Level(2)) /\ initial[w] <= given
          /\ p = Level(2)[initial[w]]
      <4>1. given = others /\ others \in Nat /\ Len(Level(2)) \in Nat /\ others <= Len(Level(2))
            /\ initial[w] \in 1..others
        BY <1>3, StartState, StartTasks
      <4> QED
        BY <1>3, <4>1, <2>1 DEF Given1
    <3>4. p[1] < m[1] \/ (p[1] = m[1] /\ p[2] <= m[2])
      BY <3>1, <3>3, PlaceAfter
    <3>5. m \in AtDepth(2) /\ m[1] \in Nat /\ m[2] \in Nat /\ p[1] \in Nat /\ p[2] \in Nat
      BY <3>1, <3>3, StartTasks, DepthTwo
    <3>6. /\ ~ FrameHas(FirstStack, 1, n) /\ ~ FrameHas(FirstStack, 2, n)
          /\ n \notin {Root} \cup Passed /\ Len(FirstStack) = 2
      BY <2>2, <3>2, <3>4, <3>5 DEF FirstAfter
    <3>7. \A i \in 1..Len(FirstStack) : i = 1 \/ i = 2
      BY <3>6
    <3>8. \A c : c \notin Held(first, n)
      BY <3>6, <3>7, StartFirst
    <3> QED
      BY <3>8
  <2> QED
    BY <2>3, <2>4
<1> QED
  BY <1>1, <1>2, <1>3

LEMMA StartFirstOnce ==
    ASSUME Init, NEW n \in Node
    PROVE  /\ AtMostOne(Held(first, n))
           /\ n = Root => \A c \in Held(first, n) : ~ Alive(c)
<1>0. Len(n) \in Nat /\ \A i \in 1..Len(n) : n[i] \in Nat
  BY NodeTyped
<1>1. CASE given = 0 \/ Exhausted
  <2>1. \A i \in 1..Len(FirstStack) : i = 1
    <3>1. Len(FirstStack) = 1
      BY <1>1, FirstFrom
    <3> QED
      BY <3>1
  <2>2. \A c : c \in Held(first, n) <=>
           \/ ~ Exhausted /\ n # Root /\ c = <<"frame", first, 1>>
           \/ n \in {Root} \cup Passed /\ Kind = "Enumeration" /\ c = <<"acc", first, 1>>
    <3>1. 1 \in 1..Len(FirstStack) /\ (FrameHas(FirstStack, 1, n) <=> n # Root)
      BY <1>1, FirstFrom
    <3> QED
      BY <2>1, <3>1, StartFirst
  <2>3. ~ (n \in {Root} \cup Passed /\ ~ Exhausted /\ n # Root)
    BY <1>1, FirstFrom, PathStarts
  <2> QED
    BY <2>2, <2>3 DEF AtMostOne, Alive
<1>2. CASE given # 0 /\ ~ Exhausted
  <2>1. PICK m : m = Level(2)[given]
    OBVIOUS
  <2>2. FirstAfter(m, n) /\ m \in AtDepth(2) /\ m[1] \in Nat /\ m[2] \in Nat
    BY <1>2, <2>1, FirstPast, StartState, StartTasks, DepthTwo
  <2>3. \A i \in 1..Len(FirstStack) : i = 1 \/ i = 2
    BY <2>2 DEF FirstAfter
  <2>4. /\ ~ (FrameHas(FirstStack, 1, n) /\ FrameHas(FirstStack, 2, n))
        /\ ~ (FrameHas(FirstStack, 1, n) /\ n \in {Root} \cup Passed)
        /\ ~ (FrameHas(FirstStack, 2, n) /\ n \in {Root} \cup Passed)
    BY <1>0, <2>2 DEF FirstAfter
  <2>5. n = Root => ~ FrameHas(FirstStack, 1, n) /\ ~ FrameHas(FirstStack, 2, n)
    BY <1>0, <2>2, PathStarts DEF FirstAfter
  <2>6. \A c : c \in Held(first, n) <=>
           \/ FrameHas(FirstStack, 1, n) /\ c = <<"frame", first, 1>>
           \/ FrameHas(FirstStack, 2, n) /\ c = <<"frame", first, 2>>
           \/ n \in {Root} \cup Passed /\ Kind = "Enumeration" /\ c = <<"acc", first, 1>>
    <3>1. 1 \in 1..Len(FirstStack) /\ 2 \in 1..Len(FirstStack)
      BY <2>2 DEF FirstAfter
    <3> QED
      BY <1>2, <2>3, <3>1, StartFirst
  <2> QED
    BY <2>4, <2>5, <2>6 DEF AtMostOne, Alive
<1> QED
  BY <1>1, <1>2

LEMMA StartOtherOnce ==
    ASSUME Init, NEW w \in Worker \ {first}, NEW n \in Node
    PROVE  /\ AtMostOne(Held(w, n))
           /\ n = Given1(w) => \A c \in Held(w, n) : ~ Alive(c)
<1>1. n \in Below(Given1(w)) => n # Given1(w)
  <2>1. Len(n) \in Nat
    BY NodeTyped
  <2> QED
    BY <2>1 DEF Below
<1> QED
  BY <1>1, StartOthers DEF AtMostOne, Alive

LEMMA StartNames ==
    ASSUME Init, NEW n \in Node
    PROVE  \A c : c \in Claims(n) <=> \E w \in Worker : c \in Held(w, n)
BY StartShared DEF Claims

LEMMA InitUnique == Init => Unique
<1> SUFFICES ASSUME Init, NEW n \in Node, NEW x \in Claims(n), NEW y \in Claims(n)
             PROVE  x = y
  BY DEF Unique, AtMostOne
<1>1. PICK v \in Worker, w \in Worker : x \in Held(v, n) /\ y \in Held(w, n)
  BY StartNames
<1>2. first \in Worker /\ \A u \in Worker : AtMostOne(Held(u, n))
  BY StartFirstOnce, StartOtherOnce, StackAssumption
<1>3. v = w
  <2>1. CASE v # first /\ w # first
    BY <1>1, <2>1, StartApart
  <2>2. CASE v = first /\ w # first
    BY <1>1, <2>2, StartApart
  <2>3. CASE v # first /\ w = first
    BY <1>1, <2>3, StartApart
  <2> QED
    BY <2>1, <2>2, <2>3
<1> QED
  BY <1>1, <1>2, <1>3 DEF AtMostOne

LEMMA InitFresh == Init => Fresh
<1> SUFFICES ASSUME Init, NEW s \in Node, Known(s) \/ Ran(s), NEW c \in Claims(s)
             PROVE  ~ Alive(c)
  BY DEF Fresh
<1>1. PICK w \in Worker : c \in Held(w, s)
  BY StartNames
<1>2. s = Root \/ \E v \in Worker \ {first} : s = Given1(v) /\ given # 0
  <2>1. CASE Known(s)
    BY <2>1, StartRuns DEF Known
  <2>2. CASE Ran(s)
    BY <2>2, StartRuns DEF Ran
  <2> QED
    BY <2>1, <2>2
<1>3. CASE s = Root
  <2>1. \A v \in Worker \ {first} : Held(v, s) = {}
    <3>1. \A v \in Worker \ {first} : s \notin Subtree(Given1(v))
      BY <1>3, StartTasks, PathStarts
    <3> QED
      BY <3>1, StartApart
  <2> QED
    BY <1>1, <1>3, <2>1, StartFirstOnce
<1>4. CASE s # Root
  <2>1. PICK v \in Worker \ {first} : s = Given1(v) /\ given # 0
    BY <1>2, <1>4
  <2>2. s \in Subtree(Given1(v))
    BY <2>1 DEF Subtree
  <2>3. w = v
    BY <1>1, <2>1, <2>2, StartApart
  <2> QED
    BY <1>1, <2>1, <2>3, StartOtherOnce
<1> QED
  BY <1>3, <1>4

\* A node at depth two or more is in the task of another scheduler, or yet to
\* come from the frames of the main thread.
LEMMA StartFound ==
    ASSUME Init, NEW n \in Node, Len(n) > 1
    PROVE  \/ \E w \in Worker \ {first} : given # 0 /\ n \in Subtree(Given1(w))
           \/ ~ Exhausted /\ \E i \in 1..Len(FirstStack) : FrameHas(FirstStack, i, n)
<1>0. Len(n) \in Nat /\ \A i \in 1..Len(n) : n[i] \in Nat \ {0}
  BY NodeTyped
<1>1. PICK k \in 1..Len(Level(2)) : n \in Subtree(Level(2)[k])
  <2> DEFINE p == SubSeq(n, 1, 2)
  <2>1. p \in Node /\ Len(p) = 2 /\ p[1] = n[1] /\ p[2] = n[2]
    <3>1. 2 \in 0..Len(n) /\ n \in Seq(Nat)
      BY <1>0, NodeTyped
    <3>2. p \in Node
      BY <3>1, TreeAssumption
    <3> QED
      BY <3>1, <3>2
  <2> HIDE DEF p
  <2>2. p \in AtDepth(2)
    BY <2>1 DEF AtDepth
  <2>3. n \in Subtree(p)
    BY <2>1, <2>2, PathStarts
  <2>4. \E k \in 1..Len(Level(2)) : Level(2)[k] = p
    BY <2>2, LevelExact
  <2> QED
    BY <2>3, <2>4
<1>2. ASSUME given # 0, k <= given
      PROVE  \E w \in Worker \ {first} : n \in Subtree(Given1(w))
  <2>1. k \in 1..others
    BY <1>2, StartState, StartTasks
  <2>2. PICK w \in Worker \ {first} : initial[w] = k
    BY <2>1, StartTasks
  <2> QED
    BY <1>1, <2>2 DEF Given1
<1>3. CASE given = 0
  <2>1. n # Root
    BY <1>0, PathStarts
  <2>2. 1 \in 1..Len(FirstStack) /\ FrameHas(FirstStack, 1, n)
    BY <1>3, <2>1, FirstFrom
  <2> QED
    BY <1>3, <2>2 DEF Exhausted
<1>4. CASE Exhausted
  <2>1. k <= given /\ given # 0
    BY <1>4, StartState, StartTasks
  <2> QED
    BY <1>2, <2>1
<1>5. CASE given # 0 /\ ~ Exhausted
  <2>1. PICK m : m = Level(2)[given]
    OBVIOUS
  <2>2. FirstAfter(m, n) /\ m \in AtDepth(2) /\ m[1] \in Nat /\ m[2] \in Nat
        /\ given \in 1..Len(Level(2))
    BY <1>5, <2>1, FirstPast, StartState, StartTasks, DepthTwo
  <2>3. CASE k <= given
    BY <1>2, <1>5, <2>3
  <2>4. CASE k > given
    <3>1. PICK p : p = Level(2)[k]
      OBVIOUS
    <3>2. p \in AtDepth(2) /\ n[1] = p[1] /\ n[2] = p[2] /\ p[1] \in Nat /\ p[2] \in Nat
      <4>1. p \in AtDepth(2)
        BY <3>1, StartTasks
      <4> QED
        BY <1>1, <3>1, <4>1, UnderTwo
    <3>3. m[1] < p[1] \/ (m[1] = p[1] /\ m[2] <= p[2])
      <4>1. given <= k
        BY <2>2, <2>4
      <4> QED
        BY <2>1, <2>2, <3>1, <4>1, PlaceAfter
    <3>4. ~ (m[1] = p[1] /\ m[2] = p[2])
      <4>1. Place(p) = k /\ Place(m) = given
        BY <2>1, <2>2, <3>1, LevelExact
      <4>2. p # m
        BY <2>2, <2>4, <4>1
      <4>3. p \in Node /\ Len(p) = 2 /\ Len(m) = 2
        BY <2>2, <3>2, DepthTwo
      <4>4. p \in Subtree(m) => p = m
        <5>1. p \in Below(m) => Len(p) > Len(m)
          BY DEF Below
        <5>2. p \notin Below(m)
          BY <4>3, <5>1
        <5> QED
          BY <5>2 DEF Subtree
      <4> QED
        BY <2>2, <4>2, <4>3, <4>4, UnderTwo
    <3>5. FrameHas(FirstStack, 1, n) \/ FrameHas(FirstStack, 2, n)
      BY <1>0, <2>2, <3>2, <3>3, <3>4 DEF FirstAfter
    <3>6. 1 \in 1..Len(FirstStack) /\ 2 \in 1..Len(FirstStack)
      BY <2>2 DEF FirstAfter
    <3> QED
      BY <1>5, <3>5, <3>6
  <2> QED
    BY <2>2, <2>3, <2>4
<1> QED
  BY <1>3, <1>4, <1>5

\* An enumeration has forgotten no node.
LEMMA StartClaimed ==
    ASSUME Init, Kind = "Enumeration", NEW n \in Node
    PROVE  Claims(n) # {}
<1>0. Len(n) \in Nat /\ \A i \in 1..Len(n) : n[i] \in Nat \ {0}
  BY NodeTyped
<1>a. first \in Worker
  BY StackAssumption
<1>1. ASSUME NEW w \in Worker \ {first}, given # 0, n \in Subtree(Given1(w))
      PROVE  Claims(n) # {}
  <2>1. \E c : c \in Held(w, n)
    BY <1>1, StartOthers DEF Subtree
  <2> QED
    BY <2>1, StartNames
<1>2. ASSUME \/ ~ Exhausted /\ \E i \in 1..Len(FirstStack) : FrameHas(FirstStack, i, n)
             \/ n \in {Root} \cup Passed
      PROVE  Claims(n) # {}
  <2>1. \E c : c \in Held(first, n)
    BY <1>2, StartFirst
  <2> QED
    BY <1>a, <2>1, StartNames
<1>3. CASE Len(n) > 1
  BY <1>1, <1>2, <1>3, StartFound
<1>4. CASE Len(n) <= 1
  <2>1. Len(n) = 0 \/ (Len(n) = 1 /\ n[1] \in Nat)
    BY <1>0, <1>4
  <2>2. CASE given = 0 \/ Exhausted
    <3>1. /\ Len(FirstStack) = 1 /\ (FrameHas(FirstStack, 1, n) <=> n # Root)
          /\ n \in {Root} \cup Passed <=> Len(n) = 0 \/ (Exhausted /\ Len(n) = 1)
      BY <2>2, FirstFrom
    <3>2. 1 \in 1..Len(FirstStack)
      BY <3>1
    <3> QED
      BY <1>2, <2>1, <2>2, <3>1, <3>2 DEF Exhausted
  <2>3. CASE given # 0 /\ ~ Exhausted
    <3>1. PICK m : m = Level(2)[given]
      OBVIOUS
    <3>2. FirstAfter(m, n) /\ m[1] \in Nat
      BY <2>3, <3>1, FirstPast, StartState, StartTasks, DepthTwo
    <3>3. 1 \in 1..Len(FirstStack)
      BY <3>2 DEF FirstAfter
    <3> QED
      BY <1>2, <2>1, <2>3, <3>2, <3>3 DEF FirstAfter
  <2> QED
    BY <2>2, <2>3
<1> QED
  BY <1>0, <1>3, <1>4
-----------------------------------------------------------------------------
\* 7. The invariant of steals, and the tasks that wait.

StealInv == Shape /\ Steals /\ Unique /\ Fresh /\ Continues

LEMMA StealInvKept == StealInv /\ [Next]_vars => StealInv'
<1> SUFFICES ASSUME StealInv, [Next]_vars PROVE StealInv'
  OBVIOUS
<1>1. Shape /\ Steals /\ Unique /\ Fresh /\ Continues
  BY DEF StealInv
<1>2. \A w \in Worker : Thief(w) => StartsNew(w)
  BY <1>1, ThiefStartsNew
<1>3. Shape'
  BY <1>1, NextShape
<1>4. Steals'
  BY <1>1, <1>2, NextSteals
<1>5. Unique'
  BY <1>1, UniqueKept
<1>6. Fresh'
  BY <1>1, FreshKept
<1>7. Continues'
  BY <1>1, ContinuesKept
<1> QED
  BY <1>3, <1>4, <1>5, <1>6, <1>7 DEF StealInv

LEMMA StealInvHolds == Spec => []StealInv
<1>1. Init => StealInv
  BY InitShape, InitSteals, InitUnique, InitFresh, InitContinues DEF StealInv
<1> QED
  BY <1>1, StealInvKept, PTL DEF Spec

\* The state of the search is well typed: the tables of the managers, the
\* stacks and what thieves wait for, whoever steals from whom.
THEOREM StackTypeCorrect == Spec => []TypeOK
<1>1. StealInv => TypeOK
  <2> SUFFICES ASSUME StealInv PROVE TypeOK
    OBVIOUS
  <2>1. Shape
    BY DEF StealInv
  <2>2. ProcessTypeOK
    BY <2>1, StateTyped DEF Shape, ProcessInv, SharedTyped, ProcessTypeOK
  <2>3. \A l \in Locality :
          /\ activeIds[l] \in Seq(Ids) /\ taskBuffer[l] \in Seq(Node)
          /\ DOMAIN active[l] \cup DOMAIN inactive[l] \subseteq Ids
          /\ Range(active[l]) \cup Range(inactive[l]) \subseteq Node
    <3> SUFFICES ASSUME NEW l \in Locality
                 PROVE  /\ activeIds[l] \in Seq(Ids) /\ taskBuffer[l] \in Seq(Node)
                        /\ DOMAIN active[l] \cup DOMAIN inactive[l] \subseteq Ids
                        /\ Range(active[l]) \cup Range(inactive[l]) \subseteq Node
      OBVIOUS
    <3>1. activeIds[l] \in Seq(Ids) /\ taskBuffer[l] \in Seq(Node)
      BY <2>1, ManagerParts, TablesAre
    <3>2. DOMAIN active[l] \cup DOMAIN inactive[l] \subseteq Ids
      BY <2>1, ManagerParts DEF EntriesTyped
    <3>3. Range(active[l]) \cup Range(inactive[l]) \subseteq Node
      BY <2>1, ManagerParts DEF EntriesTyped, Range
    <3> QED
      BY <3>1, <3>2, <3>3
  <2>4. \A w \in Worker : stack[w] \in Seq(Node \X (Nat \ {0}))
    BY <2>1, StateTyped DEF Frames
  <2> QED
    BY <2>1, <2>2, <2>3, <2>4 DEF TypeOK, Shape, SearchTyped, ManagerTyped, Places
<1> QED
  BY <1>1, StealInvHolds, PTL

\* A thread that finds a request has one thief to answer, and leaves no answer
\* behind that a later thief would take for its own.
THEOREM OneThiefEach == Spec => []OneThief
<1>1. ASSUME StealInv PROVE OneThief
  <2>1. ASSUME NEW v \in Worker, NEW w \in Worker, pc[v] = "await", pc[w] = "await",
               victim[v].state = victim[w].state
        PROVE  v = w
    BY <1>1, <2>1 DEF StealInv, Steals, WaitsOnce, Waits
  <2>2. ASSUME NEW w \in Worker, Registered(w)
        PROVE  /\ channel[TaskOf(w)] = None
               /\ pc[w] # "lower" /\ TaskOf(w) \in requested =>
                     \E v \in Worker : pc[v] = "await" /\ victim[v].state = TaskOf(w)
                                       /\ answer[v] = None
    BY <1>1, <2>2 DEF StealInv, Steals, Silent, Flagged, Waits
  <2> QED
    BY <2>1, <2>2 DEF OneThief
<1> QED
  BY <1>1, StealInvHolds, PTL

\* No thread prunes with a bound whose solution could still be lost.
THEOREM StackBoundsBacked == Spec => []BoundsBacked
<1>1. StealInv => BoundsBacked
  BY ProcessInvSafe DEF StealInv, Shape
<1> QED
  BY <1>1, StealInvHolds, PTL

\* No thread leaves its loop for a stop flag before the solution is saved.
THEOREM StackStopsBacked == Spec => []StopOnlyIfFound
<1>1. StealInv => StopOnlyIfFound
  BY ProcessInvSafe DEF StealInv, Shape
<1> QED
  BY <1>1, StealInvHolds, PTL
-----------------------------------------------------------------------------
\* The tasks that no scheduler has started, as a set.
LEMMA QueuedNames ==
    \A t : t \in Queued <=> \/ \E l \in Locality : t \in Range(taskBuffer[l])
                            \/ \E w \in Worker : t \in Range(InTransit(w))
BY DEF Queued

LEMMA RangeParts ==
    ASSUME NEW S, NEW s \in Seq(S), NEW t \in Seq(S)
    PROVE  /\ Range(s \o t) = Range(s) \cup Range(t)
           /\ s # <<>> => Range(s) = {s[1]} \cup Range(Tail(s)) /\ Tail(s) \in Seq(S)
<1>1. \A x : x \in Range(s \o t) <=> x \in Range(s) \cup Range(t)
  <2>1. /\ s \o t \in Seq(S) /\ Len(s \o t) = Len(s) + Len(t) /\ Len(s) \in Nat /\ Len(t) \in Nat
        /\ \A i \in 1..Len(s) : (s \o t)[i] = s[i]
        /\ \A i \in 1..Len(t) : (s \o t)[Len(s) + i] = t[i]
    BY ConcatProperties
  <2>2. \A i \in 1..Len(s) + Len(t) : i \in 1..Len(s) \/ \E j \in 1..Len(t) : i = Len(s) + j
    <3> SUFFICES ASSUME NEW i \in 1..Len(s) + Len(t), i \notin 1..Len(s)
                 PROVE  \E j \in 1..Len(t) : i = Len(s) + j
      OBVIOUS
    <3>1. i - Len(s) \in 1..Len(t) /\ i = Len(s) + (i - Len(s))
      BY <2>1
    <3> QED
      BY <3>1
  <2>3. /\ \A i \in 1..Len(s) : i \in 1..Len(s \o t)
        /\ \A j \in 1..Len(t) : Len(s) + j \in 1..Len(s \o t)
    BY <2>1
  <2>4. /\ Range(s \o t) = {(s \o t)[i] : i \in 1..Len(s \o t)}
        /\ Range(s) = {s[i] : i \in 1..Len(s)} /\ Range(t) = {t[i] : i \in 1..Len(t)}
    BY <2>1, RangeOf
  <2>5. ASSUME NEW x, x \in Range(s \o t) PROVE x \in Range(s) \cup Range(t)
    <3>1. PICK i \in 1..Len(s) + Len(t) : x = (s \o t)[i]
      BY <2>1, <2>4, <2>5
    <3>2. CASE i \in 1..Len(s)
      BY <2>1, <2>4, <3>1, <3>2
    <3>3. CASE \E j \in 1..Len(t) : i = Len(s) + j
      BY <2>1, <2>4, <3>1, <3>3
    <3> QED
      BY <2>2, <3>2, <3>3
  <2>6. ASSUME NEW x, x \in Range(s) \cup Range(t) PROVE x \in Range(s \o t)
    <3>1. CASE x \in Range(s)
      <4>1. PICK i \in 1..Len(s) : x = s[i]
        BY <2>4, <3>1
      <4>2. i \in 1..Len(s \o t) /\ (s \o t)[i] = x
        BY <2>1, <2>3, <4>1
      <4> QED
        BY <2>4, <4>2
    <3>2. CASE x \in Range(t)
      <4>1. PICK i \in 1..Len(t) : x = t[i]
        BY <2>4, <3>2
      <4>2. Len(s) + i \in 1..Len(s \o t) /\ (s \o t)[Len(s) + i] = x
        BY <2>1, <2>3, <4>1
      <4> QED
        BY <2>4, <4>2
    <3> QED
      BY <2>6, <3>1, <3>2
  <2> QED
    BY <2>5, <2>6
<1>2. ASSUME s # <<>> PROVE Range(s) = {s[1]} \cup Range(Tail(s)) /\ Tail(s) \in Seq(S)
  <2>1. /\ Tail(s) \in Seq(S) /\ Len(Tail(s)) = Len(s) - 1 /\ Len(s) \in Nat \ {0}
        /\ \A i \in 1..Len(s) - 1 : Tail(s)[i] = s[i + 1]
    BY <1>2, EmptySeq, HeadTailProperties
  <2>2. /\ Range(s) = {s[i] : i \in 1..Len(s)}
        /\ Range(Tail(s)) = {Tail(s)[i] : i \in 1..Len(s) - 1}
    BY <2>1, RangeOf
  <2>3. \A i \in 1..Len(s) : i = 1 \/ \E j \in 1..Len(s) - 1 : i = j + 1
    <3> SUFFICES ASSUME NEW i \in 1..Len(s), i # 1 PROVE \E j \in 1..Len(s) - 1 : i = j + 1
      OBVIOUS
    <3>1. i - 1 \in 1..Len(s) - 1 /\ i = (i - 1) + 1
      BY <2>1
    <3> QED
      BY <3>1
  <2>4. 1 \in 1..Len(s) /\ \A j \in 1..Len(s) - 1 : j + 1 \in 1..Len(s)
    BY <2>1
  <2>5. ASSUME NEW x, x \in Range(s) PROVE x \in {s[1]} \cup Range(Tail(s))
    <3>1. PICK i \in 1..Len(s) : x = s[i]
      BY <2>2, <2>5
    <3>2. CASE i = 1
      BY <3>1, <3>2
    <3>3. CASE \E j \in 1..Len(s) - 1 : i = j + 1
      <4>1. PICK j \in 1..Len(s) - 1 : i = j + 1
        BY <3>3
      <4>2. x = Tail(s)[j]
        BY <2>1, <3>1, <4>1
      <4> QED
        BY <2>2, <4>2
    <3> QED
      BY <2>3, <3>2, <3>3
  <2>6. ASSUME NEW x, x \in {s[1]} \cup Range(Tail(s)) PROVE x \in Range(s)
    <3>1. CASE x = s[1]
      BY <2>2, <2>4, <3>1
    <3>2. CASE x \in Range(Tail(s))
      <4>1. PICK j \in 1..Len(s) - 1 : x = Tail(s)[j]
        BY <2>2, <3>2
      <4>2. x = s[j + 1] /\ j + 1 \in 1..Len(s)
        BY <2>1, <2>4, <4>1
      <4> QED
        BY <2>2, <4>2
    <3> QED
      BY <2>6, <3>1, <3>2
  <2>7. Range(s) = {s[1]} \cup Range(Tail(s))
    BY <2>5, <2>6
  <2> QED
    BY <2>1, <2>7
<1> QED
  BY <1>1, <1>2

\* A step changes the stack, the child, the answer of processNode and the
\* counts of its own scheduler only.
LEMMA OthersKept ==
    ASSUME Shape, NEW w \in Worker, Step(w), NEW v \in Worker \ {w}
    PROVE  /\ pc'[v] = pc[v] /\ child'[v] = child[v] /\ ret'[v] = ret[v]
           /\ acc'[v] = acc[v] /\ stack'[v] = stack[v]
<1>0. /\ pc \in [Worker -> Places] /\ ret \in [Worker -> Answers]
      /\ child \in [Worker -> Node \cup {NoNode}]
      /\ acc \in [Worker -> [Node -> Nat]]
      /\ stack \in [Worker -> Seq(Frames)]
  BY StateTyped
<1>1. CASE Thief(w)
  <2>1. /\ UNCHANGED <<child, ret>>
        /\ (\E p : Goto(w, p)) \/ pc' = [pc EXCEPT ![w] = "await"]
    BY <1>1 DEF Thief, Loop, TakeBuffered, AskLocal, AskRemote, NoWork, ServeRemote,
       RefuseRemote, AnswerRemote, FinishRemote, FinishLocal, Use, Run, Request, Goto
  <2>2. CASE TakeBuffered(w) \/ FinishRemote(w) \/ FinishLocal(w)
    <3>1. \/ UNCHANGED <<stack, acc>>
          \/ \E s, a : stack' = [stack EXCEPT ![w] = s] /\ acc' = [acc EXCEPT ![w] = a]
      BY <2>2 DEF TakeBuffered, FinishRemote, FinishLocal, Use, Run
    <3> QED
      BY <1>0, <2>1, <3>1 DEF Goto
  <2>3. CASE ~ (TakeBuffered(w) \/ FinishRemote(w) \/ FinishLocal(w))
    <3>1. UNCHANGED <<stack, acc>>
      BY <1>1, <2>3 DEF Thief, Loop, AskLocal, AskRemote, NoWork, ServeRemote,
         RefuseRemote, AnswerRemote
    <3> QED
      BY <1>0, <2>1, <3>1 DEF Goto
  <2> QED
    BY <2>2, <2>3
<1>2. CASE ProcessChild(w)
  <2>1. Process(w) /\ UNCHANGED stack
    BY <1>2 DEF ProcessChild
  <2>2. UNCHANGED child /\ (\E p : Goto(w, p)) /\ (UNCHANGED ret \/ \E r : ret' = [ret EXCEPT ![w] = r])
    BY <2>1 DEF Process, ProcessCounted, ProcessFound, ProcessHopeless, ProcessAlive,
       CheckObjective, RaiseBound, SubmitIncumbent, StopOthers, Answer
  <2>3. UNCHANGED acc \/ acc' = [acc EXCEPT ![w][child[w]] = @ + 1]
    BY <2>1 DEF Process, ProcessCounted, ProcessFound, ProcessHopeless, ProcessAlive,
       CheckObjective, RaiseBound, SubmitIncumbent, StopOthers, Answer
  <2>4. acc'[v] = acc[v]
    BY <1>0, <2>3
  <2>5. pc'[v] = pc[v]
    BY <1>0, <2>2 DEF Goto
  <2>6. ret'[v] = ret[v]
    BY <1>0, <2>2
  <2> QED
    BY <2>1, <2>2, <2>4, <2>5, <2>6
<1>3. CASE Walk(w) /\ ~ ProcessChild(w)
  <2>1. pc'[v] = pc[v]
    BY <1>0, <1>3 DEF Walk, Goto, Register, Stop, Reply, LowerFlag, NextChild, Backtrack, Pop, Continue,
       Prune, Break, Exit, UpdateEnumerator, Unregister
  <2>2. child'[v] = child[v] /\ ret'[v] = ret[v] /\ acc'[v] = acc[v]
    BY <1>0, <1>3 DEF Walk, Register, Stop, Reply, LowerFlag, NextChild, Backtrack, Pop, Continue,
       Prune, Break, Exit, UpdateEnumerator, Unregister
  <2>3. stack'[v] = stack[v]
    BY <1>0, <1>3 DEF Walk, Register, Stop, Reply, LowerFlag, NextChild, Backtrack, Pop, Continue,
       Prune, Break, Exit, UpdateEnumerator, Unregister
  <2> QED
    BY <2>1, <2>2, <2>3
<1> QED
  BY <1>1, <1>2, <1>3 DEF Step, Walk
-----------------------------------------------------------------------------
LEMMA QueuedSame ==
    ASSUME UNCHANGED taskBuffer, \A v \in Worker : InTransit(v)' = InTransit(v)
    PROVE  Queued' = Queued
BY DEF Queued

\* Most steps leave the tasks that wait alone.
LEMMA QuietTransit ==
    ASSUME Shape, NEW w \in Worker,
           \/ Loop(w) \/ NoWork(w) \/ AskRemote(w) \/ RefuseRemote(w) \/ AskLocal(w)
           \/ ServeRemote(w) \/ AnswerRemote(w) \/ (Walk(w) /\ ~ Reply(w))
    PROVE  Queued' = Queued
<1>0. home[w] \in Locality
  BY StateTyped
<1>1. CASE Loop(w) \/ NoWork(w) \/ AskRemote(w)
  <2>1. UNCHANGED <<answer, taskBuffer>>
    BY <1>1 DEF Loop, NoWork, AskRemote, manager_vars, thief_vars
  <2> QED
    BY <2>1, QueuedSame DEF InTransit
<1>2. CASE RefuseRemote(w)
  <2>1. pc[w] = "ask" /\ answer' = [answer EXCEPT ![w] = <<>>] /\ UNCHANGED taskBuffer
    BY <1>2 DEF RefuseRemote
  <2>2. /\ answer[w] = None /\ answer'[w] = <<>>
        /\ \A v \in Worker \ {w} : answer'[v] = answer[v]
    BY <2>1, ManagerParts DEF Shape, Placed
  <2>3. \A v \in Worker : InTransit(v)' = InTransit(v)
    BY <2>2 DEF InTransit
  <2> QED
    BY <2>1, <2>3, QueuedSame
<1>3. CASE AskLocal(w) \/ ServeRemote(w)
  <2>1. PICK l \in Locality : Request(w, l)
    BY <1>0, <1>3, ManagerParts DEF AskLocal, ServeRemote, Victims
  <2>2. PICK s \in Node : answer' = [answer EXCEPT ![w] = channel[s]] /\ Goto(w, "await")
    BY <2>1, RequestTables
  <2>3. /\ answer'[w] \in {None, NoSteal} /\ answer[w] = None
        /\ \A v \in Worker \ {w} : answer'[v] = answer[v]
    BY <1>3, <2>2, ManagerParts DEF AskLocal, ServeRemote, Shape, Placed
  <2>4. \A v \in Worker : InTransit(v)' = InTransit(v)
    BY <2>3 DEF InTransit
  <2>5. UNCHANGED taskBuffer
    BY <1>3 DEF AskLocal, ServeRemote
  <2> QED
    BY <2>4, <2>5, QueuedSame
<1>4. CASE AnswerRemote(w)
  <2>1. answer[w] # None /\ answer' = [answer EXCEPT ![w] = Stolen(w)] /\ UNCHANGED taskBuffer
    BY <1>4 DEF AnswerRemote
  <2>2. answer'[w] = Stolen(w) /\ \A v \in Worker \ {w} : answer'[v] = answer[v]
    BY <2>1, ManagerParts
  <2>3. InTransit(w)' = InTransit(w)
    BY <2>1, <2>2, NothingElse DEF InTransit, Stolen
  <2>4. \A v \in Worker : InTransit(v)' = InTransit(v)
    BY <2>2, <2>3 DEF InTransit
  <2> QED
    BY <2>1, <2>4, QueuedSame
<1>5. CASE Unregister(w)
  <2>1. \A v \in Worker : answer'[v] = answer[v] \/ (answer[v] = None /\ answer'[v] = NoSteal)
    BY <1>5, UnregisterTables, SendEnd
  <2>2. \A v \in Worker : InTransit(v)' = InTransit(v)
    BY <2>1 DEF InTransit
  <2>3. UNCHANGED taskBuffer
    BY <1>5 DEF Unregister
  <2> QED
    BY <2>2, <2>3, QueuedSame
<1>6. CASE Walk(w) /\ ~ Reply(w) /\ ~ Unregister(w)
  <2>1. UNCHANGED <<answer, taskBuffer>>
    BY <1>6 DEF Walk, Register, Stop, LowerFlag, NextChild, Backtrack, ProcessChild, Continue,
       Prune, Break, Exit, UpdateEnumerator, manager_vars, thief_vars
  <2> QED
    BY <2>1, QueuedSame DEF InTransit
<1> QED
  BY <1>1, <1>2, <1>3, <1>4, <1>5, <1>6

\* A thief starts a task that waits, or goes on empty-handed.
Starts(w) == \E t \in Node : /\ stack' = [stack EXCEPT ![w] = <<<<t, 1>>>>]
                             /\ acc' = [acc EXCEPT ![w] = NewAcc({t})]
                             /\ pc'[w] = "register" /\ Queued = Queued' \cup {t}
LEMMA BufferStarts ==
    ASSUME Shape, NEW w \in Worker, TakeBuffered(w)
    PROVE  Starts(w)
<1>1. /\ home[w] \in Locality /\ taskBuffer \in [Locality -> Seq(Node)]
      /\ pc \in [Worker -> Places]
  BY StateTyped, ManagerParts
<1>2. PICK b \in Seq(Node) : b = taskBuffer[home[w]]
  BY <1>1
<1>3. /\ b # <<>> /\ Run(w, Head(b)) /\ UNCHANGED answer
      /\ taskBuffer' = [taskBuffer EXCEPT ![home[w]] = Tail(b)]
  BY <1>2 DEF TakeBuffered, thief_vars
<1>4. Range(b) = {b[1]} \cup Range(Tail(b)) /\ Head(b) = b[1] /\ b[1] \in Node
  <2>1. Range(b) = {b[1]} \cup Range(Tail(b))
    BY <1>3, RangeParts
  <2> QED
    BY <1>3, <2>1, EmptySeq, HeadTailProperties, ElementOfSeq
<1>5. \A v \in Worker : InTransit(v)' = InTransit(v)
  BY <1>3 DEF InTransit
<1>6. taskBuffer'[home[w]] = Tail(b) /\ \A l \in Locality \ {home[w]} : taskBuffer'[l] = taskBuffer[l]
  BY <1>1, <1>3
<1>7. \A t : t \in Queued' <=> \/ \E l \in Locality : t \in Range(taskBuffer'[l])
                               \/ \E v \in Worker : t \in Range(InTransit(v))
  BY <1>5 DEF Queued
<1>8. Queued = Queued' \cup {b[1]}
  <2>1. \A t : t \in Queued <=> t \in Queued' \cup {b[1]}
    <3> SUFFICES ASSUME NEW t PROVE t \in Queued <=> t \in Queued' \cup {b[1]}
      OBVIOUS
    <3>1. (\E l \in Locality : t \in Range(taskBuffer[l])) <=>
             t = b[1] \/ \E l \in Locality : t \in Range(taskBuffer'[l])
      BY <1>1, <1>2, <1>4, <1>6
    <3> QED
      BY <1>7, <3>1, QueuedNames
  <2> QED
    BY <2>1
<1>9. pc'[w] = "register"
  BY <1>1, <1>3 DEF Run, Goto
<1> QED
  BY <1>3, <1>4, <1>8, <1>9 DEF Starts, Run

LEMMA FinishStarts ==
    ASSUME Shape, NEW w \in Worker, FinishRemote(w) \/ FinishLocal(w)
    PROVE  Starts(w) \/ (UNCHANGED <<stack, acc>> /\ pc'[w] = "idle" /\ Queued' = Queued)
<1>1. PICK chunk \in Seq(Node) : Use(w, chunk) /\ chunk = InTransit(w)
  <2>1. CASE FinishRemote(w)
    <3>1. answer[w] \in Seq(Node) /\ Use(w, answer[w])
      BY <2>1 DEF FinishRemote, Shape, Placed
    <3>2. InTransit(w) = answer[w]
      BY <3>1, NothingElse DEF InTransit
    <3> QED
      BY <3>1, <3>2
  <2>2. CASE FinishLocal(w)
    <3>1. Stolen(w) \in Seq(Node) /\ Use(w, Stolen(w)) /\ answer[w] # None
      BY <2>2, StolenTyped DEF FinishLocal
    <3>2. InTransit(w) = Stolen(w)
      BY <3>1 DEF InTransit, Stolen
    <3> QED
      BY <3>1, <3>2
  <2> QED
    BY <2>1, <2>2
<1>2. /\ answer'[w] = None /\ \A v \in Worker \ {w} : answer'[v] = answer[v]
      /\ \/ chunk = <<>> /\ Goto(w, "idle") /\ UNCHANGED <<stack, acc, taskBuffer>>
         \/ chunk # <<>> /\ Run(w, chunk[1]) /\ Buffer(home[w], chunk) /\ chunk[1] \in Node
  <2>1. pc[w] \in Thieving
    BY DEF FinishRemote, FinishLocal, Thieving
  <2> QED
    BY <1>1, <2>1, UseState
<1>3. InTransit(w)' = <<>> /\ home[w] \in Locality /\ pc \in [Worker -> Places]
  BY <1>2, StateTyped DEF InTransit
<1>4. \A v \in Worker \ {w} : InTransit(v)' = InTransit(v)
  BY <1>2 DEF InTransit
<1>5. CASE chunk = <<>>
  <2>1. Goto(w, "idle") /\ UNCHANGED <<stack, acc, taskBuffer>>
    BY <1>2, <1>5
  <2>2. \A v \in Worker : InTransit(v)' = InTransit(v)
    BY <1>1, <1>3, <1>4, <1>5
  <2>3. pc'[w] = "idle"
    BY <1>3, <2>1 DEF Goto
  <2> QED
    BY <2>1, <2>2, <2>3, QueuedSame
<1>6. CASE chunk # <<>>
  <2>1. PICK l \in Locality : l = home[w]
    BY <1>3
  <2>2. PICK b, t : b = taskBuffer[l] /\ t = chunk[1]
    OBVIOUS
  <2>3. /\ Run(w, t) /\ t \in Node
        /\ taskBuffer' = [taskBuffer EXCEPT ![l] = b \o Tail(chunk)]
        /\ taskBuffer \in [Locality -> Seq(Node)]
    <3>1. Run(w, t) /\ t \in Node /\ Buffer(l, chunk)
      BY <1>2, <1>6, <2>1, <2>2
    <3> QED
      BY <1>1, <1>6, <2>2, <3>1, BufferTyped, ManagerParts
  <2>4. /\ b \in Seq(Node) /\ taskBuffer'[l] = b \o Tail(chunk)
        /\ \A m \in Locality \ {l} : taskBuffer'[m] = taskBuffer[m]
    BY <2>2, <2>3
  <2>5. Range(chunk) = {t} \cup Range(Tail(chunk)) /\ Tail(chunk) \in Seq(Node)
    BY <1>6, <2>2, RangeParts
  <2>6. Range(taskBuffer'[l]) = Range(taskBuffer[l]) \cup Range(Tail(chunk))
    <3>1. PICK c \in Seq(Node) : c = Tail(chunk)
      BY <2>5
    <3>2. Range(b \o c) = Range(b) \cup Range(c)
      BY <2>4, RangeParts
    <3> QED
      BY <2>2, <2>4, <3>1, <3>2
  <2>7. \A x : x \in Queued' <=> \/ \E m \in Locality : x \in Range(taskBuffer'[m])
                                 \/ \E v \in Worker \ {w} : x \in Range(InTransit(v))
    <3>1. \A x : x \in Queued' <=> \/ \E m \in Locality : x \in Range(taskBuffer'[m])
                                   \/ \E v \in Worker : x \in Range(InTransit(v)')
      BY DEF Queued
    <3>2. \A x : x \notin Range(<<>>)
      BY DEF Range
    <3> QED
      BY <1>3, <1>4, <3>1, <3>2
  <2>8. \A x : x \in Queued <=> \/ \E m \in Locality : x \in Range(taskBuffer[m])
                                \/ x \in Range(chunk)
                                \/ \E v \in Worker \ {w} : x \in Range(InTransit(v))
    BY <1>1, QueuedNames
  <2>9. \A x : (\E m \in Locality : x \in Range(taskBuffer'[m])) <=>
                  x \in Range(Tail(chunk)) \/ \E m \in Locality : x \in Range(taskBuffer[m])
    BY <2>4, <2>6
  <2>10. Queued = Queued' \cup {t}
    <3>1. \A x : x \in Queued <=> x \in Queued' \cup {t}
      BY <2>5, <2>7, <2>8, <2>9
    <3> QED
      BY <3>1
  <2>11. pc'[w] = "register"
    BY <1>3, <2>3 DEF Run, Goto
  <2> QED
    BY <2>3, <2>10, <2>11 DEF Starts, Run
<1> QED
  BY <1>5, <1>6

\* The children that frame i of w gives away join the tasks that wait.
GivesAway(w, i, k) ==
    /\ i \in 1..Len(stack[w]) - 1 /\ k \in 1..Len(Rest(stack[w][i]))
    /\ stack' \in [Worker -> Seq(Frames)] /\ Handed(stack[w], stack'[w], i, k)
    /\ Queued' = Queued \cup {Rest(stack[w][i])[j] : j \in 1..k}
    /\ stolen' = stolen \cup {Rest(stack[w][i])[j] : j \in 1..k}

LEMMA ReplyGives ==
    ASSUME Shape, Steals, NEW w \in Worker, Reply(w)
    PROVE  \/ UNCHANGED <<stack, stolen>> /\ Queued' = Queued
           \/ \E i, k \in Nat : GivesAway(w, i, k)
<1>1. PICK u \in Worker :
         /\ u # w /\ Waits(u, TaskOf(w)) /\ answer[u] = None
         /\ answer' = [answer EXCEPT ![u] = answer'[u]]
         /\ \/ Rich(w) = {} /\ answer'[u] = <<>> /\ UNCHANGED <<stack, stolen>>
            \/ /\ Rich(w) # {}
               /\ LET i == Shallowest(w)
                      k == IF stealAll THEN Len(Rest(stack[w][i])) ELSE 1
                  IN  /\ answer'[u] = SubSeq(Rest(stack[w][i]), 1, k)
                      /\ stack' = [stack EXCEPT ![w][i][2] = @ + k]
                      /\ stolen' = stolen \cup Range(answer'[u])
  BY ReplySends
<1>2. /\ pc[w] = "loop" /\ Running(w) /\ UNCHANGED taskBuffer
      /\ \A v \in Worker \ {u} : InTransit(v)' = InTransit(v)
      /\ InTransit(u) = <<>>
  BY <1>1, ManagerParts, NoTransit DEF Reply, Running, Thieving, InTransit
<1>3. CASE Rich(w) = {}
  <2>1. UNCHANGED <<stack, stolen>> /\ answer'[u] = <<>>
    BY <1>1, <1>3
  <2>2. InTransit(u)' = <<>>
    BY <2>1 DEF InTransit
  <2>3. \A v \in Worker : InTransit(v)' = InTransit(v)
    BY <1>2, <2>2
  <2> QED
    BY <1>2, <2>1, <2>3, QueuedSame
<1>4. CASE Rich(w) # {}
  <2>1. PICK i \in Nat, k \in Nat :
           /\ i = Shallowest(w) /\ k = IF stealAll THEN Len(Rest(stack[w][i])) ELSE 1
           /\ i \in 1..Len(stack[w]) - 1 /\ k \in 1..Len(Rest(stack[w][i]))
    BY <1>2, <1>4, GivesSome
  <2>2. /\ answer'[u] = SubSeq(Rest(stack[w][i]), 1, k) /\ Handing(w, i, k)
        /\ stolen' = stolen \cup Range(answer'[u])
    BY <1>1, <1>4, <2>1 DEF Handing
  <2>3. /\ i \in 1..Len(stack[w]) - 1 /\ k \in 1..Len(Rest(stack[w][i]))
    BY <2>1
  <2>4. /\ stack' \in [Worker -> Seq(Frames)] /\ Len(stack'[w]) = Len(stack[w])
        /\ stack'[w][i] = Advanced(stack[w][i], k)
        /\ \A j \in 1..Len(stack[w]) : j # i => stack'[w][j] = stack[w][j]
        /\ SubSeq(Rest(stack[w][i]), 1, k) \in Seq(Node)
        /\ Len(SubSeq(Rest(stack[w][i]), 1, k)) = k
        /\ \A j \in 1..k : SubSeq(Rest(stack[w][i]), 1, k)[j] = Rest(stack[w][i])[j]
    BY <1>2, <2>2, <2>3, ReplyStack
  <2>5. Handed(stack[w], stack'[w], i, k)
    BY <2>4 DEF Handed
  <2>6. PICK H \in Seq(Node) : H = answer'[u]
    BY <2>2, <2>4
  <2>7. Len(H) = k /\ \A j \in 1..k : H[j] = Rest(stack[w][i])[j]
    BY <2>2, <2>4, <2>6
  <2>8. Range(H) = {Rest(stack[w][i])[j] : j \in 1..k}
    <3>1. Range(H) = {H[j] : j \in 1..Len(H)}
      BY RangeOf
    <3> QED
      BY <2>7, <3>1
  <2>9. InTransit(u)' = H
    BY <2>6, NothingElse DEF InTransit
  <2>10. Queued' = Queued \cup Range(H)
    <3>1. \A x : x \in Queued' <=> \/ \E m \in Locality : x \in Range(taskBuffer[m])
                                   \/ \E v \in Worker : x \in Range(InTransit(v)')
      BY <1>2 DEF Queued
    <3>2. \A x : x \notin Range(<<>>)
      BY DEF Range
    <3>3. \A x : x \in Queued' <=> x \in Queued \/ x \in Range(H)
      BY <1>2, <2>9, <3>1, <3>2, QueuedNames
    <3> QED
      BY <3>3
  <2>11. stolen' = stolen \cup Range(H)
    BY <2>2, <2>6
  <2>12. GivesAway(w, i, k)
    BY <2>3, <2>4, <2>5, <2>8, <2>10, <2>11 DEF GivesAway
  <2> QED
    BY <2>1, <2>12
<1> QED
  BY <1>3, <1>4
-----------------------------------------------------------------------------
\* 8. The depth limit; no claim is lost.

\* Frames and tasks that wait are for nodes that have children within the depth
\* limit, though Continue alone looks at the limit: a frame is one level below
\* the frame before it, so the children of all frames but the last are, too.
LevelsKept(s) ==
    /\ \A i \in 1..Len(s) : Len(s[i][1]) + 1 < maxDepth
    /\ \A i \in 1..Len(s) - 1 : Len(s[i + 1][1]) = Len(s[i][1]) + 1

DepthAt(w) ==
    /\ LevelsKept(stack[w])
    /\ pc[w] \in WithChild => Len(child[w]) = Len(Current(w)) + 1

DepthKept == DepthLimited => /\ \A t \in Queued : Len(t) + 1 < maxDepth
                             /\ \A w \in Worker : DepthAt(w)

\* Nothing is counted beyond the limit.
SpaceKept == \A n \in Node \ Space : /\ counted[n] = 0
                                     /\ \A w \in Worker : acc[w][n] = 0

CountInv == /\ StealInv
            /\ Kind = "Enumeration" => /\ DepthKept /\ SpaceKept
                                       /\ \A n \in Space : Claims(n) # {}

LEMMA StepTags ==
    ASSUME NEW w \in Worker, Step(w)
    PROVE  UNCHANGED <<tags, Kind, DepthLimited, Space>>
<1>1. UNCHANGED tags
  BY DEF Step, Thief, Walk, Loop, TakeBuffered, AskLocal, AskRemote, NoWork, ServeRemote,
     RefuseRemote, AnswerRemote, FinishRemote, FinishLocal, Register, Stop, Reply, LowerFlag,
     NextChild, Backtrack, ProcessChild, Continue, Prune, Break, Exit, UpdateEnumerator,
     Unregister, Process, ProcessCounted, ProcessFound, ProcessHopeless, ProcessAlive,
     CheckObjective, RaiseBound, SubmitIncumbent, StopOthers
<1> QED
  BY <1>1 DEF Kind, DepthLimited, Space

LEMMA LevelsSame ==
    ASSUME NEW s, NEW t, LevelsKept(s), Len(s) \in Nat, Len(t) \in Nat,
           Len(t) <= Len(s), \A i \in 1..Len(t) : t[i][1] = s[i][1]
    PROVE  LevelsKept(t)
<1>1. ASSUME NEW i \in 1..Len(t) PROVE i \in 1..Len(s) /\ t[i][1] = s[i][1]
  OBVIOUS
<1>2. ASSUME NEW i \in 1..Len(t) - 1
      PROVE  i \in 1..Len(s) - 1 /\ i \in 1..Len(t) /\ i + 1 \in 1..Len(t)
  OBVIOUS
<1> QED
  BY <1>1, <1>2, Zenon DEF LevelsKept

LEMMA LevelsPushed ==
    ASSUME NEW s, NEW t, LevelsKept(s), Len(s) \in Nat \ {0}, Len(t) = Len(s) + 1,
           \A i \in 1..Len(s) : t[i][1] = s[i][1],
           Len(t[Len(s) + 1][1]) = Len(s[Len(s)][1]) + 1,
           Len(t[Len(s) + 1][1]) + 1 < maxDepth
    PROVE  LevelsKept(t)
<1>1. ASSUME NEW i \in 1..Len(t) PROVE Len(t[i][1]) + 1 < maxDepth
  <2>1. CASE i = Len(s) + 1
    BY <2>1
  <2>2. CASE i # Len(s) + 1
    <3>1. i \in 1..Len(s)
      BY <2>2
    <3> QED
      BY <3>1, Zenon DEF LevelsKept
  <2> QED
    BY <2>1, <2>2
<1>2. ASSUME NEW i \in 1..Len(t) - 1 PROVE Len(t[i + 1][1]) = Len(t[i][1]) + 1
  <2>1. CASE i = Len(s)
    BY <2>1
  <2>2. CASE i # Len(s)
    <3>1. i \in 1..Len(s) - 1 /\ i \in 1..Len(s) /\ i + 1 \in 1..Len(s)
      BY <2>2
    <3>2. Len(s[i + 1][1]) = Len(s[i][1]) + 1
      BY <3>1, Zenon DEF LevelsKept
    <3>3. t[i][1] = s[i][1] /\ t[i + 1][1] = s[i + 1][1]
      BY <3>1, Zenon
    <3> QED
      BY <3>2, <3>3, Zenon
  <2> QED
    BY <2>1, <2>2
<1> QED
  BY <1>1, <1>2 DEF LevelsKept

\* A scheduler that is not about to process or to answer.
LEMMA LevelsStay ==
    ASSUME NEW w \in Worker, NEW s \in Seq(Frames), NEW t \in Seq(Frames), s = stack[w], t = stack'[w],
           LevelsKept(s), Len(t) <= Len(s), \A i \in 1..Len(t) : t[i][1] = s[i][1],
           pc'[w] \notin WithChild
    PROVE  DepthAt(w)'
<1>1. LevelsKept(t)
  BY LevelsSame
<1> QED
  BY <1>1 DEF DepthAt

LEMMA DepthAlone ==
    ASSUME Shape, DepthKept, DepthLimited, NEW w \in Worker, Step(w), DepthAt(w)',
           \A t \in Queued' : Len(t) + 1 < maxDepth
    PROVE  DepthKept'
<1>1. ASSUME NEW v \in Worker \ {w} PROVE DepthAt(v)'
  <2>1. DepthAt(v)
    BY DEF DepthKept
  <2>2. /\ stack'[v] = stack[v] /\ pc'[v] = pc[v] /\ child'[v] = child[v]
        /\ Current(v)' = Current(v)
    BY OthersKept DEF Current, Frame
  <2> QED
    BY <2>1, <2>2 DEF DepthAt
<1> QED
  BY <1>1 DEF DepthKept

LEMMA ReplyDepth ==
    ASSUME Shape, Steals, DepthLimited, DepthKept, NEW w \in Worker, Reply(w)
    PROVE  DepthAt(w)' /\ \A t \in Queued' : Len(t) + 1 < maxDepth
<1>1. /\ LevelsKept(stack[w]) /\ \A t \in Queued : Len(t) + 1 < maxDepth
      /\ stack[w] \in Seq(Frames) /\ pc'[w] = "lower"
  BY StateTyped DEF DepthKept, DepthAt, Reply, Goto
<1>4. pc'[w] \notin WithChild
  BY <1>1 DEF WithChild, Acting
<1>2. CASE UNCHANGED stack /\ Queued' = Queued
  BY <1>1, <1>2, <1>4, LevelsStay
<1>3. ASSUME NEW i \in Nat, NEW k \in Nat, GivesAway(w, i, k)
      PROVE  DepthAt(w)' /\ \A t \in Queued' : Len(t) + 1 < maxDepth
  <2>1. PICK s \in Seq(Frames), t \in Seq(Frames) : s = stack[w] /\ t = stack'[w]
    BY <1>1, <1>3 DEF GivesAway
  <2>2. /\ i \in 1..Len(s) - 1 /\ k \in 1..Len(Rest(s[i])) /\ Handed(s, t, i, k)
        /\ Queued' = Queued \cup {Rest(s[i])[j] : j \in 1..k}
    BY <1>3, <2>1 DEF GivesAway
  <2>3. Len(t) = Len(s) /\ \A j \in 1..Len(t) : t[j][1] = s[j][1]
    BY <2>2 DEF Handed, Advanced
  <2>4. DepthAt(w)'
    BY <1>1, <1>4, <2>1, <2>3, LevelsStay
  <2>5. ASSUME NEW j \in 1..k PROVE Len(Rest(s[i])[j]) + 1 < maxDepth
    <3>1. /\ i \in 1..Len(s) /\ i + 1 \in 1..Len(s) /\ s[i] \in Frames
      BY <2>2, ElementOfSeq
    <3>2. PICK f \in Frames : f = s[i]
      BY <3>1
    <3>4. /\ f[1] \in Node /\ f[2] \in Nat \ {0} /\ Len(Rest(f)) \in Nat
          /\ \A m \in 1..Len(Rest(f)) : Rest(f)[m] = Child(f[1], f[2] + m - 1)
      BY RestTyped
    <3>5. j \in 1..Len(Rest(f)) /\ j \in Nat \ {0}
      BY <2>2, <3>2, <3>4
    <3>6. f[2] + j - 1 \in Nat
      BY <3>4, <3>5
    <3>7. Len(Child(f[1], f[2] + j - 1)) = Len(f[1]) + 1
      BY <3>4, <3>6, ChildTyped
    <3>3. Len(Rest(s[i])[j]) = Len(s[i][1]) + 1
      BY <3>2, <3>4, <3>5, <3>7
    <3> QED
      BY <1>1, <2>1, <2>2, <3>1, <3>3 DEF LevelsKept
  <2> QED
    BY <1>1, <2>2, <2>4, <2>5
<1> QED
  BY <1>2, <1>3, ReplyGives

LEMMA ReplyLowers ==
    ASSUME Shape, NEW w \in Worker, Reply(w)
    PROVE  pc'[w] = "lower"
BY StateTyped DEF Reply, Goto

LEMMA StepDepth ==
    ASSUME Shape, Steals, DepthKept, NEW w \in Worker, Step(w)
    PROVE  DepthKept'
<1> SUFFICES ASSUME DepthLimited
             PROVE  DepthAt(w)' /\ \A t \in Queued' : Len(t) + 1 < maxDepth
  <2>1. DepthLimited' = DepthLimited
    BY StepTags
  <2> QED
    BY <2>1, DepthAlone DEF DepthKept
<1>0. /\ DepthAt(w) /\ LevelsKept(stack[w]) /\ \A n \in Queued : Len(n) + 1 < maxDepth
      /\ pc \in [Worker -> Places] /\ child \in [Worker -> Node \cup {NoNode}]
      /\ stack[w] \in Seq(Frames) /\ stack \in [Worker -> Seq(Frames)]
      /\ maxDepth \in Nat
  BY StateTyped, StackAssumption DEF DepthKept, DepthAt
<1>1. CASE Starts(w)
  <2>1. PICK t \in Node : /\ stack' = [stack EXCEPT ![w] = <<<<t, 1>>>>]
                          /\ pc'[w] = "register" /\ Queued = Queued' \cup {t}
    BY <1>1 DEF Starts
  <2>2. stack'[w] = <<<<t, 1>>>> /\ Len(t) + 1 < maxDepth
    BY <1>0, <2>1
  <2>3. LevelsKept(stack'[w])
    BY <2>2 DEF LevelsKept
  <2> QED
    BY <1>0, <2>1, <2>3 DEF DepthAt, WithChild, Acting
<1>2. CASE /\ stack'[w] = stack[w] /\ Queued' = Queued
           /\ pc'[w] \notin WithChild
  BY <1>0, <1>2, LevelsStay
<1>3. CASE Reply(w)
  BY <1>3, ReplyDepth
<1>4. CASE NextChild(w)
  <2>1. PICK s \in Seq(Frames), t \in Seq(Frames), d \in Nat \ {0} :
           s = stack[w] /\ t = stack'[w] /\ d = Len(s)
    <3>1. stack'[w] \in Seq(Frames)
      BY <1>4, NextChildStack
    <3> QED
      BY <1>0, <1>4, <3>1, NextChildStack, FrameTyped
  <2>2. /\ Len(t) = d /\ t[d] = <<Current(w), Frame(w)[2] + 1>>
        /\ \A i \in 1..d - 1 : t[i] = s[i]
        /\ s[d] = <<Current(w), Frame(w)[2]>>
        /\ child'[w] = Child(Current(w), Frame(w)[2])
        /\ Current(w) \in Node /\ Frame(w)[2] \in Nat
    <3>1. Running(w)
      BY <1>4, NextChildStack
    <3> QED
      BY <1>4, <2>1, <3>1, NextChildStack, FrameTyped
  <2>3. \A i \in 1..d : t[i][1] = s[i][1]
    BY <2>2
  <2>4. Current(w)' = Current(w) /\ Len(child'[w]) = Len(Current(w)) + 1
    BY <2>1, <2>2, ChildTyped DEF Current, Frame
  <2>5. LevelsKept(t)
    <3>1. d \in Nat /\ Len(s) = d /\ Len(t) = d
      BY <2>1, <2>2
    <3>2. LevelsKept(s) /\ \A i \in 1..Len(t) : t[i][1] = s[i][1]
      BY <1>0, <2>1, <2>3, <3>1
    <3>3. /\ LevelsKept(s) /\ Len(s) \in Nat /\ Len(t) \in Nat /\ Len(t) <= Len(s)
          /\ \A i \in 1..Len(t) : t[i][1] = s[i][1]
      BY <3>1, <3>2
    <3> QED
      BY <3>3, LevelsSame
  <2>6. Queued' = Queued
    <3>1. pc'[w] = "process"
      BY <1>0, <1>4 DEF NextChild, Goto
    <3> QED
      BY <1>4, <3>1, ReplyLowers, QuietTransit DEF Walk
  <2> QED
    BY <1>0, <2>1, <2>4, <2>5, <2>6 DEF DepthAt
<1>5. CASE Backtrack(w) \/ Break(w)
  <2>1. Pop(w) /\ Running(w)
    BY <1>5, MovingPlaces DEF Backtrack, Break, Running
  <2>2. /\ stack'[w] \in Seq(Frames)
        /\ \/ Goto(w, "count") /\ stack'[w] = stack[w]
           \/ /\ Len(stack[w]) > 1 /\ Goto(w, "loop")
              /\ stack'[w] = SubSeq(stack[w], 1, Len(stack[w]) - 1)
    BY <2>1, PopStack
  <2>3. PICK s \in Seq(Frames), t \in Seq(Frames) : s = stack[w] /\ t = stack'[w]
    BY <1>0, <2>2
  <2>4. Len(t) <= Len(s) /\ \A i \in 1..Len(t) : t[i] = s[i]
    <3>1. CASE t = s
      BY <3>1
    <3>2. CASE Len(s) > 1 /\ t = SubSeq(s, 1, Len(s) - 1)
      BY <3>2
    <3> QED
      BY <2>2, <2>3, <3>1, <3>2
  <2>5. pc'[w] \in {"count", "loop"}
    BY <1>0, <2>2 DEF Goto
  <2>6. DepthAt(w)'
    BY <1>0, <2>3, <2>4, <2>5, LevelsStay DEF WithChild, Acting
  <2>7. Queued' = Queued
    BY <1>5, <2>5, ReplyLowers, QuietTransit DEF Walk
  <2> QED
    BY <1>0, <2>6, <2>7
<1>6. CASE ProcessChild(w)
  <2>1. Process(w) /\ UNCHANGED stack /\ ret \in [Worker -> Answers]
    BY <1>6, StateTyped DEF ProcessChild
  <2>2. pc[w] \in WithChild /\ UNCHANGED child /\ pc'[w] \in Acting \cup {"answered"}
    BY <1>0, <2>1, ProcessPlace DEF WithChild, Goto
  <2>3. Queued' = Queued
    BY <1>6, <2>2, ReplyLowers, QuietTransit DEF Walk, Acting
  <2> QED
    BY <1>0, <2>1, <2>2, <2>3 DEF DepthAt, Current, Frame
<1>7. CASE Continue(w)
  <2>1. /\ pc[w] = "answered" /\ pc'[w] = "loop" /\ child[w] \in Node /\ Running(w)
        /\ stack'[w] \in Seq(Frames)
    BY <1>0, <1>7, ContinueStack DEF Continue, Goto
  <2>2. Queued' = Queued
    BY <1>7, <2>1, QuietTransit DEF Walk, Reply
  <2>3. CASE Len(child[w]) + 1 = maxDepth
    <3>1. stack'[w] = stack[w]
      BY <1>7, <2>3, ContinueStack
    <3> QED
      BY <1>0, <2>1, <2>2, <3>1, LevelsStay DEF WithChild, Acting
  <2>4. CASE Len(child[w]) + 1 # maxDepth
    <3>1. PICK s \in Seq(Frames), t \in Seq(Frames), c \in Node :
             s = stack[w] /\ t = stack'[w] /\ c = child[w]
      BY <1>0, <2>1
    <3>2. t = Append(s, <<c, 1>>)
      BY <1>7, <2>4, <3>1, ContinueStack
    <3>3. PICK d \in Nat \ {0} : d = Len(s)
      BY <2>1, <3>1, FrameTyped
    <3>4. Len(t) = d + 1 /\ t[d + 1] = <<c, 1>> /\ \A i \in 1..d : t[i] = s[i]
      <4>1. <<c, 1>> \in Frames
        BY DEF Frames
      <4> QED
        BY <3>2, <3>3, <4>1, AppendProperties
    <3>5. s[d][1] = Current(w) /\ Len(c) = Len(Current(w)) + 1
      <4>1. s[d][1] = Current(w)
        BY <3>1, <3>3 DEF Current, Frame
      <4> QED
        BY <1>0, <2>1, <3>1, <4>1 DEF DepthAt, WithChild
    <3>6. Len(c) = Len(s[d][1]) + 1 /\ Len(s[d][1]) + 1 < maxDepth /\ Len(c) \in Nat
      <4>1. d \in 1..Len(s)
        BY <3>3
      <4>2. Len(s[d][1]) + 1 < maxDepth
        BY <1>0, <3>1, <4>1 DEF LevelsKept
      <4> QED
        BY <3>5, <4>2, NodeTyped
    <3>7. Len(c) + 1 < maxDepth
      <4>1. Len(c) < maxDepth /\ Len(c) + 1 # maxDepth
        BY <2>4, <3>1, <3>6
      <4> QED
        BY <1>0, <3>6, <4>1
    <3>8. LevelsKept(t)
      <4>1. /\ LevelsKept(s) /\ Len(s) \in Nat \ {0} /\ Len(t) = Len(s) + 1
            /\ \A i \in 1..Len(s) : t[i][1] = s[i][1]
            /\ Len(t[Len(s) + 1][1]) = Len(s[Len(s)][1]) + 1
            /\ Len(t[Len(s) + 1][1]) + 1 < maxDepth
        BY <1>0, <3>1, <3>3, <3>4, <3>6, <3>7
      <4> QED
        BY <4>1, LevelsPushed
    <3> QED
      BY <1>0, <2>1, <2>2, <3>1, <3>8 DEF DepthAt, WithChild, Acting
  <2> QED
    BY <2>3, <2>4
<1>8. CASE Unregister(w)
  <2>1. stack'[w] = <<>> /\ pc'[w] = "idle"
    BY <1>0, <1>8 DEF Unregister, Goto
  <2>2. Queued' = Queued
    BY <1>8, <2>1, <1>0, QuietTransit DEF Walk, Unregister, Reply
  <2> QED
    BY <1>0, <2>1, <2>2 DEF DepthAt, LevelsKept, WithChild, Acting
<1>9. CASE Register(w) \/ Stop(w) \/ LowerFlag(w) \/ Prune(w) \/ Exit(w) \/ UpdateEnumerator(w)
  <2>1. UNCHANGED stack /\ \E p \in {"loop", "count", "move", "unregister"} : Goto(w, p)
    BY <1>9 DEF Register, Stop, LowerFlag, Prune, Exit, UpdateEnumerator
  <2>2. pc'[w] \in {"loop", "count", "move", "unregister"}
    BY <1>0, <2>1 DEF Goto
  <2>3. Queued' = Queued
    BY <1>9, <2>2, <1>0, QuietTransit DEF Walk, Reply, Goto
  <2> QED
    BY <1>2, <2>1, <2>2, <2>3 DEF WithChild, Acting
<1>10. CASE Thief(w)
  <2>1. CASE \/ Loop(w) \/ NoWork(w) \/ AskRemote(w) \/ RefuseRemote(w) \/ AskLocal(w)
             \/ ServeRemote(w) \/ AnswerRemote(w)
    <3>1. UNCHANGED stack /\ \E p \in Thieving : Goto(w, p)
      BY <2>1 DEF Loop, NoWork, AskRemote, RefuseRemote, AskLocal, ServeRemote, AnswerRemote,
         Request, Goto, Thieving
    <3>2. pc'[w] \notin WithChild
      BY <1>0, <3>1 DEF Goto, Thieving, WithChild, Acting
    <3>3. Queued' = Queued
      BY <2>1, QuietTransit
    <3> QED
      BY <1>2, <3>1, <3>2, <3>3
  <2>2. CASE TakeBuffered(w)
    BY <1>1, <2>2, BufferStarts
  <2>3. CASE FinishRemote(w) \/ FinishLocal(w)
    <3>1. Starts(w) \/ (UNCHANGED <<stack, acc>> /\ pc'[w] = "idle" /\ Queued' = Queued)
      BY <2>3, FinishStarts
    <3> QED
      BY <1>1, <1>2, <3>1 DEF WithChild, Acting
  <2> QED
    BY <1>10, <2>1, <2>2, <2>3 DEF Thief
<1> QED
  BY <1>3, <1>4, <1>5, <1>6, <1>7, <1>8, <1>9, <1>10 DEF Step, Walk

LEMMA StepSpace ==
    ASSUME Shape, Kind = "Enumeration", DepthKept, SpaceKept, NEW w \in Worker, Step(w)
    PROVE  SpaceKept'
<1>0. /\ acc \in [Worker -> [Node -> Nat]] /\ counted \in [Node -> Nat]
      /\ pc \in [Worker -> Places] /\ maxDepth \in Nat /\ Space \subseteq Node
  BY StateTyped, StackAssumption DEF Space
<1>2. Space' = Space
  BY StepTags
<1> SUFFICES ASSUME NEW n \in Node \ Space
             PROVE  counted'[n] = 0 /\ acc'[w][n] = 0
  <2>1. \A v \in Worker \ {w} : acc'[v] = acc[v]
    BY OthersKept
  <2> QED
    BY <1>2, <2>1 DEF SpaceKept
<1>3. counted[n] = 0 /\ acc[w][n] = 0
  BY DEF SpaceKept
<1>4. CASE Starts(w) /\ UNCHANGED counted
  <2>1. PICK t \in Node : acc' = [acc EXCEPT ![w] = NewAcc({t})] /\ t \in Queued
    BY <1>4 DEF Starts
  <2>2. t \in Space
    <3>1. DepthLimited => Len(t) + 1 < maxDepth
      BY <2>1 DEF DepthKept
    <3> QED
      BY <1>0, <3>1, NodeTyped DEF Space
  <2>3. acc'[w] = NewAcc({t})
    BY <1>0, <2>1
  <2> QED
    BY <1>3, <1>4, <2>2, <2>3 DEF NewAcc
<1>5. CASE ProcessChild(w)
  <2>1. ProcessCounted(w) /\ UNCHANGED counted
    BY <1>5, CountingStep DEF ProcessChild, Shape, search_vars
  <2>2. pc[w] = "process" /\ child[w] \in Node /\ acc' = [acc EXCEPT ![w][child[w]] = acc[w][child[w]] + 1]
    BY <2>1, StateTyped DEF ProcessCounted
  <2>3. child[w] \in Space
    <3>1. /\ Len(stack[w]) \in Nat \ {0} /\ Current(w) = stack[w][Len(stack[w])][1]
          /\ Current(w) \in Node
      BY <2>2, FrameTyped DEF Current, Frame, Running, Thieving
    <3>2. DepthLimited => DepthAt(w)
      BY DEF DepthKept
    <3>3. DepthLimited => Len(Current(w)) + 1 < maxDepth
      BY <3>1, <3>2 DEF DepthAt, LevelsKept
    <3>4. DepthLimited => Len(child[w]) = Len(Current(w)) + 1
      BY <2>2, <3>2 DEF DepthAt, WithChild
    <3> QED
      BY <1>0, <2>2, <3>1, <3>3, <3>4, NodeTyped DEF Space
  <2> QED
    BY <1>0, <1>3, <2>1, <2>2, <2>3
<1>6. CASE UpdateEnumerator(w)
  BY <1>0, <1>3, <1>6 DEF UpdateEnumerator, Zero
<1>7. CASE Walk(w) /\ ~ ProcessChild(w) /\ ~ UpdateEnumerator(w)
  <2>1. UNCHANGED <<acc, counted>>
    BY <1>7 DEF Walk, Register, Stop, Reply, LowerFlag, NextChild, Backtrack, Continue, Prune,
       Break, Exit, Unregister, search_vars
  <2> QED
    BY <1>3, <2>1
<1>8. CASE Thief(w)
  <2>1. UNCHANGED counted
    BY <1>8 DEF Thief, Loop, TakeBuffered, AskLocal, AskRemote, NoWork, ServeRemote, RefuseRemote,
       AnswerRemote, FinishRemote, FinishLocal, search_vars
  <2>2. CASE \/ Loop(w) \/ NoWork(w) \/ AskRemote(w) \/ RefuseRemote(w) \/ AskLocal(w)
             \/ ServeRemote(w) \/ AnswerRemote(w)
    <3>1. UNCHANGED acc
      BY <2>2 DEF Loop, NoWork, AskRemote, RefuseRemote, AskLocal, ServeRemote, AnswerRemote
    <3> QED
      BY <1>3, <2>1, <3>1
  <2>3. CASE TakeBuffered(w)
    BY <1>4, <2>1, <2>3, BufferStarts
  <2>4. CASE FinishRemote(w) \/ FinishLocal(w)
    <3>1. Starts(w) \/ (UNCHANGED <<stack, acc>> /\ pc'[w] = "idle" /\ Queued' = Queued)
      BY <2>4, FinishStarts
    <3> QED
      BY <1>3, <1>4, <2>1, <3>1
  <2> QED
    BY <1>8, <2>2, <2>3, <2>4 DEF Thief
<1> QED
  BY <1>5, <1>6, <1>7, <1>8 DEF Step

\* What is claimed stays claimed.
LEMMA ClaimKept ==
    ASSUME StealInv, [Next]_vars, Kind = "Enumeration", NEW n \in Space, Claims(n) # {}
    PROVE  Claims(n)' # {}
<1>1. n \in Node
  BY DEF Space
<1>2. Moved(n) /\ AtMostOne(Claims(n))
  BY <1>1, StepMoves DEF StealInv, Unique
<1>3. PICK A, B : A = Claims(n) /\ B = Claims(n)'
  OBVIOUS
<1>4. PICK c : A = {c}
  BY <1>2, <1>3 DEF AtMostOne
<1>5. \E d : d \in B
  BY <1>2, <1>3, <1>4 DEF Moved, MovesTo
<1> QED
  BY <1>3, <1>5

LEMMA NextCountInv == CountInv /\ [Next]_vars => CountInv'
<1> SUFFICES ASSUME CountInv, [Next]_vars PROVE CountInv'
  OBVIOUS
<1>0. StealInv /\ StealInv' /\ Shape /\ Steals
  BY StealInvKept DEF CountInv, StealInv
<1>1. ASSUME NEW w \in Worker, Step(w) PROVE CountInv'
  <2>1. UNCHANGED <<Kind, Space>>
    BY <1>1, StepTags
  <2>2. CASE Kind = "Enumeration"
    <3>1. DepthKept' /\ SpaceKept'
      BY <1>0, <1>1, <2>2, StepDepth, StepSpace DEF CountInv
    <3>2. \A n \in Space : Claims(n)' # {}
      BY <1>0, <2>2, ClaimKept DEF CountInv
    <3>3. Space' = Space
      BY <2>1
    <3> QED
      BY <1>0, <3>1, <3>2, <3>3 DEF CountInv
  <2> QED
    BY <1>0, <2>1, <2>2 DEF CountInv
<1>2. CASE RootReady \/ Return \/ Deliver \/ UNCHANGED vars
  <2>1. UNCHANGED <<tags, pc, child, acc, stack, answer, taskBuffer, counted>>
    BY <1>2 DEF RootReady, Return, Deliver, Receive, ReceiveBound, ReceiveStop, vars,
       process_vars, manager_vars, thief_vars, search_vars
  <2>2. UNCHANGED <<Kind, DepthLimited, Space>>
    BY <2>1 DEF Kind, DepthLimited, Space
  <2>3. CASE Kind = "Enumeration"
    <3>1. Queued' = Queued
      BY <2>1, QueuedSame DEF InTransit
    <3>2. \A w \in Worker : DepthAt(w)' = DepthAt(w)
      BY <2>1 DEF DepthAt, Current, Frame
    <3>3. DepthKept' /\ SpaceKept'
      BY <2>1, <2>2, <2>3, <3>1, <3>2 DEF CountInv, DepthKept, SpaceKept
    <3>4. \A n \in Space : Claims(n)' # {}
      BY <1>0, <2>3, ClaimKept DEF CountInv
    <3>5. Space' = Space
      BY <2>2
    <3> QED
      BY <1>0, <3>3, <3>4, <3>5 DEF CountInv
  <2> QED
    BY <1>0, <2>2, <2>3 DEF CountInv
<1> QED
  BY <1>1, <1>2 DEF Next

LEMMA PassedShort ==
    ASSUME NEW n \in Passed
    PROVE  Len(n) = 1
<1>1. Root \in Node /\ Len(Root) = 0 /\ numChildren(Root) \in Nat
  BY TreeAssumption, NumChildrenNat DEF Root
<1>2. CASE given = 0
  BY <1>2 DEF Passed, PassedBy
<1>3. CASE given # 0 /\ Exhausted
  <2>1. n \in Children(Root)
    BY <1>3 DEF Passed, PassedBy, Exhausted
  <2>2. PICK i \in 1..numChildren(Root) : n = Child(Root, i)
    BY <2>1 DEF Children
  <2>3. i \in Nat
    BY <1>1
  <2>4. Len(Child(Root, i)) = Len(Root) + 1
    BY <1>1, <2>3, ChildTyped
  <2> QED
    BY <1>1, <2>2, <2>4
<1>4. CASE given # 0 /\ ~ Exhausted
  <2>1. Passed = {<<i>> : i \in 1..Level(2)[given][1]}
    BY <1>4 DEF Passed, PassedBy, Exhausted
  <2> QED
    BY <2>1
<1> QED
  BY <1>2, <1>3, <1>4

LEMMA InitLevels ==
    ASSUME Init
    PROVE  /\ \A w \in Worker : LevelsKept(stack[w])
           /\ \A n \in Node : \A w \in Worker : n \notin Space => acc[w][n] = 0
<1>0. /\ maxDepth \in Nat /\ maxDepth > 1 /\ (given # 0 => maxDepth > 3)
      /\ first \in Worker /\ stack[first] = FirstStack
      /\ acc[first] = NewAcc({Root} \cup Passed)
      /\ \A w \in Worker \ {first} :
            IF given = 0 THEN stack[w] = <<>> /\ acc[w] = Zero
            ELSE stack[w] = <<<<Given1(w), 1>>>> /\ acc[w] = NewAcc({Given1(w)})
  BY StartState, StackAssumption
<1>a. maxDepth \in Nat
  BY <1>0
<1>1. Len(Root) = 0
  BY DEF Root
<1>2. LevelsKept(FirstStack)
  <2>1. CASE given = 0 \/ Exhausted
    <3>1. FirstStack = <<<<Root, 1>>>>
      BY <2>1 DEF FirstStack
    <3> QED
      BY <1>0, <1>1, <3>1 DEF LevelsKept
  <2>2. CASE ~ (given = 0 \/ Exhausted)
    <3>1. PICK a, b : FirstStack = <<<<Root, a + 1>>, <<<<a>>, b + 1>>>>
      BY <2>2 DEF FirstStack
    <3>2. PICK m, f, g : m = <<a>> /\ f = <<Root, a + 1>> /\ g = <<m, b + 1>>
      OBVIOUS
    <3>3. FirstStack = <<f, g>> /\ f[1] = Root /\ g[1] = m /\ Len(m) = 1
      BY <3>1, <3>2
    <3>4. Len(FirstStack) = 2 /\ FirstStack[1][1] = Root /\ FirstStack[2][1] = m
      BY <3>3
    <3>7. PICK s : s = FirstStack
      OBVIOUS
    <3>8. Len(s) = 2 /\ Len(s[1][1]) = 0 /\ Len(s[2][1]) = 1
      BY <1>1, <3>3, <3>4, <3>7
    <3>9. maxDepth > 3
      BY <1>0, <2>2
    <3>5. \A i \in 1..2 : Len(s[i][1]) + 1 < maxDepth
      <4>1. \A i \in 1..2 : i = 1 \/ i = 2
        OBVIOUS
      <4> QED
        <5>1. Len(s[1][1]) + 1 < maxDepth
          BY <1>a, <3>8, <3>9
        <5>2. Len(s[2][1]) + 1 < maxDepth
          BY <1>a, <3>8, <3>9
        <5> QED
          BY <4>1, <5>1, <5>2
    <3>6. \A i \in 1..1 : Len(s[i + 1][1]) = Len(s[i][1]) + 1
      BY <3>8
    <3>10. LevelsKept(s)
      BY <3>5, <3>6, <3>8 DEF LevelsKept
    <3> QED
      BY <3>7, <3>10
  <2> QED
    BY <2>1, <2>2
<1>3. \A w \in Worker \ {first} : Len(Given1(w)) = 2
  BY StartTasks, DepthTwo
<1>4. ASSUME NEW w \in Worker \ {first} PROVE LevelsKept(stack[w])
  <2>1. CASE given = 0
    BY <1>0, <2>1 DEF LevelsKept
  <2>2. CASE given # 0
    <3>1. PICK m : m = Given1(w)
      OBVIOUS
    <3>3. Len(m) = 2 /\ maxDepth > 3
      BY <1>0, <1>3, <2>2, <3>1
    <3>4. stack[w] = <<<<m, 1>>>>
      BY <1>0, <2>2, <3>1
    <3>2. stack[w] = <<<<m, 1>>>> /\ Len(m) + 1 < maxDepth
      BY <1>0, <3>3, <3>4
    <3> QED
      BY <3>2 DEF LevelsKept
  <2> QED
    BY <2>1, <2>2
<1>5. ASSUME NEW n \in Node, n \notin Space PROVE ~ Len(n) < maxDepth
  BY <1>5 DEF Space
<1>6. ASSUME NEW n \in Node, n \notin Space, NEW w \in Worker PROVE acc[w][n] = 0
  <2>1. ~ Len(n) < maxDepth
    BY <1>5, <1>6
  <2>2. CASE w = first
    <3>1. n # Root /\ n \notin Passed
      BY <1>0, <1>1, <2>1, PassedShort
    <3> QED
      BY <1>0, <2>2, <3>1 DEF NewAcc
  <2>3. CASE w # first /\ given = 0
    BY <1>0, <2>3 DEF Zero
  <2>4. CASE w # first /\ given # 0
    <3>1. maxDepth > 3
      BY <1>0, <2>4
    <3>2. w \in Worker \ {first} /\ Len(Given1(w)) = 2
      BY <1>3, <2>4
    <3>6. Len(n) \in Nat
      BY NodeTyped
    <3>3. Len(n) # 2
      <4> SUFFICES ASSUME Len(n) = 2 PROVE FALSE
        OBVIOUS
      <4>1. 2 < maxDepth
        BY <1>a, <3>1
      <4>2. Len(n) < maxDepth
        BY <4>1, Zenon
      <4> QED
        BY <2>1, <4>2
    <3>4. n # Given1(w)
      BY <3>2, <3>3
    <3>5. acc[w] = NewAcc({Given1(w)})
      BY <1>0, <2>4, <3>2
    <3> QED
      BY <3>4, <3>5 DEF NewAcc
  <2> QED
    BY <2>2, <2>3, <2>4
<1> QED
  BY <1>0, <1>2, <1>4, <1>6

LEMMA InitDepth == Init => DepthKept
<1> SUFFICES ASSUME Init PROVE DepthKept
  OBVIOUS
<1>1. \A n : n \notin Queued
  <2>1. /\ \A w \in Worker : answer[w] = None
        /\ \A l \in Locality : taskBuffer[l] = <<>>
    BY DEF Init, ManagerInit
  <2>2. \A w \in Worker : InTransit(w) = <<>>
    BY <2>1 DEF InTransit
  <2>3. \A n : n \notin Range(<<>>)
    BY DEF Range
  <2> QED
    BY <2>1, <2>2, <2>3, QueuedNames
<1>2. \A w \in Worker : pc[w] \notin WithChild
  BY StartState DEF WithChild, Acting
<1> QED
  BY <1>1, <1>2, InitLevels DEF DepthKept, DepthAt

LEMMA InitCount == Init => CountInv
<1> SUFFICES ASSUME Init PROVE CountInv
  OBVIOUS
<1>1. StealInv
  BY InitShape, InitSteals, InitUnique, InitFresh, InitContinues DEF StealInv
<1>2. DepthKept
  BY InitDepth
<1>3. SpaceKept
  <2>1. counted = Zero
    BY DEF Init
  <2> QED
    BY <2>1, InitLevels DEF SpaceKept, Zero
<1>4. Kind = "Enumeration" => \A n \in Space : Claims(n) # {}
  BY StartClaimed DEF Space
<1> QED
  BY <1>1, <1>2, <1>3, <1>4 DEF CountInv

\* However tasks are stolen, in chunks or one by one, over several managers,
\* each node of an enumeration's space belongs to exactly one task that waits,
\* frame, child in hand or count.
THEOREM StealsConserve == Spec => []WorkConserved
<1>1. CountInv => WorkConserved
  <2> SUFFICES ASSUME CountInv, Kind = "Enumeration"
               PROVE  /\ \A n \in Space : Cardinality(Claims(n)) = 1
                      /\ \A n \in Node \ Space : /\ counted[n] = 0
                                                 /\ \A w \in Worker : acc[w][n] = 0
    BY DEF WorkConserved
  <2>1. ASSUME NEW n \in Space PROVE Cardinality(Claims(n)) = 1
    <3>1. AtMostOne(Claims(n)) /\ Claims(n) # {}
      BY DEF CountInv, StealInv, Unique, Space
    <3>2. PICK c : Claims(n) = {c}
      BY <3>1 DEF AtMostOne
    <3> QED
      BY <3>2, FS_Singleton
  <2> QED
    BY <2>1 DEF CountInv, SpaceKept
<1> QED
  BY <1>1, InitCount, NextCountInv, PTL DEF Spec
-----------------------------------------------------------------------------
\* 9. The answer.

\* The argument for optimisations and decisions: a node of the space that was
\* not stolen is settled, or below a task that waits or a frame, or in the
\* hands of a scheduler.
BelowTask(n) == \E t \in Queued : n \in Below(t)
Ahead(w, n) == (Walking(w) /\ OnStack(stack[w], n)) \/ AtChild(w, n)
Pending(n) == BelowTask(n) \/ \E w \in Worker : Ahead(w, n)

Covered == \A n \in Space \ stolen : Goal(n) => Settled(n) \/ Pending(n)

\* The rest of the level may be skipped once processNode has said so: the bound
\* that pruned the child bounds its later siblings, too.
BreakSettled ==
    \A w \in Worker : pc[w] = "answered" /\ ret[w] = "Break" =>
        \A n \in Node : Goal(n) /\ FrameHas(stack[w], Len(stack[w]), n) => Settled(n)

\* A task that ends at once is one that is not needed.
ExitSolved == \A w \in Worker : pc[w] = "answered" /\ ret[w] = "Exit" => Solved

\* The root is never given to processNode, and need not be.
RootSettled == Obj[Root] <= Obj[incumbent]

\* The child in hand is the one its frame has just generated.
AtFrame(w) == /\ Frame(w)[2] - 1 \in 1..numChildren(Current(w))
              /\ child[w] = Child(Current(w), Frame(w)[2] - 1)
ChildAtFrame == \A w \in Worker : pc[w] = "process" => AtFrame(w)

\* Once the root's promise is set no task is left.
Quiet == main # "await" => Queued = {} /\ \A w \in Worker : pc[w] \in Thieving

AnswerInv == /\ StealInv /\ Quiet
             /\ Covered /\ BreakSettled /\ ExitSolved /\ RootSettled /\ ChildAtFrame

LEMMA NotAhead ==
    ASSUME NEW w \in Worker, NEW n, pc[w] \in Thieving \cup {"count", "unregister"}
    PROVE  ~ Ahead(w, n)
BY DEF Ahead, Walking, AtChild, Thieving

LEMMA WalkFrom ==
    ASSUME NEW w \in Worker, Walk(w)
    PROVE  pc[w] \notin Thieving
<1>1. CASE Register(w) \/ Unregister(w)
  BY <1>1 DEF Register, Unregister, Thieving
<1>2. CASE ~ (Register(w) \/ Unregister(w))
  BY <1>2, MovingPlaces DEF Walk
<1> QED
  BY <1>1, <1>2

LEMMA StepMain ==
    ASSUME NEW w \in Worker, Step(w)
    PROVE  UNCHANGED main
BY DEF Step, Thief, Walk, Loop, TakeBuffered, AskLocal, AskRemote, NoWork, ServeRemote,
   RefuseRemote, AnswerRemote, FinishRemote, FinishLocal, Register, Stop, Reply, LowerFlag,
   NextChild, Backtrack, ProcessChild, Continue, Prune, Break, Exit, UpdateEnumerator,
   Unregister, search_vars

\* Thieves that do not get a task.
LEMMA ThiefStays ==
    ASSUME Shape, NEW w \in Worker, Thief(w)
    PROVE  /\ pc[w] \in Thieving
           /\ \/ Starts(w)
              \/ pc'[w] \in Thieving /\ UNCHANGED stack /\ Queued' = Queued
           /\ UNCHANGED <<ret, shared_vars, stolen>>
<1>0. pc \in [Worker -> Places]
  BY StateTyped
<1>1. pc[w] \in Thieving /\ UNCHANGED <<ret, shared_vars, stolen>>
  BY DEF Thief, Loop, TakeBuffered, AskLocal, AskRemote, NoWork, ServeRemote, RefuseRemote,
     AnswerRemote, FinishRemote, FinishLocal, Thieving
<1>2. CASE TakeBuffered(w)
  BY <1>1, <1>2, BufferStarts
<1>3. CASE FinishRemote(w) \/ FinishLocal(w)
  BY <1>1, <1>3, FinishStarts DEF Thieving
<1>4. CASE ~ (TakeBuffered(w) \/ FinishRemote(w) \/ FinishLocal(w))
  <2>1. Queued' = Queued
    BY <1>4, QuietTransit DEF Thief
  <2>2. UNCHANGED stack
    BY <1>4 DEF Thief, Loop, AskLocal, AskRemote, NoWork, ServeRemote, RefuseRemote, AnswerRemote
  <2>3. pc'[w] \in Thieving
    BY <1>0, <1>4 DEF Thief, Loop, AskLocal, AskRemote, NoWork, ServeRemote, RefuseRemote,
       AnswerRemote, Request, Goto, Thieving
  <2> QED
    BY <1>1, <2>1, <2>2, <2>3
<1> QED
  BY <1>2, <1>3, <1>4

LEMMA StepQuiet ==
    ASSUME Shape, Quiet, NEW w \in Worker, Step(w)
    PROVE  Quiet'
<1> SUFFICES ASSUME main # "await"
             PROVE  Queued' = {} /\ \A v \in Worker : pc'[v] \in Thieving
  BY StepMain DEF Quiet
<1>1. Queued = {} /\ \A v \in Worker : pc[v] \in Thieving
  BY DEF Quiet
<1>2. Thief(w)
  BY <1>1, WalkFrom DEF Step
<1>3. pc'[w] \in Thieving /\ Queued' = Queued
  BY <1>1, <1>2, ThiefStays DEF Starts
<1>4. \A v \in Worker \ {w} : pc'[v] = pc[v]
  BY OthersKept
<1> QED
  BY <1>1, <1>3, <1>4

\* Steps outside processNode: it is enough that the scheduler and the tasks
\* keep what they have, or that what they drop is settled or stolen.
LEMMA SkeletonAnswer ==
    ASSUME AnswerInv, NEW w \in Worker, Step(w), UNCHANGED shared_vars,
           pc[w] \notin Acting, pc'[w] \notin Acting \cup {"answered"}, stolen \subseteq stolen',
           pc'[w] = "process" => AtFrame(w)',
           \A n \in Space \ stolen' :
               Goal(n) /\ (BelowTask(n) \/ Ahead(w, n)) =>
                   Settled(n) \/ BelowTask(n)' \/ Ahead(w, n)'
    PROVE  AnswerInv'
<1>1. StealInv' /\ Quiet'
  <2>1. Shape
    BY DEF AnswerInv, StealInv
  <2> QED
    BY <2>1, StealInvKept, StepQuiet DEF AnswerInv, Next
<1>2. UNCHANGED <<tags, Kind, Space>>
  BY StepTags
<1>3. \A v \in Worker \ {w} : /\ pc'[v] = pc[v] /\ child'[v] = child[v]
                              /\ ret'[v] = ret[v] /\ stack'[v] = stack[v]
  BY OthersKept DEF AnswerInv, StealInv
<1>4. ASSUME NEW n, Settled(n) PROVE Settled(n)'
  BY <1>3, <1>4, SkeletonSettled
<1>5. UNCHANGED Solved /\ \A n : Goal(n)' <=> Goal(n)
  BY <1>2 DEF Solved, Goal, shared_vars
<1>6. Covered'
  <2> SUFFICES ASSUME NEW n \in Space \ stolen', Goal(n)
               PROVE  Settled(n)' \/ Pending(n)'
    BY <1>2, <1>5 DEF Covered
  <2>1. Settled(n) \/ Pending(n)
    BY DEF AnswerInv, Covered
  <2>2. ASSUME NEW v \in Worker \ {w}, Ahead(v, n)
        PROVE  Pending(n)'
    <3>1. Ahead(v, n)'
      BY <1>3, <2>2 DEF Ahead, AtChild, Walking
    <3> QED
      BY <3>1 DEF Pending
  <2>3. CASE BelowTask(n) \/ Ahead(w, n)
    BY <1>4, <2>3 DEF Pending
  <2> QED
    BY <1>4, <2>1, <2>2, <2>3 DEF Pending
<1>7. BreakSettled'
  <2> SUFFICES ASSUME NEW v \in Worker, pc'[v] = "answered", ret'[v] = "Break",
                      NEW n \in Node, Goal(n), FrameHas(stack'[v], Len(stack'[v]), n)
               PROVE  Settled(n)'
    BY <1>5 DEF BreakSettled
  <2>1. /\ v # w /\ pc[v] = "answered" /\ ret[v] = "Break"
        /\ FrameHas(stack[v], Len(stack[v]), n)
    BY <1>3
  <2> QED
    BY <1>4, <2>1 DEF AnswerInv, BreakSettled
<1>8. ExitSolved' /\ RootSettled'
  BY <1>3, <1>5 DEF AnswerInv, ExitSolved, RootSettled, shared_vars
<1>9. ChildAtFrame'
  <2>1. ASSUME NEW v \in Worker \ {w}, AtFrame(v) PROVE AtFrame(v)'
    BY <1>3, <2>1 DEF AtFrame, Frame, Current
  <2> QED
    BY <1>3, <2>1 DEF AnswerInv, ChildAtFrame
<1> QED
  BY <1>1, <1>6, <1>7, <1>8, <1>9 DEF AnswerInv

\* A flag that is up settles everything.
LEMMA AllSettled ==
    ASSUME ProcessInv, Solved, NEW n \in Space, Goal(n)
    PROVE  Settled(n)
BY SolvedSettles DEF Space

\* What is below the task is now to come from its first frame.
LEMMA ThiefAnswer ==
    ASSUME AnswerInv, NEW w \in Worker, Thief(w)
    PROVE  AnswerInv'
<1>1. Step(w) /\ Shape /\ stack \in [Worker -> Seq(Frames)]
  BY StateTyped DEF Step, AnswerInv, StealInv
<1>2. /\ pc[w] \in Thieving /\ UNCHANGED <<ret, shared_vars, stolen>>
      /\ \A n : ~ Ahead(w, n)
  BY <1>1, ThiefStays, NotAhead
<1>3. CASE Starts(w)
  <2>1. PICK t \in Node : /\ stack' = [stack EXCEPT ![w] = <<<<t, 1>>>>]
                          /\ pc'[w] = "register" /\ Queued = Queued' \cup {t}
    BY <1>3 DEF Starts
  <2>2. ASSUME NEW n, n \in Below(t) PROVE Ahead(w, n)'
    <3>1. PICK s : s = stack'[w]
      OBVIOUS
    <3>2. s \in Seq(Frames) /\ Len(s) = 1 /\ 1 \in 1..Len(s) /\ s[1] = <<t, 1>>
      BY <1>1, <2>1, <3>1 DEF Frames
    <3>3. FrameHas(s, 1, n)
      BY <2>2, <3>2, NewFrameHas
    <3>4. OnStack(stack'[w], n)
      BY <3>1, <3>2, <3>3 DEF OnStack
    <3> QED
      BY <2>1, <3>4 DEF Ahead, Walking, Thieving
  <2>3. \A n : BelowTask(n) => BelowTask(n)' \/ Ahead(w, n)'
    BY <2>1, <2>2 DEF BelowTask
  <2> QED
    BY <1>1, <1>2, <2>1, <2>3, SkeletonAnswer DEF Acting, Thieving
<1>4. CASE pc'[w] \in Thieving /\ UNCHANGED stack /\ Queued' = Queued
  <2>1. \A n : BelowTask(n) => BelowTask(n)'
    BY <1>4 DEF BelowTask
  <2> QED
    BY <1>1, <1>2, <1>4, <2>1, SkeletonAnswer DEF Acting, Thieving
<1> QED
  BY <1>1, <1>3, <1>4, ThiefStays

LEMMA StopAnswer ==
    ASSUME AnswerInv, NEW w \in Worker, Stop(w) \/ Exit(w)
    PROVE  AnswerInv'
<1>1. /\ Step(w) /\ ProcessInv /\ pc[w] \notin Acting /\ Goto(w, "count")
      /\ pc \in [Worker -> Places] /\ UNCHANGED <<shared_vars, stolen>>
  BY StateTyped DEF Step, Walk, AnswerInv, StealInv, Shape, Stop, Exit, Acting
<1>2. Solved
  BY <1>1, BoundAssumption
  DEF Stop, Stopped, ProcessInv, StopsSolved, Exit, AnswerInv, ExitSolved
<1>3. pc'[w] = "count"
  BY <1>1 DEF Goto
<1> QED
  BY <1>1, <1>2, <1>3, AllSettled, SkeletonAnswer DEF Acting

\* The stack stays, or no one goes on with it any more.
LEMMA KeepAnswer ==
    ASSUME AnswerInv, NEW w \in Worker,
           Register(w) \/ LowerFlag(w) \/ Prune(w) \/ UpdateEnumerator(w) \/ Unregister(w)
    PROVE  AnswerInv'
<1>1. /\ Step(w) /\ Shape /\ pc \in [Worker -> Places] /\ pc[w] \notin Acting
      /\ UNCHANGED <<shared_vars, stolen>>
  BY StateTyped DEF Step, Walk, AnswerInv, StealInv, Register, LowerFlag, Prune, UpdateEnumerator, Unregister,
     Acting
<1>2. Queued' = Queued
  <2>1. ~ Reply(w)
    BY DEF Register, LowerFlag, Prune, UpdateEnumerator, Unregister, Reply
  <2> QED
    BY <1>1, <2>1, QuietTransit DEF Walk
<1>3. \A n : BelowTask(n) => BelowTask(n)'
  BY <1>2 DEF BelowTask
<1>4. CASE Register(w) \/ LowerFlag(w) \/ Prune(w)
  <2>1. UNCHANGED stack /\ pc'[w] \in {"loop", "move"}
    BY <1>1, <1>4 DEF Register, LowerFlag, Prune, Goto
  <2>2. Walking(w)' /\ \A n : ~ AtChild(w, n)
    BY <1>4, <2>1 DEF Walking, Thieving, AtChild, Register, LowerFlag, Prune
  <2>3. \A n : Ahead(w, n) => Ahead(w, n)'
    BY <2>1, <2>2 DEF Ahead
  <2> QED
    BY <1>1, <1>3, <2>1, <2>3, SkeletonAnswer DEF Acting
<1>5. CASE UpdateEnumerator(w) \/ Unregister(w)
  <2>1. \A n : ~ Ahead(w, n)
    BY <1>5, NotAhead DEF UpdateEnumerator, Unregister
  <2>2. pc'[w] \in {"unregister", "idle"}
    BY <1>1, <1>5 DEF UpdateEnumerator, Unregister, Goto
  <2> QED
    BY <1>1, <1>3, <2>1, <2>2, SkeletonAnswer DEF Acting
<1> QED
  BY <1>4, <1>5

\* What is given away is stolen, and what is below it is below a task.
LEMMA ReplyAnswer ==
    ASSUME AnswerInv, NEW w \in Worker, Reply(w)
    PROVE  AnswerInv'
<1>1. /\ Step(w) /\ Shape /\ Steals /\ pc[w] = "loop" /\ pc'[w] = "lower"
      /\ UNCHANGED shared_vars /\ stack \in [Worker -> Seq(Frames)]
  BY ReplyLowers, StateTyped DEF Step, Walk, AnswerInv, StealInv, Reply
<1>2. Walking(w) /\ Walking(w)' /\ \A n : ~ AtChild(w, n)
  BY <1>1 DEF Walking, Thieving, AtChild
<1>3. CASE UNCHANGED <<stack, stolen>> /\ Queued' = Queued
  <2>1. \A n : (BelowTask(n) => BelowTask(n)') /\ (Ahead(w, n) => Ahead(w, n)')
    BY <1>2, <1>3 DEF BelowTask, Ahead
  <2> QED
    BY <1>1, <1>3, <2>1, SkeletonAnswer DEF Acting
<1>4. ASSUME NEW i \in Nat, NEW k \in Nat, GivesAway(w, i, k) PROVE AnswerInv'
  <2>1. PICK s \in Seq(Frames), t \in Seq(Frames) : s = stack[w] /\ t = stack'[w]
    BY <1>1, <1>4 DEF GivesAway
  <2>2. /\ i \in 1..Len(s) - 1 /\ k \in 1..Len(Rest(s[i])) /\ Handed(s, t, i, k)
        /\ Queued' = Queued \cup {Rest(s[i])[j] : j \in 1..k}
        /\ stolen' = stolen \cup {Rest(s[i])[j] : j \in 1..k}
    BY <1>4, <2>1 DEF GivesAway
  <2>3. i \in 1..Len(s) /\ Len(t) = Len(s)
    BY <2>2 DEF Handed
  <2>4. ASSUME NEW n \in Space \ stolen', OnStack(s, n)
        PROVE  BelowTask(n)' \/ OnStack(t, n)
    <3>1. PICK e \in 1..Len(s) : FrameHas(s, e, n)
      BY <2>4 DEF OnStack
    <3>2. CASE e # i
      <4>1. FrameHas(t, e, n)
        BY <2>2, <2>3, <3>1, <3>2, HandedFrame
      <4> QED
        BY <2>3, <4>1 DEF OnStack
    <3>3. CASE e = i
      <4>1. CASE \E j \in 1..k : n \in Subtree(Rest(s[i])[j])
        <5>1. PICK j \in 1..k : n \in Subtree(Rest(s[i])[j])
          BY <4>1
        <5>2. Rest(s[i])[j] \in Queued' /\ Rest(s[i])[j] \in stolen'
          BY <2>2
        <5>3. n \in Below(Rest(s[i])[j])
          BY <5>1, <5>2 DEF Subtree
        <5> QED
          BY <5>2, <5>3 DEF BelowTask
      <4>2. CASE \A j \in 1..k : n \notin Subtree(Rest(s[i])[j])
        <5> DEFINE Outside == \A j \in 1..k : n \notin Subtree(Rest(s[i])[j])
        <5>1. Outside => (FrameHas(t, i, n) <=> FrameHas(s, i, n))
          BY <2>2, <2>3, HandedFrame
        <5>2. FrameHas(s, i, n) /\ Outside
          BY <3>1, <3>3, <4>2
        <5>3. FrameHas(t, i, n)
          <6> HIDE DEF Outside
          <6> QED
            BY <5>1, <5>2
        <5> QED
          BY <2>3, <5>3 DEF OnStack
      <4> QED
        BY <4>1, <4>2
    <3> QED
      BY <3>2, <3>3
  <2>5. \A n \in Space \ stolen' : BelowTask(n) \/ Ahead(w, n) => BelowTask(n)' \/ Ahead(w, n)'
    BY <1>2, <2>1, <2>2, <2>4 DEF Ahead, BelowTask
  <2> QED
    BY <1>1, <2>2, <2>5, SkeletonAnswer DEF Acting
<1> QED
  BY <1>1, <1>3, <1>4, ReplyGives

LEMMA NextChildAnswer ==
    ASSUME AnswerInv, NEW w \in Worker, NextChild(w)
    PROVE  AnswerInv'
<1>1. /\ Step(w) /\ Shape /\ pc[w] \in {"loop", "move"} /\ pc'[w] = "process"
      /\ UNCHANGED <<ret, shared_vars, stolen>> /\ Running(w)
      /\ stack \in [Worker -> Seq(Frames)]
  BY StateTyped, NextChildStack DEF Step, Walk, AnswerInv, StealInv, NextChild, Moving, Goto
<1>2. PICK s \in Seq(Frames), t \in Seq(Frames), d \in Nat \ {0}, m \in Node, k \in Nat \ {0} :
         s = stack[w] /\ t = stack'[w] /\ d = Len(s) /\ m = Current(w) /\ k = Frame(w)[2]
  <2>1. stack'[w] \in Seq(Frames)
    BY <1>1, NextChildStack
  <2> QED
    BY <1>1, <2>1, FrameTyped
<1>3. /\ s # <<>> /\ Len(t) = Len(s) /\ Len(s) = d
      /\ s[d] = <<m, k>> /\ k <= numChildren(m) /\ t[d] = <<m, k + 1>>
      /\ \A i \in 1..d - 1 : t[i] = s[i]
      /\ k \in 1..numChildren(m) /\ child'[w] = Child(m, k)
  <2>1. s # <<>> /\ s[d] = <<m, k>>
    BY <1>1, <1>2, FrameTyped
  <2>2. Len(t) = d /\ t[d] = <<m, k + 1>> /\ \A i \in 1..d - 1 : t[i] = s[i]
    BY <1>1, <1>2, NextChildStack
  <2>3. k \in 1..numChildren(m) /\ child'[w] = Child(m, k)
    BY <1>1, <1>2, NextChildStack
  <2>4. k <= numChildren(m)
    BY <1>2 DEF NextChild
  <2> QED
    BY <1>2, <2>1, <2>2, <2>3, <2>4
<1>4. AtFrame(w)'
  <2>1. Frame(w)' = <<m, k + 1>>
    BY <1>2, <1>3 DEF Frame
  <2>2. Current(w)' = m /\ Frame(w)'[2] - 1 = k
    BY <2>1 DEF Current
  <2> QED
    BY <1>3, <2>2 DEF AtFrame
<1>5. ASSUME NEW n, OnStack(s, n) PROVE OnStack(t, n) \/ n \in Subtree(Child(m, k))
  <2>1. /\ \A i \in 1..d - 1 : FrameHas(t, i, n) <=> FrameHas(s, i, n)
        /\ (FrameHas(t, d, n) <=> FrameHas(s, d, n) /\ n \notin Subtree(Child(m, k)))
    BY <1>3, AdvanceFrame
  <2>2. PICK i \in 1..Len(s) : FrameHas(s, i, n)
    BY <1>5 DEF OnStack
  <2>3. i = d \/ i \in 1..d - 1
    BY <1>3
  <2> QED
    BY <1>3, <2>1, <2>2, <2>3 DEF OnStack
<1>6. Walking(w)' /\ (\A n : ~ AtChild(w, n)) /\ \A n \in Subtree(Child(m, k)) : AtChild(w, n)'
  BY <1>1, <1>3 DEF Walking, Thieving, AtChild
<1>7. \A n : BelowTask(n) => BelowTask(n)'
  <2>1. ~ Reply(w)
    BY <1>1, ReplyLowers
  <2>2. Queued' = Queued
    BY <1>1, <2>1, QuietTransit DEF Walk
  <2> QED
    BY <2>2 DEF BelowTask
<1>8. \A n : Ahead(w, n) => Ahead(w, n)'
  BY <1>2, <1>5, <1>6 DEF Ahead
<1> QED
  BY <1>1, <1>4, <1>7, <1>8, SkeletonAnswer DEF Acting

\* A frame may be left when nothing that matters is to come from it.
LEMMA PopAnswer ==
    ASSUME AnswerInv, NEW w \in Worker, Backtrack(w) \/ Break(w)
    PROVE  AnswerInv'
<1>1. /\ Step(w) /\ Shape /\ pc[w] \in {"loop", "move", "answered"} /\ Pop(w) /\ Running(w)
      /\ pc[w] = "answered" => ret[w] = "Break"
      /\ UNCHANGED <<shared_vars, stolen>> /\ pc \in [Worker -> Places]
  BY StateTyped DEF Step, Walk, AnswerInv, StealInv, Backtrack, Break, Moving, Running, Thieving
<1>2. /\ stack'[w] \in Seq(Frames)
      /\ \/ Len(stack[w]) = 1 /\ pc'[w] = "count"
         \/ /\ Len(stack[w]) > 1 /\ pc'[w] = "loop"
            /\ stack'[w] = SubSeq(stack[w], 1, Len(stack[w]) - 1)
  BY <1>1, PopStack DEF Goto
<1>3. PICK s \in Seq(Frames), t \in Seq(Frames), d \in Nat \ {0} :
         s = stack[w] /\ t = stack'[w] /\ d = Len(s) /\ s # <<>>
  BY <1>1, <1>2, FrameTyped
<1>4. ASSUME NEW n \in Node, Goal(n), FrameHas(s, d, n) PROVE Settled(n)
  <2>1. CASE Backtrack(w)
    <3>1. PICK m \in Node, k \in Nat \ {0} : s[d] = <<m, k>> /\ k > numChildren(m)
      <4>1. /\ s[d] = <<Current(w), Frame(w)[2]>>
            /\ Current(w) \in Node /\ Frame(w)[2] \in Nat \ {0}
        BY <1>1, <1>3, FrameTyped
      <4> QED
        BY <2>1, <4>1 DEF Backtrack
    <3>2. numChildren(m) \in Nat
      BY NumChildrenNat
    <3> QED
      BY <1>4, <3>1, <3>2 DEF FrameHas
  <2>2. CASE Break(w)
    BY <1>3, <1>4, <2>2 DEF Break, AnswerInv, BreakSettled
  <2> QED
    BY <2>1, <2>2
<1>5. ASSUME NEW n \in Node, Goal(n), OnStack(s, n)
      PROVE  Settled(n) \/ (pc'[w] = "loop" /\ OnStack(t, n))
  <2>1. PICK i \in 1..d : FrameHas(s, i, n)
    BY <1>3, <1>5 DEF OnStack
  <2>2. CASE i = d
    BY <1>4, <1>5, <2>1, <2>2
  <2>3. CASE i # d
    <3>1. t = SubSeq(s, 1, Len(s) - 1) /\ pc'[w] = "loop"
      <4>a. d # 1
        <5>1. d \in Nat \ {0}
          BY <1>3
        <5> QED
          BY <2>1, <2>3, <5>1
      <4>1. ~ Len(stack[w]) = 1
        BY <1>3, <4>a, Zenon
      <4>2. pc'[w] = "loop" /\ stack'[w] = SubSeq(stack[w], 1, Len(stack[w]) - 1)
        BY <1>2, <4>1, Zenon
      <4> QED
        BY <1>3, <4>2
    <3>2. /\ Len(t) = Len(s) - 1
          /\ \A j \in 1..Len(t) : FrameHas(t, j, n) <=> FrameHas(s, j, n)
      <4>1. s # <<>>
        BY <1>3
      <4>2. LET u == SubSeq(s, 1, Len(s) - 1)
            IN  /\ Len(u) = Len(s) - 1
                /\ \A j \in 1..Len(u) : FrameHas(u, j, n) <=> FrameHas(s, j, n)
        BY <4>1, PopFrame
      <4> QED
        BY <3>1, <4>2
    <3>3. i \in 1..Len(t)
      BY <1>3, <2>3, <3>2
    <3> QED
      BY <2>1, <3>1, <3>2, <3>3 DEF OnStack
  <2> QED
    BY <2>2, <2>3
<1>6. \A n : BelowTask(n) => BelowTask(n)'
  <2>1. ~ Reply(w)
    BY <1>2, ReplyLowers, <1>1
  <2>2. Queued' = Queued
    BY <1>1, <2>1, QuietTransit DEF Walk
  <2> QED
    BY <2>2 DEF BelowTask
<1>7. \A n : Ahead(w, n) => OnStack(s, n)
  BY <1>1, <1>3 DEF Ahead, AtChild
<1>8. \A n : pc'[w] = "loop" /\ OnStack(t, n) => Ahead(w, n)'
  BY <1>3 DEF Ahead, Walking, Thieving
<1>9. \A n \in Space \ stolen' : Goal(n) /\ (BelowTask(n) \/ Ahead(w, n)) =>
          Settled(n) \/ BelowTask(n)' \/ Ahead(w, n)'
  BY <1>5, <1>6, <1>7, <1>8 DEF Space
<1> QED
  BY <1>1, <1>2, <1>9, SkeletonAnswer DEF Acting

\* What is below the child comes from its frame, or is beyond the limit.
LEMMA ContinueAnswer ==
    ASSUME AnswerInv, NEW w \in Worker, Continue(w)
    PROVE  AnswerInv'
<1>1. /\ Step(w) /\ Shape /\ pc[w] = "answered" /\ pc'[w] = "loop" /\ child[w] \in Node
      /\ UNCHANGED <<shared_vars, stolen>> /\ stack[w] \in Seq(Frames)
  BY StateTyped, ContinueStack DEF Step, Walk, AnswerInv, StealInv, Continue, Goto
<1>a. PICK t : t = stack'[w]
  OBVIOUS
<1>b. PICK s \in Seq(Frames), c \in Node : s = stack[w] /\ c = child[w]
  BY <1>1
<1>2. s = stack[w] /\ c = child[w] /\ t = stack'[w]
  BY <1>a, <1>b
<1>3. IF DepthLimited /\ Len(c) + 1 = maxDepth THEN t = s ELSE t = Append(s, <<c, 1>>)
  BY <1>2, ContinueStack, <1>1
<1>4. ASSUME NEW n \in Space, OnStack(s, n) \/ n \in Below(c) PROVE OnStack(t, n)
  <2>1. CASE DepthLimited /\ Len(c) + 1 = maxDepth
    <3>1. n \notin Below(c)
      <4>1. Len(n) \in Nat /\ Len(c) \in Nat /\ Len(n) < maxDepth /\ maxDepth \in Nat
        BY <2>1, NodeTyped, StackAssumption DEF Space
      <4> QED
        BY <2>1, <4>1 DEF Below
    <3> QED
      BY <1>3, <1>4, <2>1, <3>1
  <2>2. CASE ~ (DepthLimited /\ Len(c) + 1 = maxDepth)
    <3>1. t = Append(s, <<c, 1>>)
      BY <1>3, <2>2
    <3>2. /\ Len(t) = Len(s) + 1
          /\ \A i \in 1..Len(s) : FrameHas(t, i, n) <=> FrameHas(s, i, n)
          /\ (FrameHas(t, Len(s) + 1, n) <=> n \in Below(c))
      BY <3>1, PushFrame
    <3>3. Len(s) \in Nat
      BY LenProperties
    <3> QED
      BY <1>4, <3>2, <3>3 DEF OnStack
  <2> QED
    BY <2>1, <2>2
<1>5. \A n : BelowTask(n) => BelowTask(n)'
  <2>1. ~ Reply(w)
    BY <1>1, ReplyLowers
  <2>2. Queued' = Queued
    BY <1>1, <2>1, QuietTransit DEF Walk, Continue
  <2> QED
    BY <2>2 DEF BelowTask
<1>6. \A n : Ahead(w, n) => OnStack(s, n) \/ n \in Below(c)
  BY <1>1, <1>2 DEF Ahead, AtChild
<1>7. \A n : OnStack(t, n) => Ahead(w, n)'
  BY <1>1, <1>2 DEF Ahead, Walking, Thieving
<1> QED
  BY <1>1, <1>4, <1>5, <1>6, <1>7, SkeletonAnswer DEF Acting

\* A step of processNode: by the lemmas of ProcessNodeProofs for the node in
\* hand, and because siblings come in the order of their bounds for PruneLevel.
LEMMA ProcessAnswer ==
    ASSUME AnswerInv, NEW w \in Worker, ProcessChild(w)
    PROVE  AnswerInv'
<1>0. /\ Step(w) /\ Shape /\ ProcessInv /\ Process(w) /\ home[w] \in Locality
      /\ ret \in [Worker -> Answers] /\ UNCHANGED <<stack, stolen, main>>
      /\ tags \in Tags /\ UNCHANGED <<Kind, Space>> /\ Running(w)
  <2>1. Step(w) /\ Shape
    BY DEF Step, Walk, AnswerInv, StealInv
  <2>2. Running(w)
    BY MovingPlaces DEF Running
  <2> QED
    BY <2>1, <2>2, StepTags, StateTyped
    DEF Shape, ProcessChild, search_vars, ProcessInv, SharedTyped
<1>a. Queued' = Queued
  <2>1. UNCHANGED <<answer, taskBuffer>>
    BY DEF ProcessChild, manager_vars, thief_vars
  <2> QED
    BY <2>1, QueuedSame DEF InTransit
<1>b. StealInv' /\ Quiet'
  BY <1>0, StealInvKept, StepQuiet DEF AnswerInv, Next
<1>1. /\ UNCHANGED child
      /\ \A v \in Worker \ {w} : pc'[v] = pc[v] /\ ret'[v] = ret[v]
      /\ pc'[w] = "answered" /\ ret'[w] = "Break" =>
            /\ pc[w] = "process" /\ PruneLevel
            /\ Hopeless(child[w], localBound[home[w]])
      /\ pc'[w] = "answered" /\ ret'[w] = "Exit" => Solved'
  BY <1>0, ProcessMoves
<1>2. pc'[w] \in Acting \cup {"answered"} /\ Walking(w)'
  <2>1. pc'[w] \in Acting \cup {"answered"}
    BY <1>0, ProcessPlace DEF Goto, ProcessInv, SharedTyped
  <2> QED
    BY <2>1 DEF Acting, Walking, Thieving
<1>3. \A n \in Node : Settled(n) => Settled(n)'
  BY <1>0, SettledKept
<1>4. \A n : Goal(n)' <=> Goal(n)
  BY <1>0 DEF Goal
<1>5. Covered'
  <2> SUFFICES ASSUME NEW n \in Space \ stolen, Goal(n) PROVE Settled(n)' \/ Pending(n)'
    BY <1>0, <1>4 DEF Covered
  <2>1. n \in Node /\ Kind # "Enumeration" /\ (Settled(n) \/ Pending(n))
    BY DEF AnswerInv, Covered, Space, Goal
  <2>2. CASE BelowTask(n)
    BY <1>a, <2>2 DEF BelowTask, Pending
  <2>3. ASSUME NEW v \in Worker, Walking(v) /\ OnStack(stack[v], n) PROVE Pending(n)'
    <3>1. Walking(v)' /\ OnStack(stack'[v], n)
      BY <1>0, <1>1, <1>2, <2>3 DEF Walking
    <3> QED
      BY <3>1 DEF Pending, Ahead
  <2>4. ASSUME NEW v \in Worker, v # w, AtChild(v, n) PROVE Pending(n)'
    BY <1>1, <2>4 DEF AtChild, Pending, Ahead
  <2>5. CASE AtChild(w, n)
    <3>1. Settled(n)' \/ AtChild(w, n)'
      BY <1>0, <2>1, <2>5, InHandKept
    <3> QED
      BY <3>1 DEF Pending, Ahead
  <2> QED
    BY <1>3, <2>1, <2>2, <2>3, <2>4, <2>5 DEF Pending, Ahead
<1>6. BreakSettled'
  <2> SUFFICES ASSUME NEW v \in Worker, pc'[v] = "answered", ret'[v] = "Break",
                      NEW n \in Node, Goal(n), FrameHas(stack[v], Len(stack[v]), n)
               PROVE  Settled(n)
    BY <1>0, <1>3, <1>4 DEF BreakSettled
  <2>1. CASE v # w
    BY <1>1, <2>1 DEF AnswerInv, BreakSettled
  <2>2. CASE v = w
    <3> DEFINE m == Current(w)
               i == Frame(w)[2] - 1
    <3>1. /\ m \in Node /\ Frame(w)[2] \in Nat /\ i \in 1..numChildren(m)
          /\ child[w] = Child(m, i) /\ child[w] \in Node
          /\ stack[w][Len(stack[w])] = <<m, Frame(w)[2]>>
      BY <1>0, <1>1, <2>2, FrameTyped, ChildInTree DEF AnswerInv, ChildAtFrame, AtFrame
    <3>2. PICK j \in 1..numChildren(m) : j >= Frame(w)[2] /\ n \in Subtree(Child(m, j))
      BY <2>2, <3>1 DEF FrameHas
    <3>3. Child(m, j) \in Node /\ i < j
      BY <3>1, <3>2, ChildInTree, NumChildrenNat
    <3>4. Bound[Child(m, j)] <= Bound[child[w]] /\ Obj[n] <= Bound[Child(m, j)]
      <4>1. \E t \in Tags : t.pruneLevel
        BY <1>0, <1>1, <2>2 DEF PruneLevel
      <4> QED
        BY <3>1, <3>2, <3>3, <4>1, BoundAssumption DEF Subtree
    <3>5. Obj[n] <= Bound[child[w]]
      <4>1. Obj[n] \in Nat /\ Bound[Child(m, j)] \in Nat /\ Bound[child[w]] \in Nat
        BY <3>1, <3>3, BoundAssumption
      <4> QED
        BY <3>4, <4>1
    <3> QED
      BY <1>0, <1>1, <2>2, <3>1, <3>5, HopelessSettles
  <2> QED
    BY <2>1, <2>2
<1>7. ExitSolved'
  BY <1>0, <1>1, <1>2, IncumbentRises DEF AnswerInv, ExitSolved, Acting
<1>8. RootSettled'
  <2>1. /\ Obj[Root] \in Nat /\ Obj[incumbent] \in Nat /\ Obj[incumbent'] \in Nat
        /\ Obj[Root] <= Obj[incumbent] /\ Obj[incumbent] <= Obj[incumbent']
    BY <1>0, <1>b, IncumbentRises, ObjNat, TreeAssumption
    DEF AnswerInv, RootSettled, StealInv, Shape, ProcessInv, SharedTyped
  <2> QED
    BY <2>1 DEF RootSettled
<1>9. ChildAtFrame'
  BY <1>0, <1>1, <1>2 DEF AnswerInv, ChildAtFrame, AtFrame, Frame, Current, Acting
<1> QED
  BY <1>b, <1>5, <1>6, <1>7, <1>8, <1>9 DEF AnswerInv

LEMMA StepAnswer ==
    ASSUME AnswerInv, NEW w \in Worker, Step(w)
    PROVE  AnswerInv'
BY ThiefAnswer, StopAnswer, KeepAnswer, ReplyAnswer, NextChildAnswer, PopAnswer,
   ProcessAnswer, ContinueAnswer DEF Step, Walk

\* The messages, and the steps of the main thread, change bounds and flags,
\* which no argument above rests on but through ProcessInv.
LEMMA KeptAnswer ==
    ASSUME AnswerInv, StealInv', Quiet',
           UNCHANGED <<tags, pc, child, ret, incumbent, stack, stolen, answer, taskBuffer>>
    PROVE  AnswerInv'
<1>1. Space' = Space /\ (\A n : Goal(n)' <=> Goal(n)) /\ (Solved' <=> Solved)
  BY DEF Goal, Space, Kind, DepthLimited, Solved
<1>2. Queued' = Queued
  BY QueuedSame DEF InTransit
<1>3. Covered'
  <2>1. \A n : Settled(n) \/ Pending(n) => Settled(n)' \/ Pending(n)'
    BY <1>2 DEF Settled, Pending, BelowTask, Ahead, Walking, AtChild
  <2> QED
    BY <1>1, <2>1 DEF AnswerInv, Covered
<1>4. BreakSettled'
  BY <1>1 DEF AnswerInv, BreakSettled, Settled
<1>5. ExitSolved' /\ RootSettled' /\ ChildAtFrame'
  BY <1>1 DEF AnswerInv, ExitSolved, RootSettled, ChildAtFrame, AtFrame, Frame, Current
<1> QED
  BY <1>3, <1>4, <1>5 DEF AnswerInv

LEMMA NextAnswer == AnswerInv /\ [Next]_vars => AnswerInv'
<1> SUFFICES ASSUME AnswerInv, [Next]_vars PROVE AnswerInv'
  OBVIOUS
<1>0. StealInv'
  BY StealInvKept DEF AnswerInv
<1>1. CASE RootReady \/ Return \/ Deliver \/ UNCHANGED vars
  <2>1. UNCHANGED <<tags, pc, child, ret, incumbent, stack, stolen, answer, taskBuffer>>
    BY <1>1 DEF RootReady, Return, Deliver, Receive, ReceiveBound, ReceiveStop, vars,
       process_vars, shared_vars, manager_vars, thief_vars
  <2>2. Queued' = Queued
    BY <2>1, QueuedSame DEF InTransit
  <2>3. Quiet'
    <3>1. CASE RootReady
      BY <2>1, <2>2, <3>1 DEF RootReady, Quiet
    <3>2. CASE Return \/ Deliver \/ UNCHANGED vars
      <4>1. main' # "await" => main # "await"
        BY <3>2 DEF Return, Deliver, vars, search_vars
      <4> QED
        BY <2>1, <2>2, <4>1 DEF AnswerInv, Quiet
    <3> QED
      BY <1>1, <3>1, <3>2
  <2> QED
    BY <1>0, <2>1, <2>3, KeptAnswer
<1>2. CASE \E w \in Worker : Step(w)
  BY <1>2, StepAnswer
<1> QED
  BY <1>1, <1>2 DEF Next

\* The nodes that spawnInitialWork has passed are no goals.
LEMMA PassedNoGoal ==
    ASSUME Init, NEW n \in Passed \cap Node
    PROVE  ~ Goal(n)
<1>1. given \in Given[Kind] /\ n \in PassedBy(given)
  BY DEF Init, Passed
<1>2. Obj[n] \in Nat /\ initialBound \in Nat
  BY ObjNat, BoundAssumption
<1>3. CASE Kind = "Optimisation"
  <2>1. Obj[n] <= initialBound
    BY <1>1, <1>3, StackAssumption
  <2> QED
    BY <1>2, <1>3, <2>1 DEF Goal
<1>4. CASE Kind = "Decision"
  <2>1. Obj[n] # expectedObjective
    BY <1>1, <1>4, StackAssumption
  <2> QED
    BY <1>4, <2>1 DEF Goal
<1> QED
  BY <1>3, <1>4 DEF Goal

\* A child of the root has been passed or is yet to come from the first frame.
LEMMA StartTop ==
    ASSUME Init, NEW n \in Node, Len(n) = 1, n \notin Passed
    PROVE  ~ Exhausted /\ 1 \in 1..Len(FirstStack) /\ FrameHas(FirstStack, 1, n)
<1>1. n # Root /\ n[1] \in Nat
  BY PathStarts, NodeTyped DEF Root
<1>2. CASE given = 0 \/ Exhausted
  <2>1. Len(FirstStack) = 1 /\ FrameHas(FirstStack, 1, n) /\ ~ Exhausted
    BY <1>1, <1>2, FirstFrom
  <2> QED
    BY <2>1
<1>3. CASE given # 0 /\ ~ Exhausted
  <2>1. PICK m : m = Level(2)[given]
    OBVIOUS
  <2>2. FirstAfter(m, n) /\ m[1] \in Nat
    BY <1>3, <2>1, FirstPast, StartState, StartTasks, DepthTwo
  <2>3. n[1] > m[1] /\ Len(FirstStack) = 2
    BY <1>1, <2>2 DEF FirstAfter
  <2> QED
    BY <1>3, <2>2, <2>3 DEF FirstAfter
<1> QED
  BY <1>2, <1>3

\* At the start what spawnInitialWork has passed is no goal, and all other
\* nodes below the root are still to come.
LEMMA InitCovered == Init => Covered
<1> SUFFICES ASSUME Init, NEW n \in Space \ stolen, Goal(n)
             PROVE  Settled(n) \/ Pending(n)
  BY DEF Covered
<1>0. n \in Node /\ Root \in Node /\ Len(n) \in Nat /\ first \in Worker /\ incumbent = Root
  BY NodeTyped, TreeAssumption, StackAssumption DEF Space, Init, SharedInit
<1>1. CASE Len(n) = 0
  <2>1. n = Root
    BY <1>0, <1>1, PathStarts
  <2>2. Obj[n] \in Nat
    BY <1>0, ObjNat
  <2>3. Obj[n] <= Obj[incumbent]
    BY <1>0, <2>1, <2>2
  <2> QED
    BY <2>3 DEF Settled
<1>2. CASE Len(n) = 1
  <2>1. n \notin Passed
    BY <1>0, PassedNoGoal
  <2>2. ~ Exhausted /\ 1 \in 1..Len(FirstStack) /\ FrameHas(FirstStack, 1, n)
    BY <1>0, <1>2, <2>1, StartTop
  <2>3. Ahead(first, n)
    <3>1. stack[first] = FirstStack /\ pc[first] = "loop"
      BY <2>2, StartState
    <3> QED
      BY <2>2, <3>1 DEF Ahead, Walking, Thieving, OnStack
  <2> QED
    BY <1>0, <2>3 DEF Pending
<1>3. CASE Len(n) > 1
  <2>1. ASSUME NEW w \in Worker \ {first}, given # 0, n \in Subtree(Given1(w))
        PROVE  Ahead(w, n)
    <3>1. PICK t \in Node : t = Given1(w)
      BY StartTasks DEF AtDepth
    <3>2. /\ pc[w] = "register" /\ stack[w] = <<<<t, 1>>>> /\ given = others
          /\ initial[w] \in 1..others
      BY <2>1, <3>1, StartState, StartTasks
    <3>3. n # t
      <4>1. t \in stolen
        BY <3>1, <3>2 DEF Init, Given1
      <4> QED
        BY <4>1
    <3>4. n \in Below(t)
      BY <2>1, <3>1, <3>3 DEF Subtree
    <3>5. PICK s : s = stack[w]
      OBVIOUS
    <3>6. s \in Seq(Frames) /\ Len(s) = 1 /\ 1 \in 1..Len(s) /\ s[1] = <<t, 1>>
      BY <3>2, <3>5 DEF Frames
    <3>7. FrameHas(s, 1, n)
      BY <3>4, <3>6, NewFrameHas
    <3> QED
      BY <3>2, <3>5, <3>6, <3>7 DEF Ahead, Walking, Thieving, OnStack
  <2>2. ASSUME ~ Exhausted, NEW i \in 1..Len(FirstStack), FrameHas(FirstStack, i, n)
        PROVE  Ahead(first, n)
    <3>1. stack[first] = FirstStack /\ pc[first] = "loop"
      BY <2>2, StartState
    <3> QED
      BY <2>2, <3>1 DEF Ahead, Walking, Thieving, OnStack
  <2> QED
    BY <1>0, <1>3, <2>1, <2>2, StartFound DEF Pending
<1> QED
  BY <1>0, <1>1, <1>2, <1>3

LEMMA InitAnswer == Init => AnswerInv
<1> SUFFICES ASSUME Init PROVE AnswerInv
  OBVIOUS
<1>1. StealInv
  BY InitShape, InitSteals, InitUnique, InitFresh, InitContinues DEF StealInv
<1>2. Quiet
  BY DEF Init, Quiet
<1>3. \A w \in Worker : pc[w] \notin {"answered", "process"}
  BY StartState
<1>4. RootSettled
  <2>1. Obj[Root] \in Nat /\ incumbent = Root
    BY ObjNat, TreeAssumption DEF Init, SharedInit
  <2> QED
    BY <2>1 DEF RootSettled
<1> QED
  BY <1>1, <1>2, <1>3, <1>4, InitCovered
  DEF AnswerInv, BreakSettled, ExitSolved, ChildAtFrame

\* When the search has returned nothing is pending, and no scheduler is about
\* to submit anything: the incumbent itself settles every node.
LEMMA ReturnedSettled ==
    ASSUME AnswerInv, main = "returned", NEW n \in Space \ stolen, Goal(n)
    PROVE  Obj[n] <= Obj[incumbent]
<1>1. Queued = {} /\ \A w \in Worker : pc[w] \in Thieving
  BY DEF AnswerInv, Quiet
<1>2. ~ Pending(n)
  BY <1>1, NotAhead DEF Pending, BelowTask
<1>3. Settled(n)
  BY <1>2 DEF AnswerInv, Covered
<1> QED
  BY <1>1, <1>3 DEF Settled, Thieving

\* What the skeleton does promise, of any scheduling of steals and of any order
\* and delay of the broadcasts: an answer at least as good as every node of the
\* space but those it gave away, which no task ever processes.
THEOREM StolenExcepted == Spec => []BestOfProcessed
<1>1. ASSUME AnswerInv PROVE BestOfProcessed
  <2> SUFFICES ASSUME main = "returned"
               PROVE  /\ Kind = "Optimisation" => BestOf(Space \ stolen)
                      /\ Kind = "Decision" =>
                           \A n \in Space \ stolen : Obj[n] = expectedObjective =>
                               Obj[incumbent] = expectedObjective
    BY DEF BestOfProcessed
  <2>1. Kind = "Optimisation" => BestOf(Space \ stolen)
    BY <1>1, ReturnedSettled DEF BestOf, Goal
  <2>2. ASSUME Kind = "Decision",
               NEW n \in Space \ stolen, Obj[n] = expectedObjective
        PROVE  Obj[incumbent] = expectedObjective
    <3>1. Obj[n] <= Obj[incumbent]
      BY <1>1, <2>2, ReturnedSettled DEF Goal
    <3>2. Obj[incumbent] <= expectedObjective /\ Obj[incumbent] \in Nat
      BY <1>1, <2>2, ObjNat DEF AnswerInv, StealInv, Shape, ProcessInv, StopsSolved, SharedTyped
    <3> QED
      BY <2>2, <3>1, <3>2, BoundAssumption
  <2> QED
    BY <2>1, <2>2
<1> QED
  BY InitAnswer, NextAnswer, <1>1, PTL DEF Spec
-----------------------------------------------------------------------------
\* 10. The promise of an enumeration.

\* The argument that an enumeration answers with the number of nodes: a search
\* of another kind counts nothing, ...
Uncounting == Kind # "Enumeration" => /\ counted = Zero
                                      /\ \A w \in Worker : acc[w] = Zero

PromiseInv == CountInv /\ AnswerInv /\ Uncounting

LEMMA InitPromise == Init => PromiseInv
<1> SUFFICES ASSUME Init, Kind # "Enumeration"
             PROVE  counted = Zero /\ \A w \in Worker : acc[w] = Zero
  BY InitCount, InitAnswer DEF PromiseInv, Uncounting
<1>1. counted = Zero
  BY DEF Init
<1>2. \A S : NewAcc(S) = Zero
  BY DEF NewAcc, Zero
<1>3. acc[first] = Zero /\ \A w \in Worker \ {first} : acc[w] = Zero
  BY <1>2, StartState
<1> QED
  BY <1>1, <1>3

\* Only the end of a task moves the registries' counts.
LEMMA CountsMove ==
    ASSUME NEW w \in Worker, Step(w), ~ UpdateEnumerator(w)
    PROVE  UNCHANGED counted
BY DEF Step, Thief, Walk, Loop, TakeBuffered, AskLocal, AskRemote, NoWork, ServeRemote,
   RefuseRemote, AnswerRemote, FinishRemote, FinishLocal, Register, Stop, Reply, LowerFlag,
   NextChild, Backtrack, ProcessChild, Continue, Prune, Break, Exit, Unregister, search_vars

LEMMA StepUncounting ==
    ASSUME Shape, Uncounting, Kind # "Enumeration", NEW w \in Worker, Step(w)
    PROVE  counted' = Zero /\ \A v \in Worker : acc'[v] = Zero
<1>0. /\ acc \in [Worker -> [Node -> Nat]]
      /\ counted = Zero /\ acc[w] = Zero
  BY StateTyped DEF Uncounting
<1>1. \A v \in Worker \ {w} : acc'[v] = Zero
  BY OthersKept DEF Uncounting
<1>2. ASSUME UNCHANGED acc \/ \E S : acc' = [acc EXCEPT ![w] = NewAcc(S)]
      PROVE  acc'[w] = Zero
  <2>1. \A S : NewAcc(S) = Zero
    BY DEF NewAcc, Zero
  <2> QED
    BY <1>0, <1>2, <2>1
<1>3. CASE Thief(w)
  <2>1. UNCHANGED acc \/ \E S : acc' = [acc EXCEPT ![w] = NewAcc(S)]
    BY <1>3 DEF Thief, Loop, TakeBuffered, AskLocal, AskRemote, NoWork, ServeRemote,
       RefuseRemote, AnswerRemote, FinishRemote, FinishLocal, Use, Run, Request
  <2>2. UNCHANGED counted
    BY <1>3, CountsMove, WalkFrom, ThiefStays DEF Step, Walk, Thieving, UpdateEnumerator
  <2> QED
    BY <1>0, <1>1, <1>2, <2>1, <2>2
<1>4. CASE UpdateEnumerator(w)
  <2>1. counted' = [n \in Node |-> 0 + 0] /\ acc'[w] = Zero
    BY <1>0, <1>4 DEF UpdateEnumerator, Zero
  <2> QED
    BY <1>1, <2>1 DEF Zero
<1>5. CASE ProcessChild(w)
  <2>1. UNCHANGED <<acc, counted>>
    BY <1>5, CountingStep DEF ProcessChild, Shape, search_vars
  <2> QED
    BY <1>0, <1>1, <2>1
<1>6. CASE \/ Register(w) \/ Stop(w) \/ Reply(w) \/ LowerFlag(w) \/ NextChild(w)
           \/ Backtrack(w) \/ Continue(w) \/ Prune(w) \/ Break(w) \/ Exit(w) \/ Unregister(w)
  <2>1. UNCHANGED <<acc, counted>>
    BY <1>6 DEF Register, Stop, Reply, LowerFlag, NextChild, Backtrack, Continue, Prune,
       Break, Exit, Unregister, search_vars
  <2> QED
    BY <1>0, <1>1, <2>1
<1> QED
  BY <1>3, <1>4, <1>5, <1>6 DEF Step, Walk

LEMMA NextPromise == PromiseInv /\ [Next]_vars => PromiseInv'
<1> SUFFICES ASSUME PromiseInv, [Next]_vars PROVE Uncounting'
  BY NextCountInv, NextAnswer DEF PromiseInv
<1>0. Shape /\ Uncounting
  BY DEF PromiseInv, CountInv, StealInv
<1>1. ASSUME NEW w \in Worker, Step(w) PROVE Uncounting'
  <2>1. Kind' = Kind
    BY <1>1, StepTags
  <2>2. CASE Kind = "Enumeration"
    BY <2>1, <2>2 DEF Uncounting
  <2>3. CASE Kind # "Enumeration"
    <3>1. counted' = Zero /\ \A v \in Worker : acc'[v] = Zero
      BY <1>0, <1>1, <2>3, StepUncounting
    <3>2. Zero' = Zero
      BY DEF Zero
    <3> QED
      BY <3>1, <3>2 DEF Uncounting
  <2> QED
    BY <2>2, <2>3
<1>2. CASE RootReady \/ Return \/ Deliver \/ UNCHANGED vars
  <2>1. UNCHANGED <<tags, acc, counted>>
    BY <1>2 DEF RootReady, Return, Deliver, Receive, ReceiveBound, ReceiveStop, vars,
       process_vars, search_vars
  <2> QED
    BY <1>0, <2>1 DEF Uncounting, Kind, Zero
<1> QED
  BY <1>1, <1>2 DEF Next

\* ... no node is counted twice, by the registries and a task together, ...
LEMMA CountedOnce ==
    ASSUME PromiseInv, NEW n \in Node, NEW w \in Worker
    PROVE  /\ counted[n] + acc[w][n] <= 1
           /\ n \notin Space => counted[n] + acc[w][n] = 0
<1>0. counted[n] \in Nat /\ acc[w][n] \in Nat
  BY StateTyped DEF PromiseInv, CountInv, StealInv
<1>1. CASE Kind # "Enumeration"
  BY <1>1 DEF PromiseInv, Uncounting, Zero
<1>2. CASE Kind = "Enumeration" /\ n \notin Space
  BY <1>2 DEF PromiseInv, CountInv, SpaceKept
<1>3. CASE Kind = "Enumeration" /\ n \in Space
  <2>1. AtMostOne(Claims(n))
    BY DEF PromiseInv, CountInv, StealInv, Unique
  <2>2. /\ \A i \in 1..counted[n] : <<"counted", 0, i>> \in Claims(n)
        /\ \A i \in 1..acc[w][n] : <<"acc", w, i>> \in Claims(n)
    <3>1. /\ \A i \in 1..counted[n] : <<"counted", 0, i>> \in Claims(n)
          /\ \A i \in 1..acc[w][n] : <<"acc", w, i>> \in Held(w, n)
      BY DEF Claims, Shared, Held
    <3>2. Held(w, n) \subseteq Claims(n)
      BY DEF Claims
    <3> QED
      BY <3>1, <3>2
  <2>3. ~ (1 \in 1..counted[n] /\ 2 \in 1..counted[n])
    <3>0. SUFFICES ASSUME 1 \in 1..counted[n], 2 \in 1..counted[n] PROVE FALSE
      OBVIOUS
    <3>1. <<"counted", 0, 1>> \in Claims(n) /\ <<"counted", 0, 2>> \in Claims(n)
      BY <2>2, <3>0, Zenon
    <3>2. <<"counted", 0, 1>> = <<"counted", 0, 2>>
      BY <2>1, <3>1, Zenon DEF AtMostOne
    <3> QED
      BY <3>2
  <2>4. ~ (1 \in 1..acc[w][n] /\ 2 \in 1..acc[w][n])
    <3>0. SUFFICES ASSUME 1 \in 1..acc[w][n], 2 \in 1..acc[w][n] PROVE FALSE
      OBVIOUS
    <3>1. <<"acc", w, 1>> \in Claims(n) /\ <<"acc", w, 2>> \in Claims(n)
      BY <2>2, <3>0, Zenon
    <3>2. <<"acc", w, 1>> = <<"acc", w, 2>>
      BY <2>1, <3>1, Zenon DEF AtMostOne
    <3> QED
      BY <3>2
  <2>5. ~ (1 \in 1..counted[n] /\ 1 \in 1..acc[w][n])
    <3>1. SUFFICES ASSUME <<"counted", 0, 1>> \in Claims(n), <<"acc", w, 1>> \in Claims(n)
                   PROVE  FALSE
      BY <2>2
    <3>2. <<"counted", 0, 1>> = <<"acc", w, 1>>
      BY <2>1, <3>1, Zenon DEF AtMostOne
    <3> QED
      BY <3>2
  <2> QED
    BY <1>0, <1>3, <2>3, <2>4, <2>5
<1> QED
  BY <1>1, <1>2, <1>3

\* ... and none is missing once no task waits and every scheduler is a thief.
LEMMA ReturnComplete ==
    ASSUME PromiseInv, Kind = "Enumeration", Return
    PROVE  Counted = Space
<1>0. /\ CountInv /\ Shape /\ counted \in [Node -> Nat] /\ Space \subseteq Node
      /\ Queued = {} /\ \A w \in Worker : pc[w] \in Thieving
  BY StateTyped DEF Return, PromiseInv, CountInv, StealInv, AnswerInv, Quiet, Space
<1>1. ASSUME NEW n \in Counted PROVE n \in Space
  BY <1>0 DEF Counted, CountInv, SpaceKept
<1>2. ASSUME NEW n \in Space PROVE n \in Counted
  <2>1. Claims(n) # {}
    BY <1>0 DEF CountInv
  <2>2. ASSUME NEW w \in Worker PROVE Held(w, n) = {}
    <3>1. pc[w] \in Thieving /\ acc[w][n] = 0
      BY <1>0 DEF Shape, Placed, Zero
    <3>2. ~ Walking(w) /\ Hand(w) = {}
      BY <3>1 DEF Walking, Hand, Thieving, ProcessPlaces
    <3>3. TasksWith(InTransit(w), n) = {}
      <4>1. ASSUME NEW i \in DOMAIN InTransit(w) PROVE FALSE
        BY <1>0, <4>1, QueuedNames DEF Range
      <4> QED
        BY <4>1 DEF TasksWith
    <3> QED
      BY <3>1, <3>2, <3>3 DEF Held
  <2>3. Buffered(n) = {}
    <3>1. ASSUME NEW l \in Locality, NEW i \in DOMAIN taskBuffer[l] PROVE FALSE
      BY <1>0, <3>1, QueuedNames DEF Range
    <3> QED
      BY <3>1 DEF Buffered, TasksWith
  <2>4. Claims(n) = {<<"counted", 0, i>> : i \in 1..counted[n]}
    BY <2>2, <2>3 DEF Claims, Shared
  <2>5. 1..counted[n] # {}
    BY <2>1, <2>4
  <2>6. counted[n] > 0
    BY <1>0, <2>5
  <2> QED
    BY <1>0, <2>6 DEF Counted
<1> QED
  BY <1>1, <1>2

LEMMA SameCardinality == \A S : Promise!Cardinality(S) = Cardinality(S)
BY DEF Promise!Cardinality, Cardinality

\* The end of a task is one step of the promise: the nodes it has counted are
\* new to the registries.
LEMMA UpdateAccumulates ==
    ASSUME PromiseInv, NEW w \in Worker, UpdateEnumerator(w)
    PROVE  Promise!Accumulate
<1>0. /\ Step(w) /\ counted \in [Node -> Nat] /\ acc \in [Worker -> [Node -> Nat]]
      /\ counted' = [n \in Node |-> counted[n] + acc[w][n]]
  BY StateTyped DEF PromiseInv, CountInv, StealInv, Step, Walk, UpdateEnumerator
<1>1. UNCHANGED <<Kind, Space, main>> /\ main = "await"
  <2>1. pc[w] \notin Thieving
    BY DEF UpdateEnumerator, Thieving
  <2> QED
    BY <1>0, <2>1, StepTags, StepMain DEF PromiseInv, AnswerInv, Quiet
<1>2. ~ Returned /\ ~ Returned'
  BY <1>1 DEF Returned
<1> DEFINE S == {n \in Node : counted[n] = 0 /\ counted'[n] > 0}
<1>3. \A n \in Node : /\ counted[n] \in Nat /\ acc[w][n] \in Nat
                      /\ counted'[n] = counted[n] + acc[w][n]
                      /\ counted'[n] <= 1
                      /\ n \notin Space => counted'[n] = 0
  BY <1>0, CountedOnce
<1>4. counted' \in [Node -> Nat] /\ \A n \in Node : counted[n] <= counted'[n] /\ counted'[n] <= 1
  BY <1>0, <1>3
<1>5. combineEnumerators(counted') = combineEnumerators(counted) + Cardinality(S)
  BY <1>0, <1>4, CombineMore
<1>6. Counted' = Counted \cup S
  BY <1>3 DEF Counted
<1>7. S \in SUBSET (Space \ Counted)
  BY <1>3 DEF Counted
<1> HIDE DEF S
<1>8. combineEnumerators(counted)' = combineEnumerators(counted')
  BY DEF combineEnumerators
<1> QED
  BY <1>1, <1>2, <1>5, <1>6, <1>7, <1>8, SameCardinality DEF Promise!Accumulate

\* StackStealing implements Enumeration: whatever the tree, the clusters and
\* the order of requests, answers and chunks, search counts every node of the
\* space exactly once and answers with their number.
THEOREM CountsOnce == Spec => CountsEachNodeOnce
<1>1. Init => Promise!Init
  <2> SUFFICES ASSUME Init PROVE Promise!Init
    OBVIOUS
  <2>1. counted = Zero /\ ~ Returned
    BY DEF Init, Returned
  <2>2. Counted = {}
    BY <2>1 DEF Counted, Zero
  <2>3. combineEnumerators(counted) = 0
    <3>1. combineEnumerators(Zero) = Cardinality({n \in Node : Zero[n] > 0})
      BY ZeroTyped, CombineOnce DEF Zero
    <3>2. {n \in Node : Zero[n] > 0} = {}
      BY DEF Zero
    <3> QED
      BY <2>1, <3>1, <3>2, FS_EmptySet
  <2> QED
    BY <2>1, <2>2, <2>3 DEF Promise!Init
<1>2. PromiseInv /\ [Next]_vars => [Promise!Next]_(Promise!vars)
  <2> SUFFICES ASSUME PromiseInv, [Next]_vars
               PROVE  [Promise!Next]_(Promise!vars)
    OBVIOUS
  <2>1. ASSUME UNCHANGED <<Space, counted, Returned>> PROVE UNCHANGED Promise!vars
    <3>1. UNCHANGED <<Counted, combineEnumerators(counted)>>
      BY <2>1 DEF Counted, combineEnumerators
    <3> QED
      BY <2>1, <3>1 DEF Promise!vars
  <2>2. ASSUME NEW w \in Worker, UpdateEnumerator(w) PROVE Promise!Next
    BY <2>2, UpdateAccumulates DEF Promise!Next
  <2>3. ASSUME NEW w \in Worker, Step(w), ~ UpdateEnumerator(w) PROVE UNCHANGED Promise!vars
    <3>1. UNCHANGED <<Kind, Space, main, counted>>
      BY <2>3, StepTags, StepMain, CountsMove
    <3> QED
      BY <2>1, <3>1 DEF Returned
  <2>4. CASE Return /\ Kind = "Enumeration"
    <3>1. UNCHANGED <<tags, counted>> /\ main = "stop" /\ main' = "returned"
      BY <2>4 DEF Return, process_vars
    <3>2. UNCHANGED <<Kind, Space>>
      BY <3>1 DEF Kind, DepthLimited, Space
    <3>3. ~ Returned /\ Returned'
      BY <2>4, <3>1, <3>2 DEF Returned
    <3>4. Counted = Space
      BY <2>4, ReturnComplete
    <3>5. UNCHANGED <<Counted, combineEnumerators(counted)>>
      BY <3>1 DEF Counted, combineEnumerators
    <3> QED
      BY <3>2, <3>3, <3>4, <3>5 DEF Promise!Return, Promise!Next
  <2>5. ASSUME \/ RootReady \/ (Return /\ Kind # "Enumeration")
               \/ Deliver \/ UNCHANGED vars
        PROVE  UNCHANGED Promise!vars
    <3>1. UNCHANGED <<tags, counted>>
      BY <2>5 DEF RootReady, Return, Deliver, Receive, ReceiveBound, ReceiveStop, vars,
         process_vars, search_vars
    <3>2. UNCHANGED <<Kind, Space>>
      BY <3>1 DEF Kind, DepthLimited, Space
    <3>3. UNCHANGED Returned
      BY <2>5, <3>2 DEF Returned, RootReady, Return, Deliver, vars, search_vars
    <3> QED
      BY <2>1, <3>1, <3>2, <3>3
  <2>6. \/ \E w \in Worker : Step(w)
        \/ RootReady \/ Return \/ Deliver \/ UNCHANGED vars
    BY DEF Next
  <2> QED
    BY <2>2, <2>3, <2>4, <2>5, <2>6
<1> QED
  BY <1>1, <1>2, InitPromise, NextPromise, PTL
  DEF Spec, CountsEachNodeOnce, Promise!Spec
-----------------------------------------------------------------------------
\* 11. The size of generatorStack.

\* The argument, for every kind of search: the node of the frame at position i
\* is at least i - 1 levels down, and a child that has been written to the
\* position after the last frame at least as many levels as there are frames.
SlotsAt(w) == /\ FrameSlots(stack[w])
              /\ pc[w] \in WithChild => Len(stack[w]) <= Len(child[w])

FitInv == StealInv /\ DepthKept /\ \A w \in Worker : SlotsAt(w)

\* A scheduler that gets no deeper and has no child in hand.
LEMMA SlotsStay ==
    ASSUME NEW w \in Worker, NEW s \in Seq(Frames), NEW t \in Seq(Frames), s = stack[w], t = stack'[w],
           FrameSlots(s), Len(t) <= Len(s), \A i \in 1..Len(t) : t[i][1] = s[i][1],
           pc'[w] \notin WithChild
    PROVE  SlotsAt(w)'
<1>1. FrameSlots(t)
  BY FrameSlotsSame
<1> QED
  BY <1>1 DEF SlotsAt

LEMMA StepSlots ==
    ASSUME Shape, Steals, NEW w \in Worker, SlotsAt(w), Step(w)
    PROVE  SlotsAt(w)'
<1>0. /\ FrameSlots(stack[w])
      /\ pc \in [Worker -> Places] /\ child \in [Worker -> Node \cup {NoNode}]
      /\ stack[w] \in Seq(Frames) /\ stack \in [Worker -> Seq(Frames)]
  BY StateTyped DEF SlotsAt
<1>1. CASE Starts(w)
  <2>1. PICK t \in Node : stack' = [stack EXCEPT ![w] = <<<<t, 1>>>>] /\ pc'[w] = "register"
    BY <1>1 DEF Starts
  <2>2. PICK u : u = stack'[w]
    OBVIOUS
  <2>3. Len(u) = 1 /\ u[1][1] = t /\ Len(t) \in Nat
    BY <1>0, <2>1, <2>2, NodeTyped
  <2>4. FrameSlots(u)
    BY <2>3 DEF FrameSlots
  <2> QED
    BY <2>1, <2>2, <2>4 DEF SlotsAt, WithChild, Acting
<1>2. CASE stack'[w] = stack[w] /\ pc'[w] \notin WithChild
  BY <1>0, <1>2, SlotsStay
<1>3. CASE Reply(w)
  <2>1. pc'[w] \notin WithChild
    BY <1>3, ReplyLowers DEF WithChild, Acting
  <2>2. CASE UNCHANGED stack
    BY <1>2, <2>1, <2>2
  <2>3. ASSUME NEW i \in Nat, NEW k \in Nat, GivesAway(w, i, k) PROVE SlotsAt(w)'
    <3>1. PICK s \in Seq(Frames), t \in Seq(Frames) : s = stack[w] /\ t = stack'[w]
      BY <1>0, <2>3 DEF GivesAway
    <3>2. i \in 1..Len(s) - 1 /\ Handed(s, t, i, k)
      BY <2>3, <3>1 DEF GivesAway
    <3>3. Len(t) = Len(s) /\ \A j \in 1..Len(t) : t[j][1] = s[j][1]
      BY <3>2 DEF Handed, Advanced
    <3> QED
      BY <1>0, <2>1, <3>1, <3>3, SlotsStay
  <2> QED
    BY <1>3, <2>2, <2>3, ReplyGives
<1>4. CASE NextChild(w)
  <2>1. PICK s \in Seq(Frames), t \in Seq(Frames), d \in Nat \ {0} :
           s = stack[w] /\ t = stack'[w] /\ d = Len(s)
    <3>1. stack'[w] \in Seq(Frames)
      BY <1>4, NextChildStack
    <3> QED
      BY <1>0, <1>4, <3>1, NextChildStack, FrameTyped
  <2>2. /\ Len(t) = d /\ t[d] = <<Current(w), Frame(w)[2] + 1>>
        /\ \A i \in 1..d - 1 : t[i] = s[i]
        /\ s[d] = <<Current(w), Frame(w)[2]>>
        /\ child'[w] = Child(Current(w), Frame(w)[2])
        /\ Current(w) \in Node /\ Frame(w)[2] \in Nat
    <3>1. Running(w)
      BY <1>4, NextChildStack
    <3> QED
      BY <1>4, <2>1, <3>1, NextChildStack, FrameTyped
  <2>3. ASSUME NEW i \in 1..d PROVE t[i][1] = s[i][1]
    BY <2>2
  <2>4. FrameSlots(t)
    <3>1. FrameSlots(s) /\ Len(s) \in Nat /\ Len(t) \in Nat /\ Len(t) <= Len(s)
      BY <1>0, <2>1, <2>2
    <3>2. \A i \in 1..Len(t) : t[i][1] = s[i][1]
      BY <2>2, <2>3
    <3> QED
      BY <3>1, <3>2, FrameSlotsSame
  <2>5. d <= Len(child'[w])
    <3>1. s[d][1] = Current(w) /\ Len(child'[w]) = Len(Current(w)) + 1
      <4>1. PICK c, k : c = Current(w) /\ k = Frame(w)[2]
        OBVIOUS
      <4>2. s[d] = <<c, k>> /\ child'[w] = Child(c, k) /\ c \in Node /\ k \in Nat
        BY <2>2, <4>1
      <4>3. s[d][1] = c /\ Len(Child(c, k)) = Len(c) + 1
        BY <4>2, ChildTyped
      <4> QED
        BY <4>1, <4>2, <4>3
    <3>2. d <= Len(s[d][1]) + 1
      BY <1>0, <2>1 DEF FrameSlots
    <3> QED
      BY <3>1, <3>2
  <2> QED
    BY <2>1, <2>2, <2>4, <2>5 DEF SlotsAt
<1>5. CASE Backtrack(w) \/ Break(w)
  <2>1. Pop(w) /\ Running(w)
    BY <1>5, MovingPlaces DEF Backtrack, Break, Running
  <2>2. /\ stack'[w] \in Seq(Frames)
        /\ \/ Goto(w, "count") /\ stack'[w] = stack[w]
           \/ /\ Len(stack[w]) > 1 /\ Goto(w, "loop")
              /\ stack'[w] = SubSeq(stack[w], 1, Len(stack[w]) - 1)
    BY <2>1, PopStack
  <2>3. PICK s \in Seq(Frames), t \in Seq(Frames) : s = stack[w] /\ t = stack'[w]
    BY <1>0, <2>2
  <2>4. Len(t) <= Len(s) /\ \A i \in 1..Len(t) : t[i] = s[i]
    <3>1. CASE t = s
      BY <3>1
    <3>2. CASE Len(s) > 1 /\ t = SubSeq(s, 1, Len(s) - 1)
      BY <3>2
    <3> QED
      BY <2>2, <2>3, <3>1, <3>2
  <2>5. pc'[w] \notin WithChild
    BY <1>0, <2>2 DEF Goto, WithChild, Acting
  <2> QED
    BY <1>0, <2>3, <2>4, <2>5, SlotsStay
<1>6. CASE ProcessChild(w)
  <2>1. Process(w) /\ UNCHANGED stack /\ ret \in [Worker -> Answers]
    BY <1>6, StateTyped DEF ProcessChild
  <2>2. pc[w] \in WithChild /\ UNCHANGED child
    BY <2>1, ProcessPlace DEF WithChild
  <2> QED
    BY <2>1, <2>2 DEF SlotsAt
<1>7. CASE Continue(w)
  <2>1. /\ pc[w] = "answered" /\ pc'[w] \notin WithChild /\ child[w] \in Node /\ Running(w)
        /\ stack'[w] \in Seq(Frames)
    BY <1>0, <1>7, ContinueStack DEF Continue, Goto, WithChild, Acting
  <2>2. CASE stack'[w] = stack[w]
    BY <1>2, <2>1, <2>2
  <2>3. CASE stack'[w] = Append(stack[w], <<child[w], 1>>)
    <3>1. PICK s \in Seq(Frames), t \in Seq(Frames), c \in Node :
             s = stack[w] /\ t = stack'[w] /\ c = child[w]
      BY <1>0, <2>1
    <3>2. /\ Len(t) = Len(s) + 1 /\ t[Len(s) + 1] = <<c, 1>>
          /\ \A i \in 1..Len(s) : t[i] = s[i]
      BY <2>3, <3>1, PushFrame
    <3>3. Len(s) \in Nat /\ Len(s) <= Len(c) /\ Len(c) \in Nat /\ FrameSlots(s)
      BY <1>0, <2>1, <3>1, NodeTyped DEF SlotsAt, WithChild
    <3>4. \A i \in 1..Len(s) : t[i][1] = s[i][1]
      BY <3>2, Zenon
    <3>5. t[Len(s) + 1][1] = c
      BY <3>2
    <3>6. FrameSlots(t)
      BY <3>2, <3>3, <3>4, <3>5, FrameSlotsPushed
    <3> QED
      BY <2>1, <3>1, <3>6 DEF SlotsAt
  <2> QED
    BY <1>7, <2>2, <2>3, ContinueStack
<1>8. CASE Unregister(w)
  <2>1. stack'[w] = <<>> /\ pc'[w] = "idle"
    BY <1>0, <1>8 DEF Unregister, Goto
  <2> QED
    BY <2>1 DEF SlotsAt, FrameSlots, WithChild, Acting
<1>9. CASE Register(w) \/ Stop(w) \/ LowerFlag(w) \/ Prune(w) \/ Exit(w) \/ UpdateEnumerator(w)
  <2>1. UNCHANGED stack /\ \E p \in {"loop", "count", "move", "unregister"} : Goto(w, p)
    BY <1>9 DEF Register, Stop, LowerFlag, Prune, Exit, UpdateEnumerator
  <2>2. pc'[w] \notin WithChild
    BY <1>0, <2>1 DEF Goto, WithChild, Acting
  <2> QED
    BY <1>2, <2>1, <2>2
<1>10. CASE Thief(w)
  <2>1. Starts(w) \/ (pc'[w] \in Thieving /\ UNCHANGED stack)
    BY <1>10, ThiefStays
  <2>2. Thieving \cap WithChild = {}
    BY DEF Thieving, WithChild, Acting
  <2> QED
    BY <1>1, <1>2, <2>1, <2>2
<1> QED
  BY <1>3, <1>4, <1>5, <1>6, <1>7, <1>8, <1>9, <1>10 DEF Step, Walk

LEMMA InitFit == Init => FitInv
<1> SUFFICES ASSUME Init PROVE FitInv
  OBVIOUS
<1>1. StealInv
  BY InitCount DEF CountInv
<1>2. DepthKept
  BY InitDepth
<1>3. \A w \in Worker : pc[w] \notin WithChild
  BY StartState DEF WithChild, Acting
<1>4. FrameSlots(FirstStack)
  <2>1. CASE given = 0 \/ Exhausted
    <3>1. FirstStack = <<<<Root, 1>>>> /\ Len(Root) = 0
      BY <2>1 DEF FirstStack, Root
    <3> QED
      BY <3>1 DEF FrameSlots
  <2>2. CASE ~ (given = 0 \/ Exhausted)
    <3>1. PICK a, b : FirstStack = <<<<Root, a + 1>>, <<<<a>>, b + 1>>>>
      BY <2>2 DEF FirstStack
    <3>2. PICK m, f, g : m = <<a>> /\ f = <<Root, a + 1>> /\ g = <<m, b + 1>>
      OBVIOUS
    <3>3. FirstStack = <<f, g>> /\ f[1] = Root /\ g[1] = m /\ Len(m) = 1
      BY <3>1, <3>2
    <3>4. PICK s : s = FirstStack
      OBVIOUS
    <3>5. Len(s) = 2 /\ Len(s[1][1]) = 0 /\ Len(s[2][1]) = 1
      BY <3>3, <3>4 DEF Root
    <3>6. FrameSlots(s)
      <4>1. \A i \in 1..2 : i = 1 \/ i = 2
        OBVIOUS
      <4>2. 1 <= Len(s[1][1]) + 1 /\ 2 <= Len(s[2][1]) + 1
        BY <3>5
      <4> QED
        BY <3>5, <4>1, <4>2 DEF FrameSlots
    <3> QED
      BY <3>4, <3>6
  <2> QED
    BY <2>1, <2>2
<1>5. ASSUME NEW w \in Worker \ {first} PROVE FrameSlots(stack[w])
  <2>1. CASE given = 0
    <3>1. Len(stack[w]) = 0
      BY <2>1, StartState
    <3> QED
      BY <3>1 DEF FrameSlots
  <2>2. CASE given # 0
    <3>1. PICK m : m = Given1(w)
      OBVIOUS
    <3>2. stack[w] = <<<<m, 1>>>> /\ Len(m) = 2
      BY <2>2, <3>1, StartState, StartTasks, DepthTwo
    <3> QED
      BY <3>2 DEF FrameSlots
  <2> QED
    BY <2>1, <2>2
<1>6. stack[first] = FirstStack
  BY StartState
<1> QED
  BY <1>1, <1>2, <1>3, <1>4, <1>5, <1>6 DEF FitInv, SlotsAt

LEMMA NextFit == FitInv /\ [Next]_vars => FitInv'
<1> SUFFICES ASSUME FitInv, [Next]_vars PROVE FitInv'
  OBVIOUS
<1>0. StealInv' /\ Shape /\ Steals
  BY StealInvKept DEF FitInv, StealInv
<1>1. ASSUME NEW w \in Worker, Step(w) PROVE FitInv'
  <2>1. DepthKept'
    BY <1>0, <1>1, StepDepth DEF FitInv
  <2>2. SlotsAt(w)'
    BY <1>0, <1>1, StepSlots DEF FitInv
  <2>3. ASSUME NEW v \in Worker \ {w} PROVE SlotsAt(v)'
    BY <1>0, <1>1, OthersKept DEF FitInv, SlotsAt
  <2> QED
    BY <1>0, <2>1, <2>2, <2>3 DEF FitInv
<1>2. CASE RootReady \/ Return \/ Deliver \/ UNCHANGED vars
  <2>1. UNCHANGED <<tags, pc, child, stack, answer, taskBuffer>>
    BY <1>2 DEF RootReady, Return, Deliver, Receive, ReceiveBound, ReceiveStop, vars,
       process_vars, manager_vars, thief_vars
  <2>2. Queued' = Queued /\ UNCHANGED DepthLimited
    BY <2>1, QueuedSame DEF InTransit, DepthLimited
  <2>3. \A w \in Worker : SlotsAt(w)' /\ DepthAt(w)' = DepthAt(w)
    BY <2>1 DEF FitInv, SlotsAt, DepthAt, Current, Frame
  <2> QED
    BY <1>0, <2>2, <2>3 DEF FitInv, DepthKept
<1> QED
  BY <1>1, <1>2 DEF Next

\* generatorStack never needs more elements than the deepest node of the space
\* has levels, for any kind of search and however tasks are stolen.
THEOREM StackNeverOverrun == Spec => []StackFits
<1>1. ASSUME FitInv PROVE StackFits
  <2> SUFFICES ASSUME NEW w \in Worker, stack[w] # <<>>
               PROVE  \E n \in Space : Slot(w) <= Len(n)
    BY DEF StackFits
  <2>0. /\ Shape /\ maxDepth \in Nat /\ SlotsAt(w) /\ (DepthLimited => DepthAt(w))
        /\ pc[w] \in Places
    BY <1>1, StateTyped, StackAssumption DEF FitInv, StealInv, DepthKept
  <2> DEFINE d == Len(stack[w])
             m == stack[w][d][1]
  <2>1. d \in Nat \ {0} /\ m \in Node /\ Len(m) \in Nat
    <3>1. stack[w] \in Seq(Frames)
      BY <2>0, StateTyped
    <3>2. d \in Nat \ {0} /\ stack[w][d] \in Frames
      BY <3>1, EmptySeq, ElementOfSeq
    <3> QED
      BY <3>2, NodeTyped DEF Frames
  <2>2. d <= Len(m) + 1 /\ (DepthLimited => Len(m) + 1 < maxDepth)
    BY <2>0, <2>1 DEF SlotsAt, FrameSlots, DepthAt, LevelsKept
  <2>3. CASE pc[w] \in WithChild
    <3>1. child[w] \in Node /\ Len(child[w]) \in Nat
      BY <2>0, <2>3, NodeTyped DEF Shape, ProcessInv, InHand, WithChild
    <3>2. DepthLimited => Len(child[w]) < maxDepth
      BY <2>0, <2>2, <2>3 DEF DepthAt, Current, Frame
    <3>3. child[w] \in Space
      BY <3>1, <3>2 DEF Space
    <3>4. Slot(w) = d /\ d <= Len(child[w])
      BY <2>0, <2>3 DEF Slot, SlotsAt, WithChild, Acting, ProcessPlaces
    <3> QED
      BY <3>3, <3>4
  <2>4. CASE pc[w] \notin WithChild
    <3>1. Slot(w) = d - 1
      BY <2>0, <2>4 DEF Slot, WithChild, Acting, ProcessPlaces
    <3>2. m \in Space
      BY <2>0, <2>1, <2>2 DEF Space
    <3>3. d - 1 <= Len(m)
      BY <2>1, <2>2
    <3> QED
      BY <3>1, <3>2, <3>3
  <2> QED
    BY <2>3, <2>4
<1> QED
  BY InitFit, NextFit, <1>1, PTL DEF Spec
=============================================================================
