---------------------------- MODULE DepthBounded ----------------------------
(***************************************************************************)
(* An enumeration search with the DepthBounded skeleton over the           *)
(* PerformancePolicy: one DepthPool per locality, schedulers that take     *)
(* work locally and then from a victim, subtree tasks that spawn their     *)
(* children down to spawnDepth, promises that tell a parent its children   *)
(* are done, and the search function that waits for the root's promise,    *)
(* stops the schedulers and adds up the localities' enumerators.           *)
(*                                                                         *)
(* The victim of a steal is the monitor's top_steal_id_num.  It starts     *)
(* random and later comes from counts read at some earlier time, so any    *)
(* locality can be the victim of any steal.                                *)
(***************************************************************************)
EXTENDS SearchTree, DepthPoolOps

CONSTANTS Locality, Worker,
          home,          \* home[w]: the locality scheduler w runs on
          MainLoc,       \* where search is called
          spawnDepth,    \* params.spawnDepth
          DepthLimited,  \* the skeleton has the DepthLimited tag
          maxDepth       \* params.maxDepth

ASSUME SearchAssumption ==
    /\ home \in [Worker -> Locality] /\ MainLoc \in Locality
    /\ \A l \in Locality : \E w \in Worker : home[w] = l
    /\ spawnDepth \in Nat /\ maxDepth \in Nat \ {0} /\ DepthLimited \in BOOLEAN
    /\ NoTask \notin Node

VARIABLES pool,      \* the DepthPool of each locality
          pc,        \* where each scheduler is
          task,      \* the task it runs
          next,      \* position of the child it expands next
          acc,       \* nodes the running task has accumulated
          futures,   \* children whose futures the running task holds
          enum,      \* Registry.acc of each locality: times each node counted
          waits,     \* termination_wait calls in progress
          ready,     \* tasks whose promise is set
          created,   \* observer: nodes createTask has been called for
          running,   \* the running flag of each locality
          joined,    \* localities whose stopSchedulers has returned
          main,      \* where search is
          answer     \* what it returned, -1 before

task_vars == <<task, next, acc, futures>>
stop_vars == <<running, joined, main, answer>>
vars == <<pool, pc, task_vars, enum, waits, ready, created, stop_vars>>

Zero == [n \in Node |-> 0]
Add(count, S) == [n \in Node |-> count[n] + IF n \in S THEN 1 ELSE 0]

\* childDepth of the task of node n: createTask(1, root), then one more each
\* time a child is spawned.
childDepth(n) == Len(n) + 1

Init == /\ pool = [l \in Locality |-> NewPool]
        /\ pc = [w \in Worker |-> "new"]
        /\ task = [w \in Worker |-> NoTask]
        /\ next = [w \in Worker |-> 1]
        /\ acc = [w \in Worker |-> {}]
        /\ futures = [w \in Worker |-> {}]
        /\ enum = [l \in Locality |-> Zero]
        /\ waits = {}
        /\ ready = {}
        /\ created = {}
        /\ running = [l \in Locality |-> TRUE]
        /\ joined = {}
        /\ main = "root"
        /\ answer = -1

Goto(w, place) == pc' = [pc EXCEPT ![w] = place]

\* createTask: bind the task to a new promise and add it to the local pool.
createTask(l, n) ==
    /\ pool' = [pool EXCEPT ![l] = addWork(@, n, childDepth(n) - 1)]
    /\ created' = created \cup {n}
-----------------------------------------------------------------------------
\* The scheduler loop and PerformancePolicy::getWork.

Register(w) ==
    /\ pc[w] = "new"
    /\ Goto(w, "loop")
    /\ UNCHANGED <<pool, task_vars, enum, waits, ready, created, stop_vars>>

Loop(w) ==
    /\ pc[w] = "loop"
    /\ Goto(w, IF running[home[w]] THEN "local" ELSE "gone")
    /\ UNCHANGED <<pool, task_vars, enum, waits, ready, created, stop_vars>>

\* Run the task a handler of pool l answered with, or go on to another place.
Take(w, l, answered, otherwise) ==
    /\ pool' = [pool EXCEPT ![l] = answered.pool]
    /\ IF answered.task # NoTask
       THEN /\ task' = [task EXCEPT ![w] = answered.task]
            /\ next' = [next EXCEPT ![w] = 1]
            /\ acc' = [acc EXCEPT ![w] = {}]
            /\ futures' = [futures EXCEPT ![w] = {}]
            /\ Goto(w, "expand")
       ELSE Goto(w, otherwise) /\ UNCHANGED task_vars
    /\ UNCHANGED <<enum, waits, ready, created, stop_vars>>

TakeLocal(w) ==
    /\ pc[w] = "local"
    /\ Take(w, home[w], getLocal(pool[home[w]]),
            IF Locality = {home[w]} THEN "loop" ELSE "steal")

\* Mutant: the second attempt follows whatever the first one answered.
StealFirstUnchecked(w) ==
    /\ pc[w] = "steal"
    /\ \E victim \in Locality :
          pool' = [pool EXCEPT ![victim] = steal(@).pool]
    /\ Goto(w, "again")
    /\ UNCHANGED <<task_vars, enum, waits, ready, created, stop_vars>>

StealFirst(w) ==
    /\ pc[w] = "steal"
    /\ \E victim \in Locality :
          Take(w, victim, steal(pool[victim]), "again")

\* After refreshInfo.
StealAgain(w) ==
    /\ pc[w] = "again"
    /\ \E victim \in Locality :
          Take(w, victim, steal(pool[victim]), "loop")
-----------------------------------------------------------------------------
\* subtreeTask.

CutOff(n) == DepthLimited /\ childDepth(n) = maxDepth

\* The nodes expandNoSpawns accumulates below n.
Visited(n) == {m \in Below(n) : DepthLimited => Len(m) < maxDepth
                                                \/ Len(n) >= maxDepth}

\* One turn of the loop of expandWithSpawns.
SpawnChild(w) ==
    /\ pc[w] = "expand"
    /\ childDepth(task[w]) <= spawnDepth
    /\ ~ CutOff(task[w])
    /\ next[w] <= numChildren(task[w])
    /\ LET c == Child(task[w], next[w])
       IN  /\ acc' = [acc EXCEPT ![w] = @ \cup {c}]
           /\ futures' = [futures EXCEPT ![w] = @ \cup {c}]
           /\ createTask(home[w], c)
    /\ next' = [next EXCEPT ![w] = @ + 1]
    /\ UNCHANGED <<pc, task, enum, waits, ready, stop_vars>>

ExpandedWithSpawns(w) ==
    /\ pc[w] = "expand"
    /\ childDepth(task[w]) <= spawnDepth
    /\ CutOff(task[w]) \/ next[w] > numChildren(task[w])
    /\ Goto(w, "count")
    /\ UNCHANGED <<pool, task_vars, enum, waits, ready, created, stop_vars>>

\* The whole recursion touches only the task's own accumulator.
ExpandNoSpawns(w) ==
    /\ pc[w] = "expand"
    /\ childDepth(task[w]) > spawnDepth
    /\ acc' = [acc EXCEPT ![w] = Visited(task[w])]
    /\ Goto(w, "count")
    /\ UNCHANGED <<pool, task, next, futures, enum, waits, ready, created, stop_vars>>

\* Mutant: the locality's enumerator is read outside the lock, so what other
\* schedulers have added is overwritten.
UpdateEnumeratorRaced(w) ==
    /\ pc[w] = "count"
    /\ \/ enum' = [enum EXCEPT ![home[w]] = Add(@, acc[w])]
       \/ enum' = [enum EXCEPT ![home[w]] = Add(Zero, acc[w])]
    /\ Goto(w, "apply")
    /\ UNCHANGED <<pool, task_vars, waits, ready, created, stop_vars>>

UpdateEnumerator(w) ==
    /\ pc[w] = "count"
    /\ enum' = [enum EXCEPT ![home[w]] = Add(@, acc[w])]
    /\ Goto(w, "apply")
    /\ UNCHANGED <<pool, task_vars, waits, ready, created, stop_vars>>

\* Mutant: the children's futures are not passed on.
ApplyTerminationNoFutures(w) ==
    /\ pc[w] = "apply"
    /\ waits' = waits \cup {[task |-> task[w], futures |-> {}]}
    /\ Goto(w, "loop")
    /\ UNCHANGED <<pool, task_vars, enum, ready, created, stop_vars>>

\* Mutant: a task that spawned no children does not set its promise.
ApplyTerminationInner(w) ==
    /\ pc[w] = "apply"
    /\ waits' = IF futures[w] = {} THEN waits
                ELSE waits \cup {[task |-> task[w], futures |-> futures[w]]}
    /\ Goto(w, "loop")
    /\ UNCHANGED <<pool, task_vars, enum, ready, created, stop_vars>>

\* Start termination_wait on this locality and return to the scheduler.
ApplyTermination(w) ==
    /\ pc[w] = "apply"
    /\ waits' = waits \cup {[task |-> task[w], futures |-> futures[w]]}
    /\ Goto(w, "loop")
    /\ UNCHANGED <<pool, task_vars, enum, ready, created, stop_vars>>

\* Mutant: the first child that is done suffices (wait_any).
TerminationWaitAny(tw) ==
    /\ tw.futures = {} \/ tw.futures \cap ready # {}
    /\ ready' = ready \cup {tw.task}
    /\ waits' = waits \ {tw}
    /\ UNCHANGED <<pool, pc, task_vars, enum, created, stop_vars>>

\* termination_wait: all children are done, so set the promise.
TerminationWait(tw) ==
    /\ tw.futures \subseteq ready
    /\ ready' = ready \cup {tw.task}
    /\ waits' = waits \ {tw}
    /\ UNCHANGED <<pool, pc, task_vars, enum, created, stop_vars>>
-----------------------------------------------------------------------------
\* search.

AccumulateRoot ==
    /\ main = "root"
    /\ enum' = [enum EXCEPT ![MainLoc] = Add(@, {Root})]
    /\ main' = "create"
    /\ UNCHANGED <<pool, pc, task_vars, waits, ready, created, running, joined, answer>>

CreateRoot ==
    /\ main = "create"
    /\ createTask(MainLoc, Root)
    /\ main' = "await"
    /\ UNCHANGED <<pc, task_vars, enum, waits, ready, running, joined, answer>>

RootReady ==
    /\ main = "await"
    /\ Root \in ready
    /\ main' = "stop"
    /\ UNCHANGED <<pool, pc, task_vars, enum, waits, ready, created, running, joined, answer>>

StopFlag(l) ==
    /\ main = "stop"
    /\ running[l]
    /\ running' = [running EXCEPT ![l] = FALSE]
    /\ UNCHANGED <<pool, pc, task_vars, enum, waits, ready, created, joined, main, answer>>

Join(l) ==
    /\ ~ running[l]
    /\ l \notin joined
    /\ \A w \in Worker : home[w] = l => pc[w] \in {"new", "gone"}
    /\ joined' = joined \cup {l}
    /\ UNCHANGED <<pool, pc, task_vars, enum, waits, ready, created, running, main, answer>>

\* The enumerators of all localities added up: one for each time a locality
\* has counted a node.
Total == Cardinality(UNION {{<<l, n, k>> : k \in 1..enum[l][n]} :
                               l \in Locality, n \in Node})

combineEnumerators ==
    /\ main = "stop"
    /\ joined = Locality
    /\ answer' = Total
    /\ main' = "returned"
    /\ UNCHANGED <<pool, pc, task_vars, enum, waits, ready, created, running, joined>>

Step(w) == \/ Register(w) \/ Loop(w)
           \/ TakeLocal(w) \/ StealFirst(w) \/ StealAgain(w)
           \/ SpawnChild(w) \/ ExpandedWithSpawns(w) \/ ExpandNoSpawns(w)
           \/ UpdateEnumerator(w) \/ ApplyTermination(w)

Search == \/ AccumulateRoot \/ CreateRoot \/ RootReady \/ combineEnumerators
          \/ \E l \in Locality : StopFlag(l) \/ Join(l)

Next == \/ Search
        \/ \E w \in Worker : Step(w)
        \/ \E tw \in waits : TerminationWait(tw)

\* hpx runs every thread that can run: the schedulers, the suspended
\* termination_wait threads and the main thread.
Fairness == /\ \A w \in Worker : WF_vars(Step(w))
            /\ WF_vars(\E tw \in waits : TerminationWait(tw))
            /\ WF_vars(Search)

Spec == Init /\ [][Next]_vars
FairSpec == Spec /\ Fairness
-----------------------------------------------------------------------------
Places == {"new", "loop", "local", "steal", "again", "expand", "count",
           "apply", "gone"}

TypeOK ==
    /\ \A l \in Locality : IsPool(pool[l], Node)
    /\ pc \in [Worker -> Places]
    /\ task \in [Worker -> Node \cup {NoTask}]
    /\ next \in [Worker -> Nat \ {0}]
    /\ acc \in [Worker -> SUBSET Node]
    /\ futures \in [Worker -> SUBSET Node]
    /\ enum \in [Locality -> [Node -> Nat]]
    /\ waits \subseteq [task : Node, futures : SUBSET Node]
    /\ ready \cup created \subseteq Node
    /\ running \in [Locality -> BOOLEAN]
    /\ joined \subseteq Locality
    /\ main \in {"root", "create", "await", "stop", "returned"}
    /\ answer \in Int

\* The nodes the search has to visit.
Space == {n \in Node : DepthLimited => Len(n) < maxDepth}

Counted == {n \in Node : \E l \in Locality : enum[l][n] > 0}

Busy(w) == pc[w] \in {"expand", "count", "apply"}

\* Where the task of node n is.
PlacesOf(n) == {<<"pool", l>> : l \in {k \in Locality : n \in Held(pool[k])}}
               \cup {<<"worker", w>> : w \in {v \in Worker : Busy(v) /\ task[v] = n}}
               \cup {<<"wait", tw>> : tw \in {x \in waits : x.task = n}}
               \cup (IF n \in ready THEN {<<"ready", n>>} ELSE {})

\* A task that was created is queued at one locality, or runs on one scheduler,
\* or waits for its children, or is done, and nothing else is: steals between
\* pools and the two attempts of getWork neither duplicate nor drop a task.
TaskInOnePlace ==
    \A n \in Node : Cardinality(PlacesOf(n)) = IF n \in created THEN 1 ELSE 0

\* A task's promise is set only after all nodes below it have reached some
\* locality's enumerator, though children are stolen, run and finish in any
\* order (and possibly before their parent has accumulated them).
ReadyMeansCounted == \A n \in ready : Below(n) \cap Space \subseteq Counted

\* When search goes on to stop the schedulers no task is left anywhere.
StopMeansQuiet ==
    main \in {"stop", "returned"} =>
        /\ \A l \in Locality : Held(pool[l]) = {}
        /\ \A w \in Worker : ~ Busy(w)
        /\ waits = {}

\* Each node is counted exactly once and search returns the number of nodes.
Promise == INSTANCE Enumeration WITH space <- Space, counted <- Counted,
                                     total <- Total
CountsEachNodeOnce == Promise!Spec

\* The search ends.
SearchReturns == <>(main = "returned")
=============================================================================
