---------------------------- MODULE DepthPoolOps ----------------------------
(***************************************************************************)
(* The state of one workstealing::DepthPool component and the effect of    *)
(* its three handlers (DepthPool.hpp, DepthPool.cpp).  Every handler holds *)
(* poolsMutex from its first to its last statement, so each is one         *)
(* function from a pool to its answer and the pool it leaves behind.       *)
(*                                                                         *)
(* pools[d] is the FIFO queue of the tasks created at depth d; lowest is   *)
(* the code's hint for the deepest queue in use ("lowest" in the tree).    *)
(***************************************************************************)
EXTENDS Integers, Sequences

CONSTANTS NoTask,      \* the empty function a handler returns (nullptr)
          InitDepth    \* length of the vector of queues at construction (5000)

ASSUME InitDepthAssumption == InitDepth \in Nat \ {0}

NewPool == [pools       |-> [d \in 0..(InitDepth - 1) |-> <<>>],
            lowest      |-> 0,
            max_depth   |-> InitDepth,
            tasks_count |-> 0]

\* The queues a handler scans: index 0 up to the hint.
Scanned(p) == {d \in 0..p.lowest : p.pools[d] # <<>>}

IsShallowest(p, d) == d \in Scanned(p) /\ \A e \in Scanned(p) : d <= e
IsDeepest(p, d)    == d \in Scanned(p) /\ \A e \in Scanned(p) : e <= d

\* Mutant: the counter is not decremented.
PoppedUncounted(p, d, low) == [pools       |-> [p.pools EXCEPT ![d] = Tail(@)],
                               lowest      |-> low,
                               max_depth   |-> p.max_depth,
                               tasks_count |-> p.tasks_count]

\* Mutant: the task stays in its queue.
PoppedKept(p, d, low) == [pools       |-> p.pools,
                          lowest      |-> low,
                          max_depth   |-> p.max_depth,
                          tasks_count |-> p.tasks_count - 1]

Popped(p, d, low) == [pools       |-> [p.pools EXCEPT ![d] = Tail(@)],
                      lowest      |-> low,
                      max_depth   |-> p.max_depth,
                      tasks_count |-> p.tasks_count - 1]

\* DepthPool::steal: the head of the shallowest scanned queue.
steal(p) ==
    IF Scanned(p) = {}
    THEN [task |-> NoTask, pool |-> p]
    ELSE LET d == CHOOSE d \in 0..p.lowest : IsShallowest(p, d)
         IN  [task |-> Head(p.pools[d]), pool |-> Popped(p, d, p.lowest)]

\* Mutant: a local worker takes from the shallowest queue.
getLocalShallowest(p) ==
    IF Scanned(p) = {}
    THEN [task |-> NoTask, pool |-> [p EXCEPT !.lowest = 0]]
    ELSE LET d == CHOOSE d \in 0..p.lowest : IsShallowest(p, d)
         IN  [task |-> Head(p.pools[d]), pool |-> Popped(p, d, p.lowest)]

\* DepthPool::getLocal: walk the hint down to a queue that has a task.
getLocal(p) ==
    IF Scanned(p) = {}
    THEN [task |-> NoTask, pool |-> [p EXCEPT !.lowest = 0]]
    ELSE LET d == CHOOSE d \in 0..p.lowest : IsDeepest(p, d)
         IN  [task |-> Head(p.pools[d]), pool |-> Popped(p, d, d)]

\* Mutant: a depth equal to max_depth does not resize.
ResizedLate(p, depth) == IF depth > p.max_depth THEN 2 * p.max_depth
                                                ELSE p.max_depth

\* The vector is doubled once, however deep the task is.
Resized(p, depth) == IF depth >= p.max_depth THEN 2 * p.max_depth
                                             ELSE p.max_depth

\* Mutant: the hint is not raised.
addWorkHintKept(p, task, depth) ==
    LET size == Resized(p, depth)
    IN  [pools       |-> [d \in 0..(size - 1) |->
                             LET q == IF d < p.max_depth THEN p.pools[d] ELSE <<>>
                             IN  IF d = depth THEN Append(q, task) ELSE q],
         lowest      |-> p.lowest,
         max_depth   |-> size,
         tasks_count |-> p.tasks_count + 1]

\* DepthPool::addWork.  A depth that the doubled vector still does not cover
\* indexes past its end: the write reaches no queue of the pool.
addWork(p, task, depth) ==
    LET size == Resized(p, depth)
        grown == [d \in 0..(size - 1) |-> IF d < p.max_depth THEN p.pools[d]
                                                             ELSE <<>>]
    IN  [pools       |-> [d \in 0..(size - 1) |->
                             IF d = depth THEN Append(grown[d], task)
                                          ELSE grown[d]],
         lowest      |-> IF depth > p.lowest THEN depth ELSE p.lowest,
         max_depth   |-> size,
         tasks_count |-> p.tasks_count + 1]

\* The tasks of one queue, and of the whole pool.
TasksAt(p, d) == {p.pools[d][i] : i \in 1..Len(p.pools[d])}
Held(p)       == UNION {TasksAt(p, d) : d \in DOMAIN p.pools}

\* A well-formed pool of tasks from T.
IsPool(p, T) == /\ p = [pools |-> p.pools, lowest |-> p.lowest,
                        max_depth |-> p.max_depth,
                        tasks_count |-> p.tasks_count]
                /\ p.max_depth \in Nat \ {0}
                /\ p.pools \in [0..(p.max_depth - 1) -> Seq(T)]
                /\ p.lowest \in 0..(p.max_depth - 1)
                /\ p.tasks_count \in Int

\* No queue above the hint holds a task.
HintCovers(p) == \A d \in DOMAIN p.pools : d > p.lowest => p.pools[d] = <<>>

\* No task is queued at two places.
Unique(p) == \A d, e \in DOMAIN p.pools :
                \A i \in 1..Len(p.pools[d]), j \in 1..Len(p.pools[e]) :
                    p.pools[d][i] = p.pools[e][j] => d = e /\ i = j
=============================================================================
