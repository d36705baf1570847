# YewPar with the PerformancePolicy: a TLA+ model

YewPar runs parallel tree searches on a cluster of HPX localities. An
application supplies a node type, a generator of children and (for
branch-and-bound) a bound function; a skeleton turns them into a search; a
scheduling policy keeps the tasks and moves them between localities. This fork
adds the `PerformancePolicy`: one depth pool per locality, and a monitor on each
locality that measures all of them and names the victim of the next steal.

The modules here are written from the code under `src/lib` and `src/apps`. Each definition that
models code has an entry in `PROJECT.json` (`map`) naming the file and lines.

* [1 Inventory](#1-inventory)
* [2 Modules](#2-modules)
* [3 How the modules correspond to the code](#3-how-the-modules-correspond-to-the-code)
* [4 Runs](#4-runs)
* [5 Bounds and fairness](#5-bounds-and-fairness)
* [6 Proofs](#6-proofs)
* [7 Disagreements between the code and its words](#7-disagreements-between-the-code-and-its-words)
* [8 What is not modelled](#8-what-is-not-modelled)
* [9 Plan](#9-plan)

## 1 Inventory

| component | state | operations | what makes it correct |
|---|---|---|---|
| `DepthPool` (workstealing) | a vector of queues by depth, `lowest`, `max_depth`, `tasks_count`, `workRate` | `addWork`, `getLocal`, `steal`, getters | no task is lost, copied or hidden by the hint; local workers take the deepest and oldest, thieves the shallowest and oldest; the count is exact |
| `Scheduler` | `running`, `numRunningSchedulers`, `mtx`/`exit_cv`, one id per scheduler | `startSchedulers`, `scheduler`, `stopSchedulers` | `stopSchedulers` returns, and no task runs afterwards; ids name distinct slots |
| `SchedulerChannels` | `recordVector`: state, times and work rate of each scheduler | `setState`, `getWorkRateAverage` | one writer per slot; rates stay numbers |
| `PerformancePolicy` | a pool, a monitor, counters | `initPolicy`, `getWork`, `addwork` | a task taken from a pool is run by the taker; both steals of a failed `getWork` are safe |
| `PerformanceMonitor` | `nodeInfoVector`, `top_steal_id_num`, `refreshGetTarget`, `refreshWaitTime` | `refreshInfo` (any thread), `autoRefreshInfo` (one thread) | the victim follows the pools though refreshes overlap without a lock |
| `Registry` | per locality: `acc`, `localBound`, `stopSearch`, space and parameters | `updateEnumerator`, `updateRegistryBound`, `setStopSearchFlag`, `initialise` | updates are not lost; bounds only rise |
| `Incumbent` | the best node of the search | `initialiseComponent`, `updateIncumbent`, `getIncumbent` | only ever improves; holds the optimum when the search returns |
| `Enumerator`s | an accumulator per task and per locality | `accumulate`, `combine` | every node counted once |
| `Common` | none | `processNode`, `updateIncumbent`, `initIncumbent`, `combineEnumerators`, `termination_wait` | bounds are backed by solutions; promises come after the work they stand for |
| skeleton `DepthBounded` | task recursion | `search`, `subtreeTask`, `expandWithSpawns`, `expandNoSpawns` | search returns, with the sequential result |
| skeleton `Budget` | explicit stack, backtrack budget | the same | every node is expanded by one task |
| skeleton `StackStealing` with `SearchManager` | active and inactive threads, request channels, stacks | `getWork`, `registerThread`, `unregisterThread`, `getLocalWork`, `getDistributedWork` | each steal request is answered once |
| skeleton `Ordered` with `PriorityOrdered`, `PriorityWorkqueue`, `DistSetOnceFlag` | a global priority queue, one once-only flag per task | `search`, `set_value` | exactly one of the sequential thread and the schedulers runs a task |
| skeleton `Seq` | none | `search` | the reference result |
| `Workpool` policy, `Workqueue` | a deque and a mutex | `getWork`, `addwork`, `steal` | each task once; no wait cycle |
| `ExponentialBackoff` | a counter | `failure`, `reset`, `getSleepTime` | sleep bounded |
| `DepthPoolPolicy` (unused) | | | replaced by `PerformancePolicy` |
| applications (knapsack, maxclique, TSP, MCS, SIP, n-queens, fib, semigroups, UTS) | a node and a space each | `next`, `boundFn` | the bound is an upper bound on the subtree; children in the promised order |

**Interactions.** A skeleton's `search` initialises the registries, starts the
schedulers of all localities and creates the root task. A scheduler asks the
policy for work; the policy tries its own pool and then the pool of the
monitor's victim, which may be on another locality. The task runs the skeleton,
which adds tasks to the local pool and updates the local registry. Every task
ends by starting a `termination_wait` thread that sets its promise after the
promises of its children. When the root's promise is set, `search` stops the
schedulers of every locality and reads the enumerators or the incumbent. Bounds
and stop flags are broadcast and not awaited; the submission to the incumbent is
awaited.

**What is hard here.** Schedulers share pools and slots, a thief and an owner
take from one pool, a scheduler registers while others exit, the exit
notification races with the wait, broadcasts arrive late and reordered,
`localBound` is read twice with other threads between, several threads refresh
the same atomics without a lock, and the depth vector grows at its boundary. The
list with lines is `hazards` in `PROJECT.json`; each names the properties that
watch it, or says why none does. Nothing here persists anything, so there is
no crash recovery.

## 2 Modules

```
 TaskPool <--refines-- DepthPool --uses--> DepthPoolOps <--uses-- DepthBounded --refines--> Enumeration
                                                                       |
                                                                  SearchTree
                                                                       |
 Scheduler   PerformanceMonitor                                   ProcessNode
                                                        /          |         |        \
                                             BranchAndBound     Budget    Ordered   SearchManager
                                                                                          |
                                                                                    StackStealing

 Budget --refines--> Enumeration <--refines-- StackStealing

 Seq --instantiated by--> MCApplications --instances--> Knapsack MaxClique MCS TSP SIP
                                                        NQueens Semigroups Trees (on Sorting)

 proofs:  DepthPoolProofs  SchedulerProofs    ProcessNodeProofs
               ^                               ^  ^  ^  ^
               |                               |  |  |  BranchAndBoundProofs
               +------- DepthBoundedProofs ----+  |  BudgetProofs
                                                  OrderedProofs    StackStealingProofs
```

| module | lines of the system |
|---|---|
| `DepthPoolOps` | the handlers of `DepthPool` as operators on a pool value, so that a component with one pool and a search with several share them |
| `DepthPool` | one depth pool and clients that add, take and steal |
| `TaskPool` | abstract: a set of tasks; a request takes one of them, and fails only if there is none |
| `Scheduler` | all schedulers of one locality and the thread that stops them |
| `SearchTree` | the tree a `NodeGenerator` lays out, and the order a walk meets its nodes in |
| `DepthBounded` | an enumeration on a cluster: pools, schedulers, tasks, promises, shutdown |
| `Enumeration` | abstract: nodes of a space chosen before the search are counted one set at a time, and the answer is their number; the three skeletons that enumerate in parallel implement it |
| `ProcessNode` | `processNode`, `updateIncumbent`, the registries and the incumbent: what every skeleton does with a node, and the state its schedulers share |
| `BranchAndBound` | extends `ProcessNode` with the two ways `DepthBounded` expands a node: optimisation and decision searches on a cluster |
| `Budget` | extends `ProcessNode` with the explicit stack and the budget: all three kinds of search |
| `SearchManager` | extends `ProcessNode` with the policy of `StackStealing`: ids, active and inactive threads, requests and their answers, on several localities |
| `StackStealing` | extends `SearchManager` with the stack of generators, the answers to thieves, `getWork` and the search around them |
| `Ordered` | extends `ProcessNode` with prioritised tasks, their set-once flags, the global queue and the sequential thread |
| `PerformanceMonitor` | how a locality chooses its victim |
| `Seq` | the sequential skeleton over any application, whose operations are constant operators |
| `Knapsack`, `MaxClique`, `MCS`, `TSP`, `SIP`, `NQueens`, `Semigroups`, `Trees` (fib and UTS) | the nodes, generators and bounds of the applications as operators, each with a reference definition of what is asked |
| `Sorting` | the elements of a set in an order |
| `MC...` | the values the configurations use; `MCApplications` is `Seq` with each application |
| `ProcessNodeProofs` | what every skeleton's proof can use: facts about the tree, and the invariant of `processNode`'s state |
| `DepthPoolProofs`, `SchedulerProofs`, `DepthBoundedProofs`, `BranchAndBoundProofs`, `BudgetProofs`, `OrderedProofs`, `StackStealingProofs` | the theorems about the module each is named for |

`DepthPool`, `Scheduler`, `DepthBounded`, `PerformanceMonitor` and the modules
above `ProcessNode` share interfaces rather than state. `DepthBounded`
abstracts the scheduler loop to what matters for tasks (its ids, slots and
`exit_cv` are in `Scheduler`) and lets any locality be the victim, which covers
every choice `PerformanceMonitor` can make. `BranchAndBound` and `Budget` take the
pools to be a set of tasks and end the search when none is left, which is what
`DepthPool` and `DepthBounded` are shown to provide; `StackStealing` and
`Ordered` end it in the same way.

The parallel skeletons are searched over trees with arbitrary objectives and
bounds under `BoundAssumption` (the bound of a node covers its subtree, and
siblings come in nonincreasing order of bounds if `PruneLevel` is set). The run `applications`
shows that the applications provide it (`BoundSound`), so that the two
halves meet.

## 3 How the modules correspond to the code

**`DepthPoolOps`, `DepthPool`** (`DepthPool.cpp`). A pool is a record of
`queues` (a function on `0..max_depth-1`), `lowest`, `max_depth` and
`tasks_count`. The component's mutex makes each handler one step. `addWork` is
the whole handler: count, resize if `depth >= max_depth` (to
twice the length, once), push, raise the hint. A push past the end of the
vector is undefined behaviour; the model drops the task, the mildest outcome.
`getLocal` scans down from the hint to the first nonempty queue and lowers the
hint to it; `steal` scans up from 0 to the hint and leaves it alone.

**`Scheduler`** (`Scheduler.cpp`). `pc` follows the function `scheduler`: launched, registered (id
:= number of running schedulers), the initial task, `setState(IDLE)`, the test
of `running`, `getWork`, `setState(WORKING)`, the task, the sleep after a
failure, `setState(Dead)`, deregistration with its notification. Sections under
`mtx` are one step. `HolderCreated = FALSE` is a policy that never calls
`PerformanceMonitor::generateChannels`; the run has a holder, the theorems
need none. `PolicySet` says whether `local_policy` has been set; without one `scheduler`
returns before it registers. The theorems hold in both cases.

**`DepthBounded`** (`DepthBounded.hpp`, `PerformancePolicy.cpp`, `Registry.hpp`,
`Common.hpp`). A scheduler is at `local`, `steal` (first remote attempt), `again`
(the attempt after `refreshInfo`), `expand`, `count` (`updateEnumerator`),
`apply` (`termination_wait` started). `expandWithSpawns` takes one child per
step, because a child it has put in the pool can be stolen and finish before the next
one; `expandNoSpawns` is one step, since the recursion touches only the
task's own accumulator. `enum` keeps how often each node was counted, so a
lost or repeated node is seen even if the totals agree.
`created` is an observer of the tasks `createTask` has made; `TaskInOnePlace` asks for
exactly one place for these and none for the rest, so that a task that a steal drops or
copies is seen. `combineEnumerators` adds the counts up (`Total`, the number of triples of a locality, a node and one of
its counts, so that the sum needs no recursion).

**`ProcessNode`** (`Common.hpp`, `Registry.hpp`, `Incumbent.hpp`). A skeleton
sets `child` and goes to `process`; `processNode` brings it to `answered` with
its answer in `ret`. It is split at each access to shared state:
`ProcessHopeless`/`ProcessAlive` read `localBound` for the bound,
`CheckObjective` reads it again for the objective, `RaiseBound` updates it and
broadcasts, `SubmitIncumbent` is the awaited call, `StopOthers` the stop
broadcast. A message is in a set until it is received; a message that is never
received models one that arrives after the end. `Obj` and `Bound` are functions
on the nodes; `BoundAssumption` is what the skeletons need of the application.
`acc` counts how often a task accumulated each node.

**`BranchAndBound`** (`DepthBounded.hpp`). `expandNoSpawns` is an explicit stack
of frames here, because shared state is accessed between its steps; a task that
expands with spawns has one frame. What the code does on `Continue`, `Prune`,
`Break` and `Exit` is an action each, for both ways of expanding.

**`Budget`** (`Budget.hpp`). `stack` is `genStack` up to `stackDepth`, a frame
being a node and the position of its next child (`seen + 1`). One turn of the
loop is: `Stop` (the flag of a decision search), or `Spawn`/`KeepWork` (the
budget), then `NextChild` or `Backtrack`, `processNode`, and the action for its
answer. `Spawn` is one step: its loop changes only the task's own stack and adds
to the pool, so that another scheduler taking a task in between can as well
take it afterwards. `FinishTask` adds the accumulator to the
registry. `spawned` is an observer. `Claims(n)` is the set of those who answer
for a node: the registries and the accumulators, once for each count, the tasks it is at or below, the
frames of each stack that have still to generate it, and the child in a scheduler's
hands; `WorkConserved` says that each node of the space has exactly one, and `CountsEachNodeOnce` maps the search to `Enumeration`.
`Slot` is the last element of `genStack` that has been written to: a child is written to the one past the current depth before
it is processed. With `backtrackBudget = 0` a task spawns only
until its first backtrack, since the code compares with equality.

**`SearchManager`** (`SearchManager.hpp`, `one_element_channel`). Each locality has a queue of free
ids and two maps from ids to shared states: the threads that may be stolen from
and those a steal is in progress on. A shared state is a request flag
and a channel; it is named by the node of the task its thread runs, since no
node becomes a task twice. The mutex is released only while an answer is awaited,
so `getLocalWork` is two steps: `Request` (move the victim to the inactive map, set
its flag, take the future of its channel) and `Reinsert` with what follows. A
thread that ends (`unregisterThread`) leaves the active map, or cancels the
steal that keeps it out of it.

**`StackStealing`** (`StackStealing.hpp`, `getWork` of `SearchManager.hpp`). A frame is a node and the position of its next
child. Between two nodes a thread looks at its flag: `Reply` sends children of the
shallowest frame that has any, all or one (`stealAll`), or an empty answer;
`LowerFlag` is a step of its own, since the thief may already be gone with
the answer. `getWork` takes from the buffer of stolen tasks, asks a thread of the
own locality, or (if no other scheduler of the locality is doing so) asks another
manager, where the steal runs like a local one. As written, `doSearch` starts
one scheduler: the call of `spawnInitialWork` is commented out
(`StackStealing.hpp:377-383`). That is `given = 0`; the other initial states are those
`spawnInitialWork` would make, one task for each further scheduler.

**`Ordered`** (`Ordered.hpp`, `PriorityOrdered.hpp`, `PriorityWorkqueue.cpp`,
`DistSetOnceFlag.hpp`). `search` collects the nodes at `spawnDepth` with their
priorities, sends each to the global queue (`sent` until it arrives, never awaited) and
goes through them itself. `Level(spawnDepth)` of `SearchTree` is that order: a node's place is the number of
nodes of its depth that are not after it. The loop of a scheduler tests `running` (`CheckRunning`) and
then asks for work (`getWork`), so it may get a task after `running` has been cleared. A scheduler and the sequential thread treat a
task alike once they have it: test the stop flag and the bound (`CheckTask`), set the flag
(`StartTask`, one call at a time), expand without spawns. `steal`
hands out the task with the highest number, which is the *last* in the order of the tree and,
in a discrepancy search, the one with the most discrepancies: the schedulers
come from the end the sequential thread reaches last. Nodes down to
`spawnDepth` are never given to `processNode`, which `Searched` and
`BestOfTasks` say; `workRemaining` of the policy is unused. The skeleton does
not compile for an enumeration, so none is modelled.

**`Seq`** (`Seq.hpp`). `expand` calls itself; `stack` has one entry for each
call, the children its generator has not yet laid out. `Candidate` is the next
child; the actions are the ways through the loop's body. The accumulator is a
bag, so that a node counted twice is seen.

**The applications** (`src/apps`). One module each, with the code's names:
the space an input is read into, the root, the children in the order of
`next()`, the objective, the bound. Bit sets are sets, vectors are sequences or functions, doubles exact
numbers (knapsack's density is compared by cross multiplication). `MaxClique` includes the ordering of the
vertices and the colouring, `MCS` the association graph it searches with
`MaxClique`'s generator, `TSP` Prim's spanning tree and the greedy tour, `SIP`
the supplemental graphs, the initial domains, unit propagation, the
all-different filter and the branching order, `NQueens` the masks of 32 bits,
`Semigroups` both generators with the decomposition numbers, `Trees` fib's word
and the branching of UTS with its random draws as inputs. The reference definitions (`Optimum`, `Valid`,
`Solvable`, `Queens`, `OfGenus`, ...) say in set notation what is asked. Parsers, the printing and the
timing are outside.

**`PerformanceMonitor`** (`PerformanceMonitor.cpp`). Each refresher has its own `pc`,
loop index, answer in flight and best score; `nodeInfo` and
`top_steal_id_num` are shared and accessed one slot at a time. Asking a pool and
storing its answer are two steps, so an answer may be stale when it is stored.
Scores are `rate * tasks - delay`, doubled so that `numeric_limits<double>::min()`
(positive, and smaller than any real score) is the integer 1; a NaN rate gives a
score that is never greater.

## 4 Runs

| run | module, cfg | shows |
|---|---|---|
| `depth_pool` | `MCDepthPool` | four tasks of depths 0..3 in a vector of 2 that doubles once: `tasks_count` is exact, no task twice, none lost, each handler takes the right task, and the pool implements `TaskPool` |
| `scheduler` | `MCScheduler` | three schedulers in every order around the stop: exact counter, distinct slots while the search runs, no task after the stop, no lost wakeup; every scheduler ends and `stopSchedulers` returns |
| `depth_bounded` | `MCDepthBounded` | depth-limited enumeration, two schedulers sharing a pool and an enumerator, one thief on another locality: every task created is in exactly one place, promises come after the counts, nothing is left when the schedulers are stopped, the search implements `Enumeration` (each node counted once, the answer is their number), and it returns |
| `branch_and_bound` | `MCBranchAndBound` | optimisations and decisions, with and without `PruneLevel`, on two localities: an optimum or a solution is returned whatever the broadcasts do; bounds are backed by a solution that is not lost; no stop flag goes up before the solution is saved; the search returns |
| `budget` | `MCBudget` | two schedulers split a tree of twelve nodes, and split the parts again: every node of an enumeration belongs to one task or is counted, once, and the search implements `Enumeration`; an optimisation is as good as every node that was not spawned, a decision finds a solution among those; the explicit stack never needs more elements than the space has levels (`StackFits`); the search returns |
| `monitor` | `MCPerformanceMonitor` | two refreshers overlap: if one pool stays rich and the others stay empty or have a rate that became NaN, the victim becomes that pool and stays it |
| `stack_stealing` | `MCStackStealing` | all three kinds of search on two localities, one scheduler as written and two as intended, in chunks and single tasks: however steals cross, each node has one owner, the search implements `Enumeration`, and the answer is right about every node that `processNode` saw |
| `stack_mixed` | `MCStackStealing`, `MCStackMixed.cfg` | three schedulers, two of them on one locality: running threads never share an id and one is always left; a thread that ends finds its state in one of the maps; the search returns although threads end while they are stolen from |
| `ordered` | `MCOrdered` | the sequential thread against a scheduler of another locality, linear and discrepancy order: the two never both expand a task; when `search` returns, with tasks still queued or on their way, nothing better is left below any task; it returns |
| `applications` | `MCApplications` | `Seq` on 5,466 small problems: a bound never hides a better node (`BoundSound`); the returned node is a solution of the input and optimal by its reference definition; decisions and counts are right |
| `budget_optimum` (violation) | `MCBudget`, `MCBudgetOptimum.cfg` | an optimum that becomes a task when the budget is exhausted is not returned |
| `thief_forgotten` (violation) | `MCStackStealing`, `MCThiefForgotten.cfg` | a thief can wait for a thread that has already ended and did not cancel the steal |

Every property of a passing run has a mutant (`mutants`): a plausible bug in one
mapped definition with which TLC finds the property violated. The mutated
forms stand before the definitions they change, marked `Mutant:`.

## 5 Bounds and fairness

* **Depth pool**: `MaxTaskDepth = 3`, `InitDepth = 2`: depths inside the vector, at its
  end and beyond, with the one doubling. Four tasks allow two queues with two
  tasks each, and a hint that is lowered, raised and lowered again. The
  theorems drop both bounds.
* **Schedulers**: three, one of them with an initial task, are enough for one
  that exits while another is at work and a third registers. The theorems hold
  for any finite number.
* **Trees**: five nodes on four levels with a depth limit of three for three
  schedulers. Tasks are spawned at two levels and recursed below, so that a child stolen from its parent can overtake it.
  Depths up to 2 in a vector of 2 make a pool grow.
* **Branch and bound**: seven nodes, spawned at one level and recursed below, two
  localities, and all four combinations of the tags. The best leaf of each subtree comes last and bounds are
  not tight, so that each locality finds a solution that the other one's bound overtakes.
* **Budget**: a budget of one, so that a task gives work away after its first
  backtrack; twelve nodes on five levels, so that a spawned task gives work away,
  too; a depth limit of four with one node beyond it. Two schedulers of one
  locality share its bound and its stop flag (two localities are in
  `branch_and_bound`).
* **Stack stealing**: ten nodes on six levels, one of them beyond the depth
  limit; a root with three children, so that a chunk has two tasks and one of
  them is buffered. The best node is one that a thief can take, the next best one stands at the last depth within the limit; the second child of the root
  improves on what was found before, and the third one has no hope in a decision. Two localities make every steal remote; `stack_mixed` has local and
  remote steals at once, and a second thread that registers with an id another
  one gave back. `thief_forgotten` has three localities of one thread: the only id is
  reused at once.
* **Ordered**: ten nodes, three tasks at depth two, of which two share a
  discrepancy number; the best node of the whole tree is a task's root, which
  no task looks at. The sequential thread and a scheduler on different
  localities have different bounds and stop flags.
* **Applications**: knapsacks of 4 items of 5 kinds with capacities 4, 6 and 7;
  all graphs of 4 and of 5 vertices for cliques, and decisions for cliques of 2 to 4;
  pairs of graphs of 3 vertices with two labellings and a loop; 4 and 5 cities with
  distances from small sets; patterns of 3 and 4 vertices in targets of 4 and
  5; up to 5 queens; genus up to 5; fib up to depth 5; UTS trees of depth 3
  with two kinds of draws for each node. Each generator meets its empty,
  full and tied cases there; sizes at which words or tables overflow are not reached.
* **Monitor**: two localities; one worker and the background thread, at most one
  task in a pool, one delay, and one number for the rates beside NaN: a rate changes once, when it
  becomes NaN, and what else makes a score rise and fall is the number of tasks. A second number does not
  fit in the time of a run, so that scores of two positive rates are never compared.
  `refreshWaitTime` runs through its real values (1 to 240 ms).

No counter is cut off by a bound in a guard except the number of tasks in a
monitored pool (`MaxTasks`); all other models are finite by themselves.

**Fairness** is weak fairness of each thread's steps: HPX runs every ready
thread, tasks are finite, an idle scheduler sleeps at most 500 ms and
`autoRefreshInfo` at most 240 ms. A suspended `termination_wait` that can
continue does. Messages are **not** assumed to arrive: in `branch_and_bound`,
`budget`, `stack_mixed` and `ordered` the search returns even if no bound, stop
flag or `addWork` ever does. The environment of the monitor is not fair, nothing
makes a scheduler call `refreshInfo`, and nothing says when a search ends;
`AllEnd` starts from the stop. `Seq` is sequential: its runs end because its stack does, and the safety
properties speak of its end.

`CHECK_DEADLOCK FALSE` is given where the system stops for good when the search
has returned; `DepthPool` and `PerformanceMonitor` are checked for deadlock.

## 6 Proofs

The modules `...Proofs` are checked by `tlapm` for all values of
the constants under the assumptions named in the modules they extend.

**The pool.** Assumptions: `InitDepth` is a positive natural, the tasks do not
contain `NoTask`, and, as a hypothesis of every theorem, `DepthsCovered`: the
depths used are less than twice the initial length. Without it the theorems are
false (a task at twice the length goes past the end); with it one doubling is enough for ever. The
invariant `Inv` says that

* the pool is well formed and its vector at least as long as it started,
* the hint covers every nonempty queue,
* a task stands at one place of one queue at most, and not there if it was handed out,
* `tasks_count` is the sum of the lengths of the queues,
* every task submitted is held or was handed out.

No part is inductive alone: that `getLocal` answers "nothing" only if
there is nothing needs the hint; that a count stays exact when a
task is popped needs the task to be at one place; lowering the hint is safe only because
`getLocal` has seen the queues above it empty. Lemmas say what each handler does to a pool
(`addWork` puts exactly one task in, `getLocal` and `steal` take exactly one out or
find the pool empty), and the step theorem applies one per action.
`OrderKept` proves the action property `TakesInOrder` from `Inv` and `Arranged`: each
task not handed out stands in the queue of its depth, and in front of it stand only
tasks its observer calls older. So the head of the deepest (shallowest) queue is the task that goes
first among all, and the hint covers that queue.
`ImplementsTaskPool` shows the refinement of `TaskPool`: initial states map to
initial states and each step to a step, with the lemmas about what the handlers
answer.

**The schedulers.** Assumption: the set of schedulers is finite. The invariant
adds to the checked properties that `stopSchedulers` is at `search` exactly
while `running` holds, that while it holds every registered scheduler has an id
less than the counter (which makes the next id new), and that ids are always
within the vector. The cardinality lemmas give the counter's value after a
registration and an exit. `NoTaskAfterStop` follows from: returned means that the
counter was zero, so nobody was registered, and those that register
later find `running` cleared before they ask for work.

The theorems listed in `PROJECT.json` state the properties that the runs check. A few more
say what no run checks by itself: the type invariants of the other proofs, that
the hint of a pool never hides a task (`HintSafe`; in a run, `KeepsPromise` fails when it does), and for
stack stealing `OneThiefEach` and `StackNeverOverrun`.

**An enumeration with `DepthBounded`.** Assumptions: `TreeAssumption` (a finite,
prefix-closed set of paths without gaps between siblings), those of the module,
and `DepthsCovered`, now as `spawnDepth < 2 * InitDepth`. Nothing is assumed of the number of
localities and schedulers. The facts about pools and trees are not proved again:
`Pools` and `Trees` are instances of `DepthPoolProofs` and `ProcessNodeProofs`, whose lemmas hold of
any pool value and any tree.

`PlaceInv` is about places. A task is in one pool, with one scheduler, in one
`termination_wait` or done, and in none of the others (`OnePlace`); a running task
has spawned exactly the children before `next` and holds their futures (`Framed`); a
waiting task waits for all its children and a done one has none left (`Settled`);
and, which is what makes `OnePlace` inductive, a task exists only if its parent has
reached it (`Parents`), so that the child `expandWithSpawns` puts into the
pool next is nowhere yet. The observer `created` holds exactly the tasks that are
somewhere (`Phases`), so no step drops one, and `TaskInOnePlace` follows. `StopMeansQuiet` needs `Parents` and
`Settled`: when the root's promise is set, all tasks below it are done, by induction over
the depth, and there are no others.

`CountInv` is about counts. Each task counts its own part of the tree (`Own(n)`: the children
it spawns, or everything below it), which is in an enumerator from `updateEnumerator` on
(`Done`); and what is counted is the root or such a part. The parts of two tasks
do not overlap (`OwnDisjoint`) and with the root make up the space
(`OwnCovers`); so a part that is about to be counted is not counted yet
(`FreshPart`), and `Total`, the cardinality, grows by its size. `ReadyMeansCounted` and the refinement
(`CountsOnce`) follow: `Init` and every step of `DepthBounded` map to `Init` and a step or a
stutter of `Enumeration`. Only two steps count: the creation of the root and
`UpdateEnumerator`.

**Ordered.** No assumption beyond those of the modules.
`FlagCounts` ties the observer to the code's state: a task has been expanded once
if its flag is set, and never if it is not. It holds for any number of threads and tasks,
whatever the order of the checks before `set_value`, since the flag
is tested and written in one call; a thread that lost leaves both alone. For the
answer (`TasksAnswered`) see below.

**Branch and bound.** Assumptions: `TreeAssumption`, `BoundAssumption` (the bound of a node
covers its subtree; with `PruneLevel`, siblings come in nonincreasing order of
bounds; no node passes the root in a decision) and `BranchAssumption`. Nothing
is assumed of the number of schedulers and localities, of the spawn
depth, or of the broadcasts, which need not arrive.

`ProcessNodeProofs` has the part that holds for every skeleton. `ProcessInv`
says that every local bound and every bound under way is *backed* (the
initial bound, the incumbent or a node about to be submitted is as good), that a
decision submits only solutions, and that whoever stops the others, and
every flag up or under way, knows the solution to be the incumbent. It is kept by each
step of `processNode` and by the messages (`ProcessStep`, `ReceiveStep`); for a
skeleton's own steps it is enough that they move one scheduler between places outside
`processNode` (`SkeletonStep`). `BoundsBacked` and `StopOnlyIfFound` follow.

`BranchAndBoundProofs` adds the argument for the answer. `OptimumFound` speaks
of the end and is far from inductive; the invariant (`Covered`) follows each node that
matters (better than the initial bound, or a solution): it is *settled* (the incumbent
is as good, or a scheduler will submit a node that is) or *pending* (below a
task, below a child that a frame has not generated yet, or at or below the node
in a scheduler's hands). Generating a child, spawning it and descending
hand a pending node on, by `BelowThroughChild`: what is below a node is at or below one of
its children. What is dropped is settled:

* a pruned subtree, because its bound is no better than a local bound, and that is backed
  (`HopelessSettles`), though the local bound may have changed since it was read;
* the later siblings after `Break` (`BreakSettled`): their bounds are no better
  than that of the pruned child, which must be the child just generated (`ChildAtFrame`);
* what is left after `Exit`, or when the stop flag is seen: the solution is
  the incumbent (`SolvedSettles`), which every other solution only ties.

The root is not given to `processNode`; it is the first incumbent (`RootSettled`). At the
end nothing is pending and nobody is about to submit (`Quiet`), so the incumbent itself settles every node.

**Budget.** Assumptions: `TreeAssumption`, `BoundAssumption` and
`BudgetAssumption`. `TypeCorrect` is needed in earnest here, because the stacks are sequences
that are popped, pushed and rewritten in the middle: `Shape` adds that a scheduler
that is not between two tasks has a frame, and how far its backtracks can have
counted. `Conserved` says that every node has one claim. One is not inductive without knowing that
each stack has its nodes at different levels, the child in hand is the one last generated, and
the depth limit cuts off exactly what lies outside the space (`CountInv`). Each step then hands the claims over:
`NextChild` moves a subtree from a frame into a hand, `Continue` splits it into the node (counted) and the new
frame, `Spawn` turns what is left of the shallowest frame that has something left into tasks,
`FinishTask` moves counts to the registry. `CountsOnce`, the refinement of `Enumeration`,
needs no more than that about where the nodes are: what a task brings to the
registry is new there, because a count in both would be two claims (`CountedOnce`), and
when no task is left and no scheduler runs one, the only claim a node can have is the count
(`ReturnComplete`). Any other search counts nothing (`Uncounting`). `StackNeverOverrun` holds for every kind of search: the node of
the frame at position i is at least i - 1 levels down (`FrameSlots`), since
`Continue` only pushes a child in hand, and such a child is within the limit
(`DepthKept`). A task starts at the first element however deep its root is, so the bound is the depth of the space. For the other two kinds `SpawnedExcepted` follows the argument of
branch and bound with the spawned nodes excepted, since a task's root is never given to
`processNode` (item 1 of section 7).

**Ordered, the answer.** `AnswerInv` follows the searched nodes that matter. One
is settled, on a stack or in a hand, or its task is still to come, that is, the
sequential thread has not passed it and its flag is down. The point where it could go
wrong is the sequential thread passing a task whose flag is up: then another
thread has it on its stack. A thread that drops a task at the test of its bound
settles it, and one that drops it at the stop flag leaves a solved decision.
`search` returns only when the sequential thread has passed all tasks and the schedulers are
idle, so nothing is pending, though the queue need not be empty. That
`Level` lists each node of its depth once is a lemma of `ProcessNodeProofs` (`LevelExact`).

**The manager of stack stealing.** Assumptions: `StackAssumption`, in which a
locality has at most `threadCount` schedulers, and a finite set of schedulers. `TableInv`
describes all the places an id can be: free, in the active map, in the inactive
one, remembered by a running thread, and remembered by a thief as the position to
reinsert. `DistinctIds` needs that the free ids of a locality are different and
that there are `threadCount` of them less one for each registered thread; so one is left
for a scheduler that asks, as it is not registered itself. `StatesFound` needs
that a thief takes an id out of the active map only into the inactive one, and reinserts it under the
position it took it from: an entry can be another thread's by then (item 2 of section 7), but
it is there.

**Stack stealing.** Assumptions: `TreeAssumption`, `BoundAssumption` and
`StackAssumption`, which asks for `maxDepth > 1`, and for `maxDepth > 3` if tasks
are given away at the start: the depth of a task's root is never compared with
`maxDepth` (`StackStealing.hpp:226`), so a smaller limit would let nodes beyond it be
counted. Later tasks cannot be too deep: a thief is given nothing from the last frame
(`StackStealing.hpp:153`), and a frame that is not the last has one below it within the limit.
For the code as written (`given = 0`) nothing is asked of the objectives and bounds beyond `BoundAssumption`.
If tasks are given away at the start, the nodes `spawnInitialWork` passes on the way to
them (`PassedBy`) must be hopeful and bring no solution: its stack depth is already that of the node
when `Prune` or `Exit` comes back (`StackStealing.hpp:335-336`), so it would go on with a frame that is not the
node's. Nothing is assumed of the broadcasts.

Item 2 of section 7 makes this hard: a state can stand in a map under an id
that is another thread's, and a thief may ask a thread that has ended, so
no invariant can go by ids. `Steals` goes by states: one can be stolen from at one
place or has one thief waiting for it (`ActiveOnce`, `WaitsOnce`, `WaitsOrActive`);
the state of a running thread is known under its own id only (`Paired`), its
channel is empty (`Silent`), and if its flag is up a thief waits for the answer (`Flagged`).
That a task that starts has a state nobody knows follows
from `Fresh`: a node that names a known state, or that a scheduler has run as a task,
has no claim but a count. `Fresh` in turn needs that a node has one claim
(`Unique`). The three are proved together, as `StealInv`, with a lemma for
each step that says which claim it takes away and which it puts in its
place: `Reply` turns what a frame has left into tasks of an answer, `Use` starts
with the head of a chunk and buffers the others, `NextChild`, `Continue` and `UpdateEnumerator` are
as in `Budget`. The initial states are a case of their own: the tasks given
away and the two frames of the main thread divide the nodes from depth two on
between them (`StartFound`), by the order of `Level(2)`.

`Unique` is half of `StealsConserve`. The other half, that no claim is lost
(`CountInv`), adds that the frames of a stack are one level apart and all within
the limit (`LevelsKept`). `StolenExcepted` follows the argument of branch and bound
once more, with the stolen nodes excepted; what is pending may now also be
below a task in an answer or a buffer, and `Quiet` says that no task is left
once the root's promise is set.

Three more theorems come out of these invariants. `CountsOnce` is the refinement of
`Enumeration`, by the argument given for `Budget`: `UpdateEnumerator` is the step that
accumulates, and `Quiet` is what keeps it from coming after the return and leaves a node nowhere but
in the count. `StackNeverOverrun` is proved as for `Budget`, with the
two frames that `spawnInitialWork` leaves as a start of its own. `OneThiefEach` states the part of `Steals`
that a thread relies on when it looks at its flag: if it is up, exactly one thief waits for an answer
that it has not been sent, and the channel is empty. The converse, that every thief that
waits has a thread to answer it, is what item 2 of section 7 refutes.

**Induction over data.** The induction theorems of the library cannot be
instantiated here. Where a proof needs one (a sequence, a path, a depth) it takes the least
element of a set of naturals (`LeastExists`), or an invariant over the steps that build the data. What
is defined by cardinalities instead of recursion (`numChildren`, `Place`, `Total`,
`Claims`) is within reach of the library's theorems about finite sets.

**Refinements.** `DepthPool` implements `TaskPool`; `DepthBounded`, `Budget` and
`StackStealing` implement `Enumeration`. The mappings are written in the modules
(`KeepsPromise`, `CountsEachNodeOnce`) and are checked by the runs and proved.

**Only model-checked**

* all liveness (`SearchReturns`, `AllEnd`): it and `ENABLED` are out of the prover's reach;
* `RichVictimFound` of `PerformanceMonitor`, which is about what holds from some point on;
* `BoundSound` of `Seq` and the three properties of the applications, whose reference
  definitions are recursive operators and whose operations are operator constants.

## 7 Disagreements between the code and its words

Shown by a run:

1. A node that an exhausted budget makes a task is never given to `processNode`
   (`budget_optimum`): `Budget::expand` spawns it unprocessed (`Budget.hpp:100`),
   and the task that takes it hands only its children to `processNode`. An
   enumeration counts it (`Budget.hpp:80`); an optimisation or decision search
   does not look at its objective, and can miss the optimum. Stolen children in
   `StackStealing` and the nodes down to `spawnDepth` in `Ordered` are passed over in the same way,
   hence "every node that was not stolen" and `Searched` in those properties.
2. A thief waits for ever (`thief_forgotten`), with more schedulers than
   `doSearch` starts as written. Thief A is answered by thread X, and X ends
   before A continues; a new thread Y gets X's id. A now puts *X's* state into
   the active map under the id it remembers (`SearchManager.hpp:218`) and
   overwrites Y's entry or, if thief B waits for Y, makes it look as if nobody stole from
   Y. When Y ends, `unregisterThread` finds its id in the active map and does not
   cancel B's steal, against the comment at `SearchManager.hpp:286`.

Without a violated property of their own, found while modelling:

3. `stopSchedulers` does not wait for schedulers that have been launched and
   have not registered (`Scheduler.cpp:80`), against "Block until all
   schedulers have finished". They end without taking work
   (`NoTaskAfterStop`, `AllEnd`), so only the state they touch matters.
4. `scheduler` writes through `schedulerChannelHolder` (`Scheduler.cpp:46`),
   which only the `PerformanceMonitor` creates: the other policies cannot run.
5. `expandWithSpawns` spawns children that were pruned
   (`DepthBounded.hpp:104-105`). The result stays right.
6. `best_score` starts at `numeric_limits<double>::min()`, which is positive, so
   the branch for "no target" is dead (`PerformanceMonitor.cpp:147`, `:170`): the
   victim stays, and the refresh interval grows when it was meant to shrink.
7. `DepthPool.cpp:42` doubles the vector once; a task at twice its length or
   deeper goes past the end. The skeletons raise the depth by one per level,
   which one doubling covers in one pool, but a stolen task adds its children at
   their depth to the thief's pool, whose vector may still have its first
   length. `DepthsCovered` is the assumption of the proofs that excludes it.
8. `DepthLimited` with `maxDepth = 0` does not limit: the test is for
   equality and the first depth is 1 (`Seq.hpp:62-66`).
9. Knapsack's root holds all items, also those that do not fit; the inputs of the run
   fit one by one.
10. TSP: a tour as long as the greedy one is not stored, and the root is
    returned; the greedy bound reads a distance of a city the file does not name
    (`tsp/main.cpp:242-245`), which the model leaves open.
11. MCS returns nothing when no two pairs are compatible, although a common
    subgraph of one vertex exists.
12. SIP leaves isolated pattern vertices unmapped, and prints an empty mapping
    as "no solution" (`sip/main.cpp:739`).
13. The comment at `Budget.hpp:129-130` says of the depth check that it "only works correctly for
    countNodes" and "wouldn't work for a depthBounded optimisation problem". It does: `processNode`
    is called on the child (`:114`) before the depth is tested (`:132`), so a node at the last depth is
    compared with the incumbent and only not expanded. The run `budget` has depth-limited optimisations and
    decisions, with the best node that a task keeps at the last depth, and `BestOfProcessed` holds; `SpawnedExcepted` proves it for
    every limit. What such a search can miss are the nodes of item 1, with a limit or without.
    `StackStealing.hpp:225` doubts the same check; the run `stack_stealing` has a depth-limited
    optimisation with a node at the last depth that is the best when the only better one was stolen.
14. `monoid.hpp:179` reads one block past the array in its last iteration; the
    result is not used.

## 8 What is not modelled

* `Workpool`/`Workqueue`: the policy behind `--poolType deque` of maxclique and
  sip, whose schedulers have no channel holder (item 4 of section 7).
* `DepthPoolPolicy`, which nothing instantiates; `ExponentialBackoff`, which only
  sets how long an idle scheduler sleeps; `Dnc Fib`, a test of the scheduler
  without a skeleton.
* The arithmetic of the weighted averages in `SchedulerChannels` and
  `averageDelayTime` (any value of a small set instead), performance counters.
* Parsers, output, command lines, and the choice of a skeleton in `hpx_main`.
* SHA-1 and the trees of UTS whose shape needs it or floating point
  (`CYCLIC`, `EXPDEC`); the draws are inputs instead.
* Lifetimes of HPX components and of the detached background thread; a second
  search in one process.

`PROJECT.json` (`components`) lists each with its reason.

## 9 Plan

In order:

1. A second search in one process: `running` and `stopSearch` are not reset,
   broadcasts of the first arrive in the second.
2. `Workpool`: the mutex held over a remote steal, and wait cycles between
   localities.

The suite stays at about a dozen runs: a new component's run takes the place of
one whose question a stronger one has answered.
