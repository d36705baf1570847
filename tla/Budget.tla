------------------------------- MODULE Budget -------------------------------
(***************************************************************************)
(* A search with the Budget skeleton: a task walks its subtree with an     *)
(* explicit stack of generators and, each time it has backtracked          *)
(* backtrackBudget times, gives all children that its callers' frames have *)
(* not generated yet to the pool as tasks.                                 *)
(*                                                                         *)
(* As in BranchAndBound the pools are a set of tasks and the search        *)
(* returns when none is left.  The enumerators of all localities are one   *)
(* function, counted: DepthBounded has one for each.                       *)
(***************************************************************************)
EXTENDS ProcessNode, Functions

CONSTANTS backtrackBudget,  \* params.backtrackBudget
          maxDepth          \* params.maxDepth

\* The depth of a task's root is never compared with maxDepth
\* (Budget.hpp:132), so a limit of one level would not limit anything.
ASSUME BudgetAssumption == backtrackBudget \in Nat /\ maxDepth \in Nat \ {0, 1}

VARIABLES tasks,       \* nodes whose task is in some pool
          stack,       \* genStack up to stackDepth: <<node, seen + 1>>
          backtracks,  \* since the last spawn
          counted,     \* times the registries have counted each node
          spawned,     \* observer: nodes made a task by an exhausted budget
          main         \* where search is

task_vars == <<stack, backtracks>>
search_vars == <<counted, spawned, main>>
vars == <<process_vars, tasks, task_vars, search_vars>>

Init == /\ ProcessInit
        /\ tasks = {}
        /\ stack = [w \in Worker |-> <<>>]
        /\ backtracks = [w \in Worker |-> 0]
        /\ counted = Zero
        /\ spawned = {}
        /\ main = "create"

Frame(w) == stack[w][Len(stack[w])]
Current(w) == Frame(w)[1]

\* The children a frame has not generated, and the frame without them.
Rest(f) == {Child(f[1], i) : i \in f[2]..numChildren(f[1])}
Drained(f) == <<f[1], numChildren(f[1]) + 1>>

\* A decision search leaves expand at once if the flag is up.
Stopped(w) == Kind = "Decision" /\ stopSearch[home[w]]
-----------------------------------------------------------------------------
\* subtreeTask: a new accumulator, which counts the task's own node.
Take(w, n) ==
    /\ pc[w] = "free"
    /\ n \in tasks
    /\ tasks' = tasks \ {n}
    /\ stack' = [stack EXCEPT ![w] = <<<<n, 1>>>>]
    /\ backtracks' = [backtracks EXCEPT ![w] = 0]
    /\ acc' = [acc EXCEPT ![w] =
                  [Zero EXCEPT ![n] = IF Kind = "Enumeration" THEN 1 ELSE 0]]
    /\ Goto(w, "loop")
    /\ UNCHANGED <<tags, child, ret, shared_vars, search_vars>>

\* Mutant: the test of the flag starts the next turn of the loop.
StopAgain(w) ==
    /\ pc[w] = "loop"
    /\ Stopped(w)
    /\ Goto(w, "loop")
    /\ UNCHANGED <<tags, child, ret, acc, shared_vars, tasks, task_vars,
                   search_vars>>

Stop(w) ==
    /\ pc[w] = "loop"
    /\ Stopped(w)
    /\ Goto(w, "done")
    /\ UNCHANGED <<tags, child, ret, acc, shared_vars, tasks, task_vars,
                   search_vars>>

KeepWork(w) ==
    /\ pc[w] = "loop"
    /\ ~ Stopped(w)
    /\ backtracks[w] # backtrackBudget
    /\ Goto(w, "move")
    /\ UNCHANGED <<tags, child, ret, acc, shared_vars, tasks, task_vars,
                   search_vars>>

\* Mutant: the current frame gives its children away, too.
SpawnCurrent(w) ==
    /\ pc[w] = "loop"
    /\ ~ Stopped(w)
    /\ backtracks[w] = backtrackBudget
    /\ LET rest == UNION {Rest(f) : f \in Range(stack[w])}
       IN  tasks' = tasks \cup rest /\ spawned' = spawned \cup rest
    /\ stack' = [stack EXCEPT ![w] = [i \in DOMAIN @ |-> Drained(@[i])]]
    /\ backtracks' = [backtracks EXCEPT ![w] = 0]
    /\ Goto(w, "move")
    /\ UNCHANGED <<tags, child, ret, acc, shared_vars, counted, main>>

\* The budget is exhausted: every frame but the current one gives its children
\* away.  One step, as the loop only adds to the pool and to the task's stack.
Spawn(w) ==
    /\ pc[w] = "loop"
    /\ ~ Stopped(w)
    /\ backtracks[w] = backtrackBudget
    /\ LET rest == UNION {Rest(stack[w][i]) : i \in 1..Len(stack[w]) - 1}
       IN  tasks' = tasks \cup rest /\ spawned' = spawned \cup rest
    /\ stack' = [stack EXCEPT ![w] = [i \in DOMAIN @ |->
                     IF i < Len(@) THEN Drained(@[i]) ELSE @[i]]]
    /\ backtracks' = [backtracks EXCEPT ![w] = 0]
    /\ Goto(w, "move")
    /\ UNCHANGED <<tags, child, ret, acc, shared_vars, counted, main>>
-----------------------------------------------------------------------------
NextChild(w) ==
    /\ pc[w] = "move"
    /\ Frame(w)[2] <= numChildren(Current(w))
    /\ child' = [child EXCEPT ![w] = Child(Current(w), Frame(w)[2])]
    /\ stack' = [stack EXCEPT ![w][Len(stack[w])][2] = @ + 1]
    /\ Goto(w, "process")
    /\ UNCHANGED <<tags, ret, acc, shared_vars, tasks, backtracks, search_vars>>

\* stackDepth is decremented and the backtrack counted.
Pop(w) ==
    /\ stack' = [stack EXCEPT ![w] = SubSeq(@, 1, Len(@) - 1)]
    /\ backtracks' = [backtracks EXCEPT ![w] = @ + 1]
    /\ Goto(w, IF Len(stack[w]) = 1 THEN "done" ELSE "loop")

\* The current frame has no child left.
Backtrack(w) ==
    /\ pc[w] = "move"
    /\ Frame(w)[2] > numChildren(Current(w))
    /\ Pop(w)
    /\ UNCHANGED <<tags, child, ret, acc, shared_vars, tasks, search_vars>>

ProcessChild(w) == Process(w) /\ UNCHANGED <<tasks, task_vars, search_vars>>

\* Mutant: the depth is compared with the limit before it is incremented.
ContinueLate(w) ==
    /\ pc[w] = "answered" /\ ret[w] = "Continue"
    /\ IF DepthLimited /\ Len(child[w]) = maxDepth
       THEN /\ backtracks' = [backtracks EXCEPT ![w] = @ + 1]
            /\ UNCHANGED stack
       ELSE /\ stack' = [stack EXCEPT ![w] = Append(@, <<child[w], 1>>)]
            /\ UNCHANGED backtracks
    /\ Goto(w, "loop")
    /\ UNCHANGED <<tags, child, ret, acc, shared_vars, tasks, search_vars>>

\* Go down to the child, or up again at once at the depth limit: the child has
\* been processed by then, whatever kind of search it is (Budget.hpp:129 doubts
\* that this works for an optimisation).
Continue(w) ==
    /\ pc[w] = "answered" /\ ret[w] = "Continue"
    /\ IF DepthLimited /\ Len(child[w]) + 1 = maxDepth
       THEN /\ backtracks' = [backtracks EXCEPT ![w] = @ + 1]
            /\ UNCHANGED stack
       ELSE /\ stack' = [stack EXCEPT ![w] = Append(@, <<child[w], 1>>)]
            /\ UNCHANGED backtracks
    /\ Goto(w, "loop")
    /\ UNCHANGED <<tags, child, ret, acc, shared_vars, tasks, search_vars>>

Prune(w) ==
    /\ pc[w] = "answered" /\ ret[w] = "Prune"
    /\ Goto(w, "loop")
    /\ UNCHANGED <<tags, child, ret, acc, shared_vars, tasks, task_vars,
                   search_vars>>

\* Mutant: the task ends.
BreakOut(w) ==
    /\ pc[w] = "answered" /\ ret[w] = "Break"
    /\ Goto(w, "done")
    /\ UNCHANGED <<tags, child, ret, acc, shared_vars, tasks, task_vars,
                   search_vars>>

\* The rest of the level is skipped.
Break(w) ==
    /\ pc[w] = "answered" /\ ret[w] = "Break"
    /\ Pop(w)
    /\ UNCHANGED <<tags, child, ret, acc, shared_vars, tasks, search_vars>>

\* expand returns, whatever is left on the stack.
Exit(w) ==
    /\ pc[w] = "answered" /\ ret[w] = "Exit"
    /\ Goto(w, "done")
    /\ UNCHANGED <<tags, child, ret, acc, shared_vars, tasks, task_vars,
                   search_vars>>

\* The end of subtreeTask: the registry takes over the accumulator.
FinishTask(w) ==
    /\ pc[w] = "done"
    /\ counted' = [n \in Node |-> counted[n] + acc[w][n]]
    /\ acc' = [acc EXCEPT ![w] = Zero]
    /\ stack' = [stack EXCEPT ![w] = <<>>]
    /\ Goto(w, "free")
    /\ UNCHANGED <<tags, child, ret, shared_vars, tasks, backtracks, spawned,
                   main>>
-----------------------------------------------------------------------------
CreateRoot ==
    /\ main = "create"
    /\ tasks' = {Root}
    /\ main' = "await"
    /\ UNCHANGED <<process_vars, task_vars, counted, spawned>>

\* Mutant: the root's promise does not wait for tasks that are running.
ReturnEarly ==
    /\ main = "await"
    /\ tasks = {}
    /\ main' = "returned"
    /\ UNCHANGED <<process_vars, tasks, task_vars, counted, spawned>>

\* The root's promise is set: return what is counted, or the incumbent.
Return ==
    /\ main = "await"
    /\ tasks = {} /\ \A w \in Worker : pc[w] = "free"
    /\ main' = "returned"
    /\ UNCHANGED <<process_vars, tasks, task_vars, counted, spawned>>

Step(w) == \/ \E n \in tasks : Take(w, n)
           \/ Stop(w) \/ KeepWork(w) \/ Spawn(w)
           \/ NextChild(w) \/ Backtrack(w) \/ ProcessChild(w)
           \/ Continue(w) \/ Prune(w) \/ Break(w) \/ Exit(w)
           \/ FinishTask(w)

Deliver == Receive /\ UNCHANGED <<tasks, task_vars, search_vars>>

Next == CreateRoot \/ Return \/ Deliver \/ \E w \in Worker : Step(w)

\* Every ready hpx thread runs eventually; messages are not assumed to arrive.
Fairness == /\ \A w \in Worker : WF_vars(Step(w))
            /\ WF_vars(CreateRoot \/ Return)

Spec == Init /\ [][Next]_vars
FairSpec == Spec /\ Fairness
-----------------------------------------------------------------------------
TypeOK ==
    /\ ProcessTypeOK
    /\ pc \in [Worker -> ProcessPlaces \cup {"loop", "move", "done"}]
    /\ tasks \subseteq Node
    /\ stack \in [Worker -> Seq(Node \X (Nat \ {0}))]
    /\ backtracks \in [Worker -> Nat]
    /\ backtrackBudget > 0 => \A w \in Worker : backtracks[w] <= backtrackBudget
    /\ counted \in [Node -> Nat]
    /\ spawned \subseteq Node
    /\ main \in {"create", "await", "returned"}

\* The nodes within the depth limit.
Space == {n \in Node : DepthLimited => Len(n) < maxDepth}

\* What worker w has in hand between two steps of the loop, and frames of its
\* stack that have not generated the child that n is at or below.
Entering(w) == CASE pc[w] = "process"  -> Subtree(child[w])
                 [] pc[w] = "answered" -> Below(child[w])
                 [] OTHER              -> {}
FramesWith(w, n) == {i \in DOMAIN stack[w] :
                        \E c \in Rest(stack[w][i]) : n \in Subtree(c)}

\* All that stands for node n: what a worker is going to count it from, or has
\* counted it in, and the queued tasks and the registries' counts.
Held(w, n) == {<<"frame", w, i>> : i \in FramesWith(w, n)}
              \cup (IF n \in Entering(w) THEN {<<"child", w, 0>>} ELSE {})
              \cup {<<"acc", w, i>> : i \in 1..acc[w][n]}
Shared(n) == {<<"task", t, 0>> : t \in {t \in tasks : n \in Subtree(t)}}
             \cup {<<"counted", 0, i>> : i \in 1..counted[n]}
Claims(n) == Shared(n) \cup UNION {Held(w, n) : w \in Worker}

\* However a task is split, and split again by the tasks it spawned, each node
\* of an enumeration's space belongs to exactly one task or has been counted
\* once; a node beyond the depth limit is never counted, although a task's
\* root is not compared with the limit.
WorkConserved ==
    Kind = "Enumeration" /\ main # "create" =>
        /\ \A n \in Space : Cardinality(Claims(n)) = 1
        /\ \A n \in Node \ Space : /\ counted[n] = 0
                                   /\ \A w \in Worker : acc[w][n] = 0

\* Each node of an enumeration's space is counted exactly once, and search
\* returns the number of nodes.
Counted == {n \in Node : counted[n] > 0}
Returned == main = "returned" /\ Kind = "Enumeration"
Promise == INSTANCE Enumeration WITH
               space <- Space, counted <- Counted,
               total <- combineEnumerators(counted),
               answer <- IF Returned THEN combineEnumerators(counted) ELSE -1
CountsEachNodeOnce == Promise!Spec

\* The last element of genStack that the task of w has written to.
Slot(w) == IF pc[w] \in ProcessPlaces \ {"free"} THEN Len(stack[w])
           ELSE Len(stack[w]) - 1

\* genStack, which is indexed one past the current depth without a check, is
\* never indexed past the depth of the deepest node of the space: it fits if
\* MaxStackDepth is larger than that.
StackFits == \A w \in Worker : stack[w] # <<>> =>
                 \E n \in Space : Slot(w) <= Len(n)

\* An optimisation is at least as good as every node of its space that was not
\* spawned, and a decision search finds a solution among them if there is one.
BestOfProcessed ==
    main = "returned" =>
        /\ Kind = "Optimisation" => BestOf(Space \ spawned)
        /\ Kind = "Decision"
           /\ (\E n \in Space \ spawned : Obj[n] = expectedObjective) =>
                Obj[incumbent] = expectedObjective

\* An optimisation returns an optimum.
OptimumFound == main = "returned" /\ Kind = "Optimisation" => BestOf(Node)

\* The search ends, whether or not any broadcast arrives.
SearchReturns == <>(main = "returned")
=============================================================================
