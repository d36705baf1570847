--------------------------- MODULE BranchAndBound ---------------------------
(***************************************************************************)
(* Optimisation and decision searches with the DepthBounded skeleton: its  *)
(* two ways of expanding a node, with what each does on the answers of     *)
(* processNode.                                                            *)
(*                                                                         *)
(* The work pools are a set of tasks and the search returns when no task   *)
(* is left: module DepthBounded is where the pools and promises are shown  *)
(* to work like that, and where the DepthLimited tag is modelled.          *)
(***************************************************************************)
EXTENDS ProcessNode

CONSTANT spawnDepth    \* params.spawnDepth

ASSUME BranchAssumption ==
    /\ spawnDepth \in Nat
    /\ \A t \in Tags : t.kind # "Enumeration" /\ ~ t.depthLimited

VARIABLES tasks,       \* nodes whose task is in some pool
          stack,       \* frames <<node, next child>>, the current one last
          main         \* where search is

vars == <<process_vars, tasks, stack, main>>

Init == /\ ProcessInit
        /\ tasks = {}
        /\ stack = [w \in Worker |-> <<>>]
        /\ main = "create"

Frame(w) == stack[w][Len(stack[w])]
Current(w) == Frame(w)[1]
Caller(w) == SubSeq(stack[w], 1, Len(stack[w]) - 1)

\* subtreeTask expands with spawns down to spawnDepth, recursively below.
Spawns(n) == Len(n) + 1 <= spawnDepth

\* A decision search returns from expandNoSpawns at once if the flag is up.
Stopped(w) == Kind = "Decision" /\ stopSearch[home[w]]
-----------------------------------------------------------------------------
Take(w, n) ==
    /\ pc[w] = "free"
    /\ n \in tasks
    /\ tasks' = tasks \ {n}
    /\ IF ~ Spawns(n) /\ Stopped(w)
       THEN UNCHANGED <<pc, stack>>
       ELSE stack' = [stack EXCEPT ![w] = <<<<n, 1>>>>] /\ Goto(w, "expand")
    /\ UNCHANGED <<tags, child, ret, acc, shared_vars, main>>

\* Return from the current frame.
LeaveFrame(w) ==
    /\ stack' = [stack EXCEPT ![w] = Caller(w)]
    /\ Goto(w, IF Len(stack[w]) = 1 THEN "free" ELSE "expand")

\* No child is left in the current frame.
Leave(w) ==
    /\ pc[w] = "expand"
    /\ Frame(w)[2] > numChildren(Current(w))
    /\ LeaveFrame(w)
    /\ UNCHANGED <<tags, child, ret, acc, shared_vars, tasks, main>>

\* Mutant: the position is not advanced.
NextChildAgain(w) ==
    /\ pc[w] = "expand"
    /\ Frame(w)[2] <= numChildren(Current(w))
    /\ child' = [child EXCEPT ![w] = Child(Current(w), Frame(w)[2])]
    /\ Goto(w, "process")
    /\ UNCHANGED <<tags, ret, acc, shared_vars, tasks, stack, main>>

\* The next child of the current frame goes to processNode.
NextChild(w) ==
    /\ pc[w] = "expand"
    /\ Frame(w)[2] <= numChildren(Current(w))
    /\ child' = [child EXCEPT ![w] = Child(Current(w), Frame(w)[2])]
    /\ stack' = [stack EXCEPT ![w][Len(stack[w])][2] = @ + 1]
    /\ Goto(w, "process")
    /\ UNCHANGED <<tags, ret, acc, shared_vars, tasks, main>>

ProcessChild(w) == Process(w) /\ UNCHANGED <<tasks, stack, main>>

\* The child joins the search: a task of its own, or the next frame.
Descend(w, c) ==
    IF Spawns(Current(w))
    THEN tasks' = tasks \cup {c} /\ UNCHANGED stack
    ELSE /\ stack' = IF Stopped(w) THEN stack
                     ELSE [stack EXCEPT ![w] = Append(@, <<c, 1>>)]
         /\ UNCHANGED tasks

Continue(w) ==
    /\ pc[w] = "answered" /\ ret[w] = "Continue"
    /\ Descend(w, child[w])
    /\ Goto(w, "expand")
    /\ UNCHANGED <<tags, child, ret, acc, shared_vars, main>>

\* expandNoSpawns skips the child; expandWithSpawns tests only for Exit and
\* Break.
Prune(w) ==
    /\ pc[w] = "answered" /\ ret[w] = "Prune"
    /\ IF Spawns(Current(w)) THEN Descend(w, child[w])
                             ELSE UNCHANGED <<tasks, stack>>
    /\ Goto(w, "expand")
    /\ UNCHANGED <<tags, child, ret, acc, shared_vars, main>>

\* The rest of the level is skipped.
Break(w) ==
    /\ pc[w] = "answered" /\ ret[w] = "Break"
    /\ LeaveFrame(w)
    /\ UNCHANGED <<tags, child, ret, acc, shared_vars, tasks, main>>

\* Only the innermost call returns: its callers go on with their next child.
Exit(w) ==
    /\ pc[w] = "answered" /\ ret[w] = "Exit"
    /\ LeaveFrame(w)
    /\ UNCHANGED <<tags, child, ret, acc, shared_vars, tasks, main>>
-----------------------------------------------------------------------------
CreateRoot ==
    /\ main = "create"
    /\ tasks' = {Root}
    /\ main' = "await"
    /\ UNCHANGED <<process_vars, stack>>

\* The root's promise is set: read the incumbent and return it.
Return ==
    /\ main = "await"
    /\ tasks = {} /\ \A w \in Worker : pc[w] = "free"
    /\ main' = "returned"
    /\ UNCHANGED <<process_vars, tasks, stack>>

Step(w) == \/ \E n \in tasks : Take(w, n)
           \/ Leave(w) \/ NextChild(w) \/ ProcessChild(w)
           \/ Continue(w) \/ Prune(w) \/ Break(w) \/ Exit(w)

Deliver == Receive /\ UNCHANGED <<tasks, stack, main>>

Next == CreateRoot \/ Return \/ Deliver \/ \E w \in Worker : Step(w)

\* Every ready hpx thread runs eventually; messages are not assumed to arrive.
Fairness == /\ \A w \in Worker : WF_vars(Step(w))
            /\ WF_vars(CreateRoot \/ Return)

Spec == Init /\ [][Next]_vars
FairSpec == Spec /\ Fairness
-----------------------------------------------------------------------------
TypeOK ==
    /\ ProcessTypeOK
    /\ pc \in [Worker -> ProcessPlaces \cup {"expand"}]
    /\ tasks \subseteq Node
    /\ stack \in [Worker -> Seq(Node \X (Nat \ {0}))]
    /\ main \in {"create", "await", "returned"}

\* An optimisation returns an optimum, whatever the order and the delay of the
\* broadcasts, and though localBound changes between its two reads.
OptimumFound ==
    main = "returned" /\ Kind = "Optimisation" => BestOf(Node)

\* A decision search that ends has found a solution if there is one, even
\* though the stop flag makes other tasks return without expanding.
DecisionFound ==
    main = "returned" /\ Kind = "Decision"
        /\ (\E n \in Node : Obj[n] = expectedObjective) =>
            Obj[incumbent] = expectedObjective

\* The search ends, whether or not any broadcast arrives.
SearchReturns == <>(main = "returned")
=============================================================================
