------------------------------ MODULE Ordered -------------------------------
(***************************************************************************)
(* The Ordered skeleton: the nodes at spawnDepth become tasks with a       *)
(* priority, which the schedulers of all localities take from one global   *)
(* priority queue while the thread that called search goes through the     *)
(* same tasks in the order of the tree.  Whoever is first to set the       *)
(* task's DistSetOnceFlag expands it.                                      *)
(*                                                                         *)
(* The skeleton does not compile for enumerations (search ends in two      *)
(* static_asserts that exclude each other), so Tags has none.              *)
(***************************************************************************)
EXTENDS ProcessNode

CONSTANTS sequential,    \* the thread that called search, a Worker
          spawnDepth,    \* params.spawnDepth
          maxDepth       \* params.maxDepth

ASSUME OrderedAssumption ==
    /\ sequential \in Worker /\ spawnDepth \in Nat \ {0} /\ maxDepth \in Nat
    /\ \A t \in Tags : t.kind # "Enumeration"

VARIABLES discrepancySearch,  \* the DiscrepancySearch tag
          tasks,       \* the tasks of search, in the order of the tree
          queue,       \* tasks in the PriorityWorkqueue
          sent,        \* addWork calls under way to it (not awaited)
          running,     \* Scheduler::running of each locality
          position,    \* the task the sequential thread comes to next
          startedFlag, \* the set-once flag of each task's node
          task,        \* the task each thread holds
          stack,       \* frames <<node, next child>>, the current one last
          expansions,  \* observer: times each task has been expanded
          main         \* where search is

queue_vars == <<queue, sent, running, position>>
search_vars == <<discrepancySearch, tasks>>
task_vars == <<startedFlag, task, stack, expansions>>
vars == <<process_vars, search_vars, queue_vars, task_vars, main>>
-----------------------------------------------------------------------------
\* prioritiseTasks: a linear search numbers the tasks; a discrepancy search
\* counts the siblings passed over on the way from the root.
prioritiseTasks ==
    [k \in DOMAIN Level(spawnDepth) |->
        LET n == Level(spawnDepth)[k]
        IN  [node |-> n, priority |->
               IF discrepancySearch THEN FoldSeq(+, 0, n) - Len(n) ELSE k - 1]]

TaskNodes == AtDepth(spawnDepth)

Init == /\ SharedInit
        /\ pc = [w \in Worker |-> "free"] /\ acc = [w \in Worker |-> Zero]
        /\ discrepancySearch \in BOOLEAN
        /\ tasks = <<>> /\ queue = {} /\ sent = {}
        /\ running = [l \in Locality |-> FALSE]
        /\ position = 1
        /\ startedFlag = [n \in TaskNodes |-> FALSE]
        /\ task = [w \in Worker |-> NoNode]
        /\ stack = [w \in Worker |-> <<>>]
        /\ expansions = [n \in TaskNodes |-> 0]
        /\ main = "spawn"

Stopped(w) == Kind = "Decision" /\ stopSearch[home[w]]
-----------------------------------------------------------------------------
\* search: send every task to the queue, then start the schedulers.
SpawnTasks ==
    /\ main = "spawn"
    /\ tasks' = prioritiseTasks
    /\ sent' = ToSet(prioritiseTasks)
    /\ running' = [l \in Locality |-> TRUE]
    /\ main' = "sequential"
    /\ UNCHANGED <<process_vars, discrepancySearch, queue, position, task_vars>>

\* PriorityWorkqueue::addWork.
addWork(t) ==
    /\ t \in sent
    /\ queue' = queue \cup {t}
    /\ sent' = sent \ {t}
    /\ UNCHANGED <<process_vars, search_vars, running, position, task_vars,
                   main>>

\* The loop of a scheduler tests running, and only then asks for work; the
\* answer may be a task though running has been cleared since.
CheckRunning(w) ==
    /\ w # sequential /\ pc[w] = "free" /\ running[home[w]]
    /\ Goto(w, "ask")
    /\ UNCHANGED <<tags, child, ret, acc, shared_vars, search_vars,
                   queue_vars, task_vars, main>>

\* A scheduler's getWork: PriorityWorkqueue::steal hands out a task with the
\* highest number, or nothing.
getWork(w) ==
    /\ pc[w] = "ask"
    /\ \/ \E t \in queue :
             /\ \A u \in queue : u.priority <= t.priority
             /\ queue' = queue \ {t}
             /\ task' = [task EXCEPT ![w] = t.node]
             /\ Goto(w, "check")
       \/ queue = {} /\ Goto(w, "free") /\ UNCHANGED <<queue, task>>
    /\ UNCHANGED <<tags, child, ret, acc, shared_vars, search_vars, sent,
                   running, position, startedFlag, stack, expansions, main>>

\* The loop of the sequential thread over all tasks.
NextTask ==
    /\ main = "sequential" /\ pc[sequential] = "free"
    /\ position <= Len(tasks)
    /\ task' = [task EXCEPT ![sequential] = tasks[position].node]
    /\ position' = position + 1
    /\ Goto(sequential, "check")
    /\ UNCHANGED <<tags, child, ret, acc, shared_vars, search_vars, queue,
                   sent, running, startedFlag, stack, expansions, main>>

PassedOver(w) == Kind = "Optimisation" /\ Hopeless(task[w], localBound[home[w]])

\* A stopped decision ends the loop of the sequential thread, and the task of a
\* scheduler; a task without hope is passed over and its flag left alone.
CheckTask(w) ==
    /\ pc[w] = "check"
    /\ Goto(w, IF Stopped(w) \/ PassedOver(w) THEN "free" ELSE "set")
    /\ main' = IF Stopped(w) /\ w = sequential THEN "stop" ELSE main
    /\ UNCHANGED <<tags, child, ret, acc, shared_vars, search_vars,
                   queue_vars, task_vars>>

\* Mutant: the flag is tested but not written.
set_valueUnwritten(w) ==
    IF startedFlag[task[w]]
    THEN UNCHANGED startedFlag /\ Goto(w, "free")
    ELSE UNCHANGED startedFlag /\ Goto(w, "expand")

\* DistSetOnceFlag::set_value, one call at a time: only the first to come
\* expands the task.
set_value(w) ==
    IF startedFlag[task[w]]
    THEN UNCHANGED startedFlag /\ Goto(w, "free")
    ELSE startedFlag' = [startedFlag EXCEPT ![task[w]] = TRUE] /\ Goto(w, "expand")

\* expandNoSpawns returns at once from a stopped decision and at the depth
\* limit.
Entered(w, n) ==
    IF Stopped(w) \/ (DepthLimited /\ Len(n) = maxDepth) THEN <<>> ELSE <<<<n, 1>>>>

StartTask(w) ==
    /\ pc[w] = "set"
    /\ set_value(w)
    /\ IF pc'[w] = "expand"
       THEN /\ expansions' = [expansions EXCEPT ![task[w]] = @ + 1]
            /\ stack' = [stack EXCEPT ![w] = Entered(w, task[w])]
       ELSE UNCHANGED <<expansions, stack>>
    /\ UNCHANGED <<tags, child, ret, acc, shared_vars, search_vars,
                   queue_vars, task, main>>
-----------------------------------------------------------------------------
Frame(w) == stack[w][Len(stack[w])]

LeaveFrame(w) == stack' = [stack EXCEPT ![w] = SubSeq(@, 1, Len(@) - 1)]

\* Neither the queue nor the tasks are touched while a task is expanded.
Expanding == UNCHANGED <<tags, acc, shared_vars, search_vars, queue_vars,
                         startedFlag, task, expansions, main>>

NextChild(w) ==
    /\ pc[w] = "expand" /\ stack[w] # <<>>
    /\ Frame(w)[2] <= numChildren(Frame(w)[1])
    /\ child' = [child EXCEPT ![w] = Child(Frame(w)[1], Frame(w)[2])]
    /\ stack' = [stack EXCEPT ![w][Len(stack[w])][2] = @ + 1]
    /\ Goto(w, "process")
    /\ UNCHANGED ret /\ Expanding

\* No child is left: back to the caller, and from the last one out of the task.
Leave(w) ==
    /\ pc[w] = "expand"
    /\ \/ stack[w] = <<>> /\ Goto(w, "free") /\ UNCHANGED stack
       \/ /\ stack[w] # <<>> /\ Frame(w)[2] > numChildren(Frame(w)[1])
          /\ LeaveFrame(w) /\ UNCHANGED pc
    /\ UNCHANGED <<child, ret>> /\ Expanding

ProcessChild(w) ==
    Process(w) /\ UNCHANGED <<search_vars, queue_vars, task_vars, main>>

\* Mutant: Break leaves the whole task and not only the level.
AnsweredOut(w) ==
    /\ pc[w] = "answered"
    /\ \/ ret[w] = "Continue" /\ stack' = [stack EXCEPT ![w] = @ \o Entered(w, child[w])]
       \/ ret[w] = "Prune" /\ UNCHANGED stack
       \/ ret[w] \in {"Break", "Exit"} /\ stack' = [stack EXCEPT ![w] = <<>>]
    /\ Goto(w, "expand")
    /\ UNCHANGED <<child, ret>> /\ Expanding

\* Go below the child, skip it, or leave the level; Exit, too, only leaves the
\* innermost call.
Answered(w) ==
    /\ pc[w] = "answered"
    /\ \/ ret[w] = "Continue" /\ stack' = [stack EXCEPT ![w] = @ \o Entered(w, child[w])]
       \/ ret[w] = "Prune" /\ UNCHANGED stack
       \/ ret[w] \in {"Break", "Exit"} /\ LeaveFrame(w)
    /\ Goto(w, "expand")
    /\ UNCHANGED <<child, ret>> /\ Expanding
-----------------------------------------------------------------------------
\* The sequential thread has come to the end of the tasks.
AllSeen ==
    /\ main = "sequential" /\ pc[sequential] = "free"
    /\ position > Len(tasks)
    /\ main' = "stop"
    /\ UNCHANGED <<process_vars, search_vars, queue_vars, task_vars>>

\* Mutant: the schedulers of the own locality are not stopped.
StopSchedulersAway(l) ==
    /\ main = "stop" /\ running[l] /\ l # home[sequential]
    /\ running' = [running EXCEPT ![l] = FALSE]
    /\ UNCHANGED <<process_vars, search_vars, queue, sent, position,
                   task_vars, main>>

\* The broadcast of stopSchedulers reaches a locality.
StopSchedulers(l) ==
    /\ main = "stop" /\ running[l]
    /\ running' = [running EXCEPT ![l] = FALSE]
    /\ UNCHANGED <<process_vars, search_vars, queue, sent, position,
                   task_vars, main>>

\* Every locality has waited for its schedulers: the incumbent is returned.
Return ==
    /\ main = "stop"
    /\ \A l \in Locality : ~ running[l]
    /\ \A w \in Worker : pc[w] = "free"
    /\ main' = "returned"
    /\ UNCHANGED <<process_vars, search_vars, queue_vars, task_vars>>

Step(w) == \/ CheckRunning(w) \/ getWork(w) \/ CheckTask(w) \/ StartTask(w)
           \/ NextChild(w) \/ Leave(w) \/ ProcessChild(w) \/ Answered(w)

Search == \/ SpawnTasks \/ NextTask \/ AllSeen \/ Return
          \/ \E l \in Locality : StopSchedulers(l)

Deliver == Receive /\ UNCHANGED <<search_vars, queue_vars, task_vars, main>>

Next == \/ Search \/ Deliver
        \/ \E t \in sent : addWork(t)
        \/ \E w \in Worker : Step(w)

\* Every ready hpx thread runs eventually; messages are not assumed to arrive.
Fairness == WF_vars(Search) /\ \A w \in Worker : WF_vars(Step(w))

Spec == Init /\ [][Next]_vars
FairSpec == Spec /\ Fairness
-----------------------------------------------------------------------------
TypeOK ==
    /\ ProcessTypeOK
    /\ pc \in [Worker -> ProcessPlaces \cup {"ask", "check", "set", "expand"}]
    /\ discrepancySearch \in BOOLEAN
    /\ queue \cup sent \subseteq ToSet(tasks)
    /\ running \in [Locality -> BOOLEAN]
    /\ position \in 1..Len(tasks) + 1
    /\ startedFlag \in [TaskNodes -> BOOLEAN]
    /\ task \in [Worker -> TaskNodes \cup {NoNode}]
    /\ \A w \in Worker : stack[w] \in Seq(Node \X (Nat \ {0}))
    /\ expansions \in [TaskNodes -> Nat]
    /\ main \in {"spawn", "sequential", "stop", "returned"}

\* The sequential thread and the schedulers never both expand a task, however
\* late its addWork arrives and however their checks interleave.
TaskExpandedOnce == \A n \in TaskNodes : expansions[n] <= 1

\* The nodes some task gives to processNode.
Searched == {n \in Node : /\ Len(n) > spawnDepth
                          /\ DepthLimited => (Len(n) <= maxDepth \/ maxDepth < spawnDepth)}

\* When search returns, though tasks are still in the queue or on their way to
\* it, nothing better than the incumbent is left below any task, and a decision
\* has found a solution that is there.  Of the nodes down to spawnDepth,
\* processNode sees none: the promise does not reach them.
BestOfTasks ==
    main = "returned" =>
        /\ Kind = "Optimisation" => BestOf(Searched)
        /\ Kind = "Decision" /\ (\E n \in Searched : Obj[n] = expectedObjective) =>
              Obj[incumbent] = expectedObjective

\* The search ends, whether or not any addWork or broadcast arrives.
SearchReturns == <>(main = "returned")
=============================================================================
